---------------------------- MODULE Library_proofs ----------------------------
(***************************************************************************)
(* Proofs about the works and their metadata and about the backups, for    *)
(* every number of editions, streams, items and processes, and from them   *)
(* and those of Files_proofs and Imports_proofs about the part of the      *)
(* server that keeps the library and its files as a whole.                 *)
(***************************************************************************)
EXTENDS MCLibrary, Files_proofs, Imports_proofs

-----------------------------------------------------------------------------
(* Works and their metadata.                                               *)

Work == [title : MtTitles \cup MtEditions, described : BOOLEAN, cover : BOOLEAN]

MtTyped ==
    /\ mtWorks = [i \in DOMAIN mtWorks |-> mtWorks[i]] /\ \A i \in DOMAIN mtWorks : mtWorks[i] \in Work
    /\ mtEditions \in [MtEditions -> Nat]
    /\ mtChapters \in [MtEditions -> {"generic", "provider", "scanned"}]
    /\ DOMAIN mtApply = Appliers

(* An edition is in a work and a work has an edition; whoever is about to show a picture has stored it. *)
WorksAgree ==
    /\ MtTypeOK
    /\ \A a \in Appliers : mtApply[a].at = "link" => mtApply[a].id \in mtPictures

StreamRecord == [on : BOOLEAN, queue : Seq({"running", "end"}), ended : BOOLEAN]
HasEnd(queue) == \E i \in DOMAIN queue : queue[i] = "end"

(* Whoever is subscribed to a refresh that is over has its end in the channel. *)
StreamsAgree ==
    /\ mtStreams \in [MtStreams -> StreamRecord]
    /\ mtRun.status = "done" => \A s \in MtStreams : mtStreams[s].on => HasEnd(mtStreams[s].queue)

MtInv == MtTyped /\ WorksAgree /\ StreamsAgree

LEMMA MtInitHolds == MtInit => MtInv
<1> SUFFICES ASSUME MtInit PROVE MtInv
    OBVIOUS
<1>1. MtTyped
    BY DEF MtInit, MtTyped
<1>2. WorksAgree
    BY DEF MtInit, WorksAgree, MtTypeOK, NoApply
<1>3. << >> \in Seq({"running", "end"}) /\ NoStream \in StreamRecord
    BY DEF NoStream, StreamRecord
<1>4. StreamsAgree
    BY <1>3 DEF MtInit, StreamsAgree
<1> QED
    BY <1>1, <1>2, <1>4 DEF MtInv

(* An edition comes to a work: the one it leaves goes with its last edition. *)
LEMMA PlaceKeeps ==
    ASSUME MtTyped, WorksAgree, NEW e \in MtEditions, NEW w \in 1..MtMaxId, NEW title \in MtTitles \cup MtEditions, Place(e, w, title),
           UNCHANGED <<mtChapters, mtPictures, mtApply>>
    PROVE  MtTyped' /\ WorksAgree'
<1> DEFINE left == IF EditionsOf(mtEditions[e]) \subseteq {e} THEN {mtEditions[e]} \ {w} ELSE {}
<1>1. /\ mtEditions' = [mtEditions EXCEPT ![e] = w]
      /\ mtWorks' = [i \in (DOMAIN mtWorks \cup {w}) \ left |-> IF i \in DOMAIN mtWorks THEN mtWorks[i] ELSE NewWork(title)]
    BY DEF Place
<1>2. w \in Nat /\ w # 0 /\ w \notin left
    OBVIOUS
<1>3. mtEditions'[e] = w /\ \A d \in MtEditions : d # e => mtEditions'[d] = mtEditions[d]
    BY <1>1 DEF MtTyped
<1>4. NewWork(title) \in Work /\ NewWork(title).cover = FALSE
    BY DEF NewWork, Work
<1>5. MtTyped'
    BY <1>1, <1>2, <1>4 DEF MtTyped
<1>6. ASSUME NEW d \in MtEditions, mtEditions'[d] # 0 PROVE mtEditions'[d] \in DOMAIN mtWorks'
    <2>1. CASE d = e
        BY <1>1, <1>2, <1>3, <2>1
    <2>2. CASE d # e
        <3>1. mtEditions[d] \in DOMAIN mtWorks /\ mtEditions'[d] = mtEditions[d]
            BY <1>3, <1>6, <2>2 DEF WorksAgree, MtTypeOK
        <3>2. mtEditions[d] \notin left
            BY <2>2 DEF EditionsOf
        <3> QED
            BY <1>1, <3>1, <3>2
    <2> QED
        BY <2>1, <2>2
<1>7. ASSUME NEW i \in DOMAIN mtWorks' PROVE EditionsOf(i)' # {}
    <2>1. i \in DOMAIN mtWorks \cup {w} /\ i \notin left
        BY <1>1, <1>7
    <2>2. CASE i = w
        BY <1>3, <2>2 DEF EditionsOf
    <2>3. CASE i # w
        <3>1. EditionsOf(i) # {}
            BY <2>1, <2>3 DEF WorksAgree, MtTypeOK
        <3>2. PICK d \in EditionsOf(i) : d # e
            <4>1. CASE i = mtEditions[e]
                BY <2>1, <2>3, <4>1
            <4>2. CASE i # mtEditions[e]
                BY <3>1, <4>2 DEF EditionsOf
            <4> QED
                BY <4>1, <4>2
        <3> QED
            BY <1>3, <3>2 DEF EditionsOf
    <2> QED
        BY <2>2, <2>3
<1>8. ASSUME NEW i \in DOMAIN mtWorks', mtWorks'[i].cover PROVE i \in mtPictures'
    <2>1. CASE i \in DOMAIN mtWorks
        BY <1>1, <1>8, <2>1 DEF WorksAgree, MtTypeOK
    <2>2. CASE i \notin DOMAIN mtWorks
        BY <1>1, <1>4, <1>8, <2>2
    <2> QED
        BY <2>1, <2>2
<1>9. \A a \in Appliers : mtApply'[a].at = "link" => mtApply'[a].id \in mtPictures'
    BY DEF WorksAgree
<1> HIDE DEF left
<1> QED
    BY <1>5, <1>6, <1>7, <1>8, <1>9 DEF WorksAgree, MtTypeOK

LEMMA MergeKeeps ==
    ASSUME MtTyped, WorksAgree, NEW source \in 1..MtMaxId, NEW target \in 1..MtMaxId, MergeWorks(source, target)
    PROVE  MtTyped' /\ WorksAgree'
<1>1. /\ source # target /\ source \in DOMAIN mtWorks /\ target \in DOMAIN mtWorks /\ target \in Nat
      /\ mtEditions' = [e \in MtEditions |-> IF mtEditions[e] = source THEN target ELSE mtEditions[e]]
      /\ mtWorks' = [i \in DOMAIN mtWorks \ {source} |-> mtWorks[i]]
      /\ UNCHANGED <<mtChapters, mtPictures, mtApply>>
    BY DEF MergeWorks
<1>2. MtTyped'
    BY <1>1 DEF MtTyped
<1>3. \A d \in MtEditions : mtEditions'[d] # 0 => mtEditions'[d] \in DOMAIN mtWorks'
    BY <1>1 DEF WorksAgree, MtTypeOK
<1>4. ASSUME NEW i \in DOMAIN mtWorks' PROVE EditionsOf(i)' # {} /\ (mtWorks'[i].cover => i \in mtPictures')
    <2>1. i \in DOMAIN mtWorks /\ i # source /\ mtWorks'[i] = mtWorks[i]
        BY <1>1, <1>4
    <2>2. PICK d \in MtEditions : mtEditions[d] = i
        BY <2>1 DEF WorksAgree, MtTypeOK, EditionsOf
    <2>3. mtEditions'[d] = i
        BY <1>1, <2>1, <2>2
    <2> QED
        BY <1>1, <2>1, <2>3 DEF WorksAgree, MtTypeOK, EditionsOf
<1>5. \A a \in Appliers : mtApply'[a].at = "link" => mtApply'[a].id \in mtPictures'
    BY <1>1 DEF WorksAgree
<1> QED
    BY <1>2, <1>3, <1>4, <1>5 DEF WorksAgree, MtTypeOK

(* What a request or the refresh writes into a work, if it is still there. *)
LEMMA UpdateKeeps ==
    ASSUME MtTyped, WorksAgree, NEW a \in Appliers, NEW field \in {"described", "cover"}, mtWorks' = Updated(mtApply[a].id, field),
           field = "cover" => mtApply[a].at = "link", UNCHANGED <<mtEditions, mtChapters, mtPictures>>,
           NEW at \in {"cover", "chapters"}, mtApply' = [mtApply EXCEPT ![a].at = at]
    PROVE  MtTyped' /\ WorksAgree'
<1> DEFINE w == mtApply[a].id
<1>1. DOMAIN mtWorks' = DOMAIN mtWorks /\ mtWorks' = [i \in DOMAIN mtWorks' |-> mtWorks'[i]]
    BY DEF Updated, MtTyped
<1>2. ASSUME NEW i \in DOMAIN mtWorks PROVE mtWorks'[i] \in Work /\ (mtWorks'[i].cover => i \in mtPictures)
    <2>1. mtWorks[i] \in Work /\ (mtWorks[i].cover => i \in mtPictures)
        BY DEF MtTyped, WorksAgree, MtTypeOK
    <2>2. CASE i = w
        <3>1. mtWorks'[i] = [mtWorks[i] EXCEPT ![field] = TRUE]
            BY <2>2 DEF Updated, MtTyped
        <3>2. mtWorks'[i] \in Work
            BY <2>1, <3>1 DEF Work
        <3>3. field = "described" => mtWorks'[i].cover = mtWorks[i].cover
            BY <2>1, <3>1 DEF Work
        <3>4. field = "cover" => i \in mtPictures
            BY <2>2 DEF WorksAgree
        <3> QED
            BY <2>1, <3>2, <3>3, <3>4
    <2>3. CASE i # w
        BY <2>1, <2>3 DEF Updated, MtTyped
    <2> QED
        BY <2>2, <2>3
<1>3. DOMAIN mtApply' = Appliers /\ \A b \in Appliers : mtApply'[b].at = "link" => mtApply'[b] = mtApply[b]
    BY DEF MtTyped
<1> HIDE DEF w
<1>4. MtTyped'
    BY <1>1, <1>2, <1>3 DEF MtTyped
<1>5. \A b \in Appliers : mtApply'[b].at = "link" => mtApply'[b].id \in mtPictures'
    BY <1>3 DEF WorksAgree
<1>6. MtTypeOK'
    BY <1>1, <1>2 DEF WorksAgree, MtTypeOK, EditionsOf
<1> QED
    BY <1>4, <1>5, <1>6 DEF WorksAgree

(* Nothing of the works changes, and nobody comes to show a picture it has not stored. *)
LEMMA WorksUnchanged ==
    ASSUME MtTyped, WorksAgree, UNCHANGED <<mtWorks, mtEditions>>, mtChapters' \in [MtEditions -> {"generic", "provider", "scanned"}],
           mtPictures \subseteq mtPictures', DOMAIN mtApply' = Appliers,
           \A a \in Appliers : mtApply'[a].at = "link" => (mtApply[a].at = "link" /\ mtApply'[a].id = mtApply[a].id) \/ mtApply'[a].id \in mtPictures'
    PROVE  MtTyped' /\ WorksAgree'
<1>1. MtTyped'
    BY DEF MtTyped
<1>2. MtTypeOK'
    BY DEF WorksAgree, MtTypeOK, EditionsOf
<1>3. \A a \in Appliers : mtApply'[a].at = "link" => mtApply'[a].id \in mtPictures'
    BY DEF WorksAgree
<1> QED
    BY <1>1, <1>2, <1>3 DEF WorksAgree

(* A progress event changes neither who is subscribed nor whether the end is there. *)
LEMMA EventKeeps ==
    ASSUME StreamsAgree, mtStreams' = PublishSnapshot(mtStreams, "running"), mtRun'.status = "done" => mtRun.status = "done"
    PROVE  StreamsAgree'
<1>1. ASSUME NEW s \in MtStreams
      PROVE  /\ mtStreams'[s] \in StreamRecord
             /\ mtRun'.status = "done" /\ mtStreams'[s].on => HasEnd(mtStreams'[s].queue)
    <2> DEFINE old == mtStreams[s]
    <2>1. old \in StreamRecord /\ old.queue \in Seq({"running", "end"})
        BY DEF StreamsAgree, StreamRecord
    <2>2. CASE mtStreams'[s] = old
        BY <2>1, <2>2 DEF StreamsAgree
    <2>3. CASE mtStreams'[s] = [old EXCEPT !.queue = Append(old.queue, "running")]
        <3> DEFINE queue == Append(old.queue, "running")
        <3>1. queue \in Seq({"running", "end"}) /\ \A i \in DOMAIN old.queue : i \in DOMAIN queue /\ queue[i] = old.queue[i]
            BY <2>1, AppendProperties
        <3> HIDE DEF queue
        <3>2. mtStreams'[s] \in StreamRecord /\ mtStreams'[s].queue = queue /\ mtStreams'[s].on = old.on
            BY <2>1, <2>3, <3>1 DEF StreamRecord, queue
        <3>3. HasEnd(old.queue) => HasEnd(queue)
            BY <3>1 DEF HasEnd
        <3> QED
            BY <3>2, <3>3 DEF StreamsAgree
    <2> QED
        BY <2>2, <2>3 DEF PublishSnapshot
<1>2. mtStreams' \in [MtStreams -> StreamRecord]
    BY <1>1 DEF PublishSnapshot
<1> QED
    BY <1>1, <1>2 DEF StreamsAgree

LEMMA FinishedKeeps ==
    ASSUME StreamsAgree, mtStreams' = Finished(mtStreams)
    PROVE  StreamsAgree'
<1>1. ASSUME NEW s \in MtStreams
      PROVE  mtStreams'[s] \in StreamRecord /\ (mtStreams'[s].on => HasEnd(mtStreams'[s].queue))
    <2> DEFINE old == mtStreams[s]
               kept == IF Len(old.queue) < MtChannel THEN old.queue ELSE Tail(old.queue)
    <2>1. old \in StreamRecord /\ old.queue \in Seq({"running", "end"}) /\ old.on \in BOOLEAN
        BY DEF StreamsAgree, StreamRecord
    <2>2. CASE ~old.on
        <3>1. mtStreams'[s] = old
            BY <2>2 DEF Finished
        <3> QED
            BY <2>1, <2>2, <3>1
    <2>3. CASE old.on
        <3>1. kept \in Seq({"running", "end"})
            <4>1. CASE Len(old.queue) < MtChannel
                BY <2>1, <4>1
            <4>2. CASE ~(Len(old.queue) < MtChannel)
                <5>1. old.queue # << >>
                    BY <2>1, <4>2, MtAssumption
                <5> QED
                    BY <2>1, <4>2, <5>1
            <4> QED
                BY <4>1, <4>2
        <3>2. mtStreams'[s] = [old EXCEPT !.queue = Append(kept, "end")]
            BY <2>3 DEF Finished
        <3> HIDE DEF kept
        <3> DEFINE queue == Append(kept, "end")
        <3>3. queue \in Seq({"running", "end"}) /\ Len(kept) + 1 \in DOMAIN queue /\ queue[Len(kept) + 1] = "end"
            BY <3>1, AppendProperties, LenProperties
        <3> HIDE DEF queue
        <3>4. mtStreams'[s] \in StreamRecord /\ mtStreams'[s].queue = queue
            BY <2>1, <3>2, <3>3 DEF StreamRecord, queue
        <3> QED
            BY <3>3, <3>4 DEF HasEnd
    <2> QED
        BY <2>2, <2>3
<1>2. mtStreams' \in [MtStreams -> StreamRecord]
    BY <1>1 DEF Finished
<1> QED
    BY <1>1, <1>2 DEF StreamsAgree

LEMMA SubscriberKeeps ==
    ASSUME StreamsAgree, NEW s \in MtStreams, Subscribe(s) \/ Receive(s), mtRun.status \in {"none", "running", "done"}
    PROVE  StreamsAgree'
<1> DEFINE old == mtStreams[s]
<1>1. old \in StreamRecord /\ old.queue \in Seq({"running", "end"})
    BY DEF StreamsAgree, StreamRecord
<1>2. mtRun' = mtRun
    BY DEF Subscribe, Receive
<1>3. << >> \in Seq({"running", "end"}) /\ NoStream \in StreamRecord
    BY DEF NoStream, StreamRecord
<1>4. PICK k \in StreamRecord : mtStreams' = [mtStreams EXCEPT ![s] = k] /\ (mtRun.status = "done" /\ k.on => HasEnd(k.queue))
    <2>1. CASE Subscribe(s)
        <3> DEFINE q == <<IF mtRun.status = "running" THEN "running" ELSE "end">>
                   k == [NoStream EXCEPT !.on = TRUE, !.queue = q]
        <3>1. q \in Seq({"running", "end"}) /\ 1 \in DOMAIN q /\ (mtRun.status = "done" => q[1] = "end")
            OBVIOUS
        <3>2. mtStreams' = [mtStreams EXCEPT ![s] = k]
            BY <2>1 DEF Subscribe
        <3> HIDE DEF q
        <3>3. k \in StreamRecord /\ k.queue = q
            BY <1>3, <3>1 DEF StreamRecord
        <3> HIDE DEF k
        <3> QED
            BY <3>1, <3>2, <3>3 DEF HasEnd
    <2>2. CASE Receive(s)
        <3>1. old.queue # << >>
            BY <2>2 DEF Receive
        <3>2. CASE Head(old.queue) = "end"
            <4> DEFINE k == [NoStream EXCEPT !.ended = TRUE]
            <4>1. mtStreams' = [mtStreams EXCEPT ![s] = k]
                BY <2>2, <3>2 DEF Receive, StreamsAgree
            <4>2. k \in StreamRecord /\ ~k.on
                BY <1>3 DEF NoStream, StreamRecord
            <4> HIDE DEF k
            <4> QED
                BY <4>1, <4>2
        <3>3. CASE Head(old.queue) # "end"
            <4> DEFINE k == [old EXCEPT !.queue = Tail(old.queue)]
            <4>1. mtStreams' = [mtStreams EXCEPT ![s] = k]
                <5>1. mtStreams' = [mtStreams EXCEPT ![s] = IF Head(old.queue) = "end" THEN [NoStream EXCEPT !.ended = TRUE]
                                                            ELSE [old EXCEPT !.queue = Tail(old.queue)]]
                    BY <2>2 DEF Receive
                <5> QED
                    BY <3>3, <5>1
            <4>2. Tail(old.queue) \in Seq({"running", "end"})
                BY <1>1, <3>1
            <4>3. k \in StreamRecord /\ k.queue = Tail(old.queue) /\ k.on = old.on
                BY <1>1, <4>2 DEF StreamRecord
            <4> HIDE DEF k
            <4>4. HasEnd(old.queue) => HasEnd(Tail(old.queue))
                <5> SUFFICES ASSUME NEW i \in DOMAIN old.queue, old.queue[i] = "end" PROVE HasEnd(Tail(old.queue))
                    BY DEF HasEnd
                <5>1. i \in 1..Len(old.queue) /\ i # 1
                    BY <1>1, <3>1, <3>3
                <5>2. i - 1 \in 1..Len(Tail(old.queue)) /\ Tail(old.queue)[i - 1] = old.queue[i]
                    BY <1>1, <3>1, <5>1
                <5> QED
                    BY <4>2, <5>2 DEF HasEnd
            <4> QED
                BY <4>1, <4>3, <4>4 DEF StreamsAgree
        <3> QED
            BY <3>2, <3>3
    <2> QED
        BY <2>1, <2>2
<1>5. mtStreams' \in [MtStreams -> StreamRecord] /\ mtStreams'[s] = k /\ \A t \in MtStreams : t # s => mtStreams'[t] = mtStreams[t]
    BY <1>4 DEF StreamsAgree
<1> QED
    BY <1>2, <1>4, <1>5 DEF StreamsAgree

LEMMA MtStepKeeps ==
    ASSUME MtInv, mtRun.status \in {"none", "running", "done"}, [MtNext]_mtVars
    PROVE  MtInv' /\ mtRun'.status \in {"none", "running", "done"} /\ ScannedChaptersStay
<1>1. MtTyped /\ WorksAgree /\ StreamsAgree /\ DOMAIN mtApply = Appliers /\ mtChapters \in [MtEditions -> {"generic", "provider", "scanned"}]
    BY DEF MtInv, MtTyped
<1> DEFINE Goal == MtInv' /\ mtRun'.status \in {"none", "running", "done"} /\ ScannedChaptersStay
<1>2. ASSUME UNCHANGED <<mtStreams, mtRun>> PROVE StreamsAgree'
    BY <1>1, <1>2 DEF StreamsAgree
<1>3. NoApply.at = "idle"
    BY DEF NoApply
<1>4. ASSUME NEW e \in MtEditions, \/ \E t \in MtTitles : ScanNew(e, t)
                                   \/ SplitEditionToNewWork(e)
                                   \/ \E w \in 1..MtMaxId : MoveEditionToWork(e, w)
      PROVE  Goal
    <2>1. UNCHANGED <<mtChapters, mtPictures, mtApply, mtRun, mtStreams>>
        BY <1>4 DEF ScanNew, SplitEditionToNewWork, MoveEditionToWork
    <2>2. \E w \in 1..MtMaxId, title \in MtTitles \cup MtEditions : Place(e, w, title)
        BY <1>4 DEF ScanNew, SplitEditionToNewWork, MoveEditionToWork, WorkFor
    <2>3. MtTyped' /\ WorksAgree'
        BY <1>1, <2>1, <2>2, PlaceKeeps
    <2> QED
        BY <1>2, <2>1, <2>3 DEF MtInv, ScannedChaptersStay
<1>5. ASSUME NEW e \in MtEditions, ScanChapters(e) PROVE Goal
    <2>1. mtChapters' = [mtChapters EXCEPT ![e] = "scanned"] /\ UNCHANGED <<mtWorks, mtEditions, mtPictures, mtApply, mtRun, mtStreams>>
        BY <1>5 DEF ScanChapters
    <2>2. mtChapters' \in [MtEditions -> {"generic", "provider", "scanned"}] /\ ScannedChaptersStay
        BY <1>1, <2>1 DEF ScannedChaptersStay
    <2>3. MtTyped' /\ WorksAgree'
        BY <1>1, <2>1, <2>2, WorksUnchanged
    <2> QED
        BY <1>2, <2>1, <2>2, <2>3 DEF MtInv
<1>6. ASSUME NEW w \in 1..MtMaxId, NEW v \in 1..MtMaxId, MergeWorks(w, v) PROVE Goal
    <2>1. MtTyped' /\ WorksAgree'
        BY <1>1, <1>6, MergeKeeps
    <2> QED
        BY <1>2, <1>6, <2>1 DEF MtInv, MergeWorks, ScannedChaptersStay
<1>7. ASSUME NEW w \in 1..MtMaxId, SkipWork(w) PROVE Goal
    <2>1. UNCHANGED <<mtWorks, mtEditions, mtChapters, mtPictures, mtApply, mtRun, mtStreams>>
        BY <1>7 DEF SkipWork
    <2>2. MtTyped' /\ WorksAgree'
        BY <1>1, <2>1, WorksUnchanged
    <2> QED
        BY <1>2, <2>1, <2>2 DEF MtInv, ScannedChaptersStay
<1>8. ASSUME NEW w \in 1..MtMaxId, NEW a \in MtMatches, ApplyMatch(a, w) PROVE Goal
    <2>1. UNCHANGED <<mtWorks, mtEditions, mtChapters, mtPictures, mtRun, mtStreams>>
        BY <1>8 DEF ApplyMatch, mtRows
    <2>2. mtApply' = [mtApply EXCEPT ![a] = [NoApply EXCEPT !.at = "meta", !.id = w]]
        BY <1>8 DEF ApplyMatch
    <2>3. [NoApply EXCEPT !.at = "meta", !.id = w].at = "meta"
        BY DEF NoApply
    <2>4. DOMAIN mtApply' = Appliers /\ \A b \in Appliers : mtApply'[b].at = "link" => mtApply'[b] = mtApply[b]
        BY <1>1, <2>2, <2>3
    <2>5. MtTyped' /\ WorksAgree'
        BY <1>1, <2>1, <2>4, WorksUnchanged
    <2> QED
        BY <1>2, <2>1, <2>5 DEF MtInv, ScannedChaptersStay
<1>9. ASSUME NEW s \in MtStreams, Subscribe(s) \/ Receive(s) PROVE Goal
    <2>1. UNCHANGED <<mtWorks, mtEditions, mtChapters, mtPictures, mtApply, mtRun>>
        BY <1>9 DEF Subscribe, Receive, mtRows
    <2>2. MtTyped' /\ WorksAgree'
        BY <1>1, <2>1, WorksUnchanged
    <2>3. StreamsAgree'
        BY <1>1, <1>9, SubscriberKeeps
    <2> QED
        BY <2>1, <2>2, <2>3 DEF MtInv, ScannedChaptersStay
<1>10. CASE RefreshMeta
    <2>1. UNCHANGED <<mtWorks, mtEditions, mtChapters, mtPictures, mtApply>> /\ mtRun'.status = "running"
        BY <1>10 DEF RefreshMeta, mtRows
    <2>2. MtTyped' /\ WorksAgree'
        BY <1>1, <2>1, WorksUnchanged
    <2>3. << >> \in Seq({"running", "end"}) /\ NoStream \in StreamRecord
        BY DEF NoStream, StreamRecord
    <2>4. mtStreams' \in [MtStreams -> StreamRecord]
        BY <1>1, <1>10, <2>3 DEF RefreshMeta, StreamsAgree
    <2> QED
        BY <2>1, <2>2, <2>4 DEF MtInv, StreamsAgree, ScannedChaptersStay
<1>11. CASE TakeWork
    <2>1. UNCHANGED <<mtWorks, mtEditions, mtChapters, mtPictures>> /\ mtRun.status = "running"
        BY <1>11 DEF TakeWork, mtRows
    <2>2. mtStreams' = mtStreams \/ mtStreams' = PublishSnapshot(mtStreams, "running")
        BY <1>11 DEF TakeWork
    <2>3. mtRun'.status \in {"none", "running", "done"} /\ (mtRun'.status = "done" => mtRun.status = "done")
        <3>1. \E x : mtRun' = [mtRun EXCEPT !.inbox = x]
            BY <1>11 DEF TakeWork
        <3> QED
            BY <2>1, <3>1
    <2>4. StreamsAgree'
        BY <1>1, <2>2, <2>3, EventKeeps DEF StreamsAgree
    <2>5. mtApply' = mtApply \/ \E w : mtApply' = [mtApply EXCEPT ![MtRefresh] = [NoApply EXCEPT !.at = "meta", !.id = w]]
        BY <1>11 DEF TakeWork
    <2>6. \A w : [NoApply EXCEPT !.at = "meta", !.id = w].at = "meta"
        BY DEF NoApply
    <2>7. DOMAIN mtApply' = Appliers /\ \A b \in Appliers : mtApply'[b].at = "link" => mtApply'[b] = mtApply[b]
        BY <1>1, <2>5, <2>6
    <2>8. MtTyped' /\ WorksAgree'
        BY <1>1, <2>1, <2>7, WorksUnchanged
    <2> QED
        BY <2>1, <2>3, <2>4, <2>8 DEF MtInv, ScannedChaptersStay
<1>12. CASE EndRefresh
    <2>1. UNCHANGED <<mtWorks, mtEditions, mtChapters, mtPictures, mtApply>> /\ mtRun'.status = "done" /\ mtStreams' = Finished(mtStreams)
        BY <1>12 DEF EndRefresh, mtRows
    <2>2. MtTyped' /\ WorksAgree'
        BY <1>1, <2>1, WorksUnchanged
    <2> QED
        BY <1>1, <2>1, <2>2, FinishedKeeps DEF MtInv, ScannedChaptersStay
<1>13. ASSUME NEW a \in Appliers, ApplyWorkMeta(a) PROVE Goal
    <2>1. PICK at \in {"cover", "chapters"} : mtApply' = [mtApply EXCEPT ![a].at = at]
        BY <1>13 DEF ApplyWorkMeta, Goes
    <2>2. mtWorks' = Updated(mtApply[a].id, "described") /\ UNCHANGED <<mtEditions, mtChapters, mtPictures, mtStreams, mtRun>>
        BY <1>13 DEF ApplyWorkMeta, Goes
    <2>3. MtTyped' /\ WorksAgree'
        BY <1>1, <2>1, <2>2, UpdateKeeps
    <2> QED
        BY <1>2, <2>2, <2>3 DEF MtInv, ScannedChaptersStay
<1>14. ASSUME NEW a \in Appliers, DownloadCover(a) PROVE Goal
    <2>1. UNCHANGED <<mtWorks, mtEditions, mtChapters, mtStreams, mtRun>> /\ mtPictures \subseteq mtPictures'
        BY <1>14 DEF DownloadCover, Goes
    <2>2. PICK at \in {"link", "chapters"} : mtApply' = [mtApply EXCEPT ![a].at = at] /\ (at = "link" => mtApply[a].id \in mtPictures')
        BY <1>14 DEF DownloadCover, Goes
    <2>3. DOMAIN mtApply' = Appliers
          /\ \A b \in Appliers : mtApply'[b].at = "link" => (mtApply[b].at = "link" /\ mtApply'[b].id = mtApply[b].id) \/ mtApply'[b].id \in mtPictures'
        BY <1>1, <2>2
    <2>4. MtTyped' /\ WorksAgree'
        BY <1>1, <2>1, <2>3, WorksUnchanged
    <2> QED
        BY <1>2, <2>1, <2>4 DEF MtInv, ScannedChaptersStay
<1>15. ASSUME NEW a \in Appliers, SetWorkCover(a) PROVE Goal
    <2>1. mtApply' = [mtApply EXCEPT ![a].at = "chapters"] /\ mtApply[a].at = "link"
        BY <1>15 DEF SetWorkCover, Goes
    <2>2. mtWorks' = Updated(mtApply[a].id, "cover") /\ UNCHANGED <<mtEditions, mtChapters, mtPictures, mtStreams, mtRun>>
        BY <1>15 DEF SetWorkCover, Goes
    <2>3. MtTyped' /\ WorksAgree'
        BY <1>1, <2>1, <2>2, UpdateKeeps
    <2> QED
        BY <1>2, <2>2, <2>3 DEF MtInv, ScannedChaptersStay
<1>16. ASSUME NEW a \in Appliers, ReadChapters(a) PROVE Goal
    <2>1. UNCHANGED <<mtWorks, mtEditions, mtChapters, mtPictures, mtStreams, mtRun>>
        BY <1>16 DEF ReadChapters, mtRows
    <2>2. PICK x : mtApply' = [mtApply EXCEPT ![a].at = "swap", ![a].chapters = x]
        BY <1>16 DEF ReadChapters
    <2>3. DOMAIN mtApply' = Appliers /\ \A b \in Appliers : mtApply'[b].at = "link" => mtApply[b].at = "link" /\ mtApply'[b].id = mtApply[b].id
        BY <1>1, <2>2
    <2>4. MtTyped' /\ WorksAgree'
        BY <1>1, <2>1, <2>3, WorksUnchanged
    <2> QED
        BY <1>2, <2>1, <2>4 DEF MtInv, ScannedChaptersStay
<1>17. ASSUME NEW a \in Appliers, NEW e \in MtEditions, ReplaceChapters(a, e) PROVE Goal
    <2>1. UNCHANGED <<mtWorks, mtEditions, mtPictures, mtStreams, mtRun>>
        BY <1>17 DEF ReplaceChapters
    <2>2. mtApply' = [mtApply EXCEPT ![a].chapters = mtApply[a].chapters \ {e}]
        BY <1>1, <1>17 DEF ReplaceChapters
    <2>3. DOMAIN mtApply' = Appliers /\ \A b \in Appliers : mtApply'[b].at = "link" => mtApply[b].at = "link" /\ mtApply'[b].id = mtApply[b].id
        BY <1>1, <2>2
    <2>4. mtChapters' \in [MtEditions -> {"generic", "provider", "scanned"}] /\ ScannedChaptersStay
        BY <1>1, <1>17 DEF ReplaceChapters, ScannedChaptersStay
    <2>5. MtTyped' /\ WorksAgree'
        BY <1>1, <2>1, <2>3, <2>4, WorksUnchanged
    <2> QED
        BY <1>2, <2>1, <2>4, <2>5 DEF MtInv
<1>18. ASSUME NEW a \in Appliers, Applied(a) PROVE Goal
    <2>1. UNCHANGED <<mtWorks, mtEditions, mtChapters, mtPictures, mtRun>> /\ mtApply' = [mtApply EXCEPT ![a] = NoApply]
        BY <1>18 DEF Applied, mtRows
    <2>2. DOMAIN mtApply' = Appliers /\ \A b \in Appliers : mtApply'[b].at = "link" => mtApply'[b] = mtApply[b]
        BY <1>1, <1>3, <2>1
    <2>3. MtTyped' /\ WorksAgree'
        BY <1>1, <2>1, <2>2, WorksUnchanged
    <2>4. mtStreams' = mtStreams \/ mtStreams' = PublishSnapshot(mtStreams, "running")
        BY <1>18 DEF Applied
    <2>5. StreamsAgree'
        BY <1>1, <1>2, <2>1, <2>4, EventKeeps
    <2> QED
        BY <2>1, <2>3, <2>5 DEF MtInv, ScannedChaptersStay
<1>19. CASE UNCHANGED mtVars
    <2>1. UNCHANGED <<mtWorks, mtEditions, mtChapters, mtPictures, mtApply, mtRun, mtStreams>>
        BY <1>19 DEF mtVars
    <2>2. MtTyped' /\ WorksAgree'
        BY <1>1, <2>1, WorksUnchanged
    <2> QED
        BY <1>2, <2>1, <2>2 DEF MtInv, ScannedChaptersStay
<1>20. ASSUME NEW e \in MtEditions, (\E t \in MtTitles : ScanNew(e, t)) \/ ScanChapters(e) \/ SplitEditionToNewWork(e) PROVE Goal
    BY <1>4, <1>5, <1>20
<1>21. ASSUME NEW w \in 1..MtMaxId, \/ \E e \in MtEditions : MoveEditionToWork(e, w)
                                   \/ \E v \in 1..MtMaxId : MergeWorks(w, v)
                                   \/ SkipWork(w) \/ \E a \in MtMatches : ApplyMatch(a, w)
       PROVE  Goal
    BY <1>4, <1>6, <1>7, <1>8, <1>21
<1>23. ASSUME NEW a \in Appliers, ApplyFails(a) PROVE Goal
    <2>1. /\ UNCHANGED <<mtWorks, mtEditions, mtChapters, mtPictures, mtRun, mtStreams>>
          /\ mtApply' = [mtApply EXCEPT ![a] = NoApply]
        BY <1>23 DEF ApplyFails, mtRows
    <2>2. DOMAIN mtApply' = Appliers /\ \A b \in Appliers : mtApply'[b].at = "link" => mtApply'[b] = mtApply[b]
        BY <1>1, <1>3, <2>1
    <2>3. MtTyped' /\ WorksAgree'
        BY <1>1, <2>1, <2>2, WorksUnchanged
    <2> QED
        BY <1>2, <2>1, <2>3 DEF MtInv, ScannedChaptersStay
<1>22. ASSUME NEW a \in Appliers, \/ ApplyWorkMeta(a) \/ DownloadCover(a) \/ SetWorkCover(a) \/ ReadChapters(a) \/ Applied(a)
                                 \/ ApplyFails(a) \/ \E e \in MtEditions : ReplaceChapters(a, e)
       PROVE  Goal
    BY <1>13, <1>14, <1>15, <1>16, <1>17, <1>18, <1>22, <1>23
<1>24. CASE MtNext
    BY <1>9, <1>10, <1>11, <1>12, <1>20, <1>21, <1>22, <1>24 DEF MtNext
<1> QED
    BY <1>19, <1>24

(* Whatever changes works, and a refresh meanwhile, the streams and works are as MtInv says. *)
THEOREM MtAlways == MtSpec => [](MtInv /\ mtRun.status \in {"none", "running", "done"})
<1>1. MtInit => mtRun.status \in {"none", "running", "done"}
    BY DEF MtInit
<1>2. MtInv /\ mtRun.status \in {"none", "running", "done"} /\ [MtNext]_mtVars => (MtInv /\ mtRun.status \in {"none", "running", "done"})'
    BY MtStepKeeps
<1> QED
    BY <1>1, <1>2, MtInitHolds, PTL DEF MtSpec

(* However works are merged, split and moved into by any number of requests, editions are in works that exist, no work is
   without one, and a work that shows a cover has a picture. *)
THEOREM WorksStayWhole == MtSpec => []MtTypeOK
<1>1. MtInv => MtTypeOK
    BY DEF MtInv, WorksAgree
<1> QED
    BY <1>1, MtAlways, PTL

(* Whoever is subscribed to a refresh that is over has its end in the channel, for every capacity of it. *)
THEOREM EndIsAlwaysDelivered == MtSpec => []RefreshEndIsDelivered
<1>1. MtInv => RefreshEndIsDelivered
    BY DEF MtInv, StreamsAgree, RefreshEndIsDelivered, HasEnd
<1> QED
    BY <1>1, MtAlways, PTL

(* No step overwrites chapters that a scan read from the files. *)
THEOREM ScannedChaptersAlwaysStay == MtSpec => [][ScannedChaptersStay]_mtVars
<1>1. MtInv /\ mtRun.status \in {"none", "running", "done"} /\ [MtNext]_mtVars => [ScannedChaptersStay]_mtVars
    BY MtStepKeeps
<1> QED
    BY <1>1, MtAlways, PTL DEF MtSpec

-----------------------------------------------------------------------------
(* Backups.                                                                *)

Entries == BkItems \cup {"temp"}
BkStates == {"idle", "clean", "lock", "vacuum", "list", "copy", "prune"}
BkRecord == [at : BkStates, stage : Nat, db : SUBSET BkItems, left : SUBSET Entries, copied : SUBSET Entries]
Generation == [at : Nat, db : SUBSET BkItems, covers : SUBSET Entries]

BkTyped ==
    /\ BkTypeOK /\ bkPending \subseteq BkPodcasts
    /\ bkProc \in [BkProcs -> BkRecord]
    /\ bkRuns \in Nat /\ bkRuns <= BkMaxRuns /\ bkCrashes \in Nat
    /\ IsFiniteSet(bkGens) /\ \A g \in bkGens : g \in Generation /\ g.at \in 1..bkRuns

(* What a row names is in the covers directory. *)
CoversAgree ==
    /\ bkRef \subseteq bkCover /\ bkRef \cap bkPending = {}
    /\ bkTemp \in BkWorks => bkTemp \in bkCover

(* The one process at work has its locks, its stage, and the covers of its copy of the database before it or copied. *)
ProcAgrees(p) ==
    LET k == bkProc[p] IN
    /\ k.at # "idle" => bkLocked = p /\ bkRuns >= 1
    /\ k.at \in {"vacuum", "list", "copy", "prune"} => bkCovers = p
    /\ k.at \in {"lock", "prune"} => bkStages = {}
    /\ k.at \in {"vacuum", "list", "copy"} => k.stage = bkRuns /\ bkStages = {bkRuns}
    /\ k.at = "list" => k.db \subseteq bkCover
    /\ k.at = "copy" => k.db \subseteq k.left \cup k.copied

(* What a generation misses was taken by pruning, after as many later ones; how many there are. *)
Ats == {g.at : g \in bkGens}
Later(n) == {m \in Ats : m > n}
Pruning == \E p \in BkProcs : bkProc[p].at = "prune"
GensAgree ==
    /\ \A g \in bkGens : g.db \subseteq g.covers \/ Cardinality(Later(g.at)) >= BkKeep
    /\ \A x, y \in bkStages : x = y
    /\ "db" \in bkOld => "covers" \in bkOld
    /\ Cardinality(Candidates) <= BkKeep + bkCrashes + (IF Pruning THEN 1 ELSE 0)

BkInv == BkTyped /\ CoversAgree /\ (\A p \in BkProcs : ProcAgrees(p)) /\ GensAgree

LEMMA BkInitHolds == BkInit => BkInv
<1> SUFFICES ASSUME BkInit PROVE BkInv
    OBVIOUS
<1>1. BkIdle \in BkRecord /\ BkIdle.at = "idle"
    BY DEF BkIdle, BkRecord, BkStates
<1>2. IsFiniteSet(bkGens) /\ bkGens = {}
    BY FS_EmptySet DEF BkInit
<1>3. BkTyped
    BY <1>1, <1>2, BkAssumption DEF BkInit, BkTyped, BkTypeOK
<1>4. CoversAgree
    BY BkAssumption DEF BkInit, CoversAgree
<1>5. \A p \in BkProcs : ProcAgrees(p)
    BY <1>1 DEF BkInit, ProcAgrees
<1>6. Candidates = {} \/ Candidates = {0}
    BY <1>2 DEF Candidates
<1>7. Cardinality(Candidates) \in {0, 1}
    <2>1. Cardinality({}) = 0 /\ Cardinality({0}) = 1
        BY FS_EmptySet, FS_Singleton
    <2> QED
        BY <1>6, <2>1
<1>8. GensAgree
    <2>1. ~Pruning /\ bkCrashes = 0
        BY <1>1 DEF BkInit, Pruning
    <2>2. Cardinality(Candidates) <= BkKeep + bkCrashes + (IF Pruning THEN 1 ELSE 0)
        BY <1>7, <2>1, BkAssumption
    <2> QED
        BY <1>2, <2>2 DEF BkInit, GensAgree
<1> QED
    BY <1>3, <1>4, <1>5, <1>8 DEF BkInv

(* Candidates, and those later than one of them, are finitely many. *)
LEMMA CandidatesAreFew ==
    ASSUME BkTyped
    PROVE  /\ IsFiniteSet(Ats) /\ Ats \subseteq 1..bkRuns
           /\ IsFiniteSet(Candidates) /\ Candidates \subseteq 0..bkRuns /\ Cardinality(Candidates) \in Nat
           /\ Candidates = Ats \cup {0 : o \in bkOld \cap {"db"}}
           /\ \A n : IsFiniteSet(Later(n)) /\ Cardinality(Later(n)) \in Nat
<1>1. Ats \subseteq 1..bkRuns /\ bkRuns \in Nat
    BY DEF BkTyped, Ats
<1>2. IsFiniteSet(1..bkRuns) /\ IsFiniteSet(0..bkRuns)
    BY <1>1, FS_Interval
<1>3. Candidates = Ats \cup {0 : o \in bkOld \cap {"db"}}
    BY DEF Candidates, Ats
<1>4. Candidates \subseteq 0..bkRuns
    <2>1. \A c \in Candidates : c = 0 \/ c \in 1..bkRuns
        BY <1>1, <1>3
    <2>2. 0 \in 0..bkRuns /\ 1..bkRuns \subseteq 0..bkRuns
        BY <1>1
    <2> QED
        BY <2>1, <2>2
<1>5. IsFiniteSet(Ats) /\ IsFiniteSet(Candidates)
    BY <1>1, <1>2, <1>4, FS_Subset
<1>6. \A n : Later(n) \in SUBSET Ats
    BY DEF Later
<1>7. \A n : IsFiniteSet(Later(n))
    BY <1>5, <1>6, FS_Subset
<1> QED
    BY <1>1, <1>3, <1>4, <1>5, <1>7, FS_CardinalityType

(* There are as many later generations as there are later numbers. *)
LEMMA LaterAreNewer ==
    ASSUME BkTyped, NEW g \in bkGens
    PROVE  Cardinality(Newer(g)) >= Cardinality(Later(g.at))
<1> DEFINE f == [h \in Newer(g) |-> h.at]
<1>1. IsFiniteSet(Newer(g))
    BY FS_Subset DEF BkTyped, Newer
<1>2. f \in Surjection(Newer(g), Later(g.at))
    BY DEF Surjection, Newer, Later, Ats
<1>3. Cardinality(Later(g.at)) <= Cardinality(Newer(g)) /\ Cardinality(Newer(g)) \in Nat
    BY <1>1, <1>2, FS_Surjection, FS_CardinalityType
<1> QED
    BY <1>3, CandidatesAreFew

(* The oldest candidate is one, and none is older. *)
LEMMA OldestIsFirst ==
    ASSUME BkTyped, Candidates # {}
    PROVE  Oldest \in Candidates /\ \A d \in Candidates : Oldest <= d
<1>1. Candidates \in SUBSET Nat
    BY CandidatesAreFew DEF BkTyped
<1>2. \E c \in Candidates : \A d \in Candidates : c <= d
    BY <1>1, LeastNatural
<1> QED
    BY <1>2 DEF Oldest

(* What is pruned while there are too many candidates has enough later ones. *)
LEMMA PrunedIsOld ==
    ASSUME BkTyped, Cardinality(Candidates) > BkKeep, NEW g \in bkGens, g.at = Oldest
    PROVE  Cardinality(Later(g.at)) >= BkKeep
<1>1. IsFiniteSet(Candidates) /\ Cardinality(Candidates) \in Nat /\ Candidates # {}
    BY CandidatesAreFew, FS_EmptySet, BkAssumption
<1>2. g.at \in Ats /\ g.at \in 1..bkRuns
    BY DEF BkTyped, Ats
<1>3. \A d \in Candidates : g.at <= d
    BY <1>1, OldestIsFirst
<1>4. 0 \notin Candidates
    BY <1>2, <1>3 DEF BkTyped
<1>5. Candidates = Ats
    BY <1>4, CandidatesAreFew
<1>6. Later(g.at) = Candidates \ {g.at}
    BY <1>2, <1>3, <1>5, CandidatesAreFew DEF Later
<1>7. Cardinality(Candidates \ {g.at}) = Cardinality(Candidates) - 1
    BY <1>1, <1>2, <1>5, FS_RemoveElement
<1> QED
    BY <1>1, <1>6, <1>7, BkAssumption

(* The server works beside the backup: what it takes away it takes under the lock. *)
LEMMA ServerKeeps ==
    ASSUME BkInv, UNCHANGED <<bkLocked, bkCovers, bkProc, bkDisk, bkRuns, bkCrashes>>,
           bkRef' \subseteq BkItems, bkCover' \subseteq BkItems, bkPending' \subseteq BkPodcasts, bkTemp' \in {"none", "temp"} \cup BkWorks,
           CoversAgree', bkCover \subseteq bkCover' \/ bkCovers = "free"
    PROVE  BkInv'
<1>1. BkTyped'
    BY DEF BkInv, BkTyped, BkTypeOK, BkItems, bkDisk
<1>2. ASSUME NEW p \in BkProcs PROVE ProcAgrees(p)'
    <2>1. ProcAgrees(p) /\ p # "free"
        BY BkAssumption DEF BkInv
    <2>2. bkProc[p].at = "list" => bkProc[p].db \subseteq bkCover'
        BY <2>1 DEF ProcAgrees
    <2> QED
        BY <2>1, <2>2 DEF ProcAgrees, bkDisk
<1>3. GensAgree'
    BY DEF BkInv, GensAgree, bkDisk, Later, Ats, Candidates, Pruning
<1> QED
    BY <1>1, <1>2, <1>3 DEF BkInv

LEMMA ServerStepKeeps ==
    ASSUME BkInv,
           \/ \E i \in BkItems : WriteCover(i) \/ MatchPublish(i) \/ DeleteCoveredRow(i) \/ RemoveCover(i)
           \/ MatchTemp \/ MatchFails \/ MatchCommit
    PROVE  BkInv'
<1>1. UNCHANGED <<bkLocked, bkCovers, bkProc, bkDisk, bkRuns, bkCrashes>>
    BY DEF WriteCover, MatchPublish, DeleteCoveredRow, RemoveCover, MatchTemp, MatchFails, MatchCommit
<1>2. CoversAgree /\ bkRef \subseteq BkItems /\ bkCover \subseteq BkItems /\ bkPending \subseteq BkPodcasts /\ bkTemp \in {"none", "temp"} \cup BkWorks
    BY DEF BkInv, BkTyped, BkTypeOK
<1>3. ASSUME NEW i \in BkItems, WriteCover(i) PROVE BkInv'
    <2>1. bkCover' = bkCover \cup {i} /\ bkRef' = bkRef \cup {i} /\ i \notin bkPending /\ UNCHANGED <<bkPending, bkTemp>>
        BY <1>3 DEF WriteCover
    <2>2. CoversAgree'
        BY <1>2, <2>1 DEF CoversAgree
    <2> QED
        BY <1>1, <1>2, <2>1, <2>2, ServerKeeps
<1>4. ASSUME NEW i \in BkItems, MatchPublish(i) PROVE BkInv'
    <2>1. bkCover' = bkCover \cup {i} /\ bkTemp' = i /\ i \in BkWorks /\ UNCHANGED <<bkRef, bkPending>>
        BY <1>4 DEF MatchPublish
    <2>2. CoversAgree'
        BY <1>2, <2>1 DEF CoversAgree
    <2> QED
        BY <1>1, <1>2, <2>1, <2>2, ServerKeeps
<1>5. ASSUME NEW i \in BkItems, DeleteCoveredRow(i) PROVE BkInv'
    <2>1. bkRef' = bkRef \ {i} /\ bkPending' = bkPending \cup {i} /\ i \in BkPodcasts /\ UNCHANGED <<bkCover, bkTemp>>
        BY <1>5 DEF DeleteCoveredRow
    <2>2. CoversAgree'
        BY <1>2, <2>1 DEF CoversAgree
    <2> QED
        BY <1>1, <1>2, <2>1, <2>2, ServerKeeps
<1>6. ASSUME NEW i \in BkItems, RemoveCover(i) PROVE BkInv'
    <2>1. bkCover' = bkCover \ {i} /\ bkPending' = bkPending \ {i} /\ i \in bkPending /\ bkCovers = "free" /\ UNCHANGED <<bkRef, bkTemp>>
        BY <1>6 DEF RemoveCover
    <2>2. i \notin BkWorks
        BY <1>2, <2>1, BkAssumption
    <2>3. CoversAgree'
        BY <1>2, <2>1, <2>2 DEF CoversAgree
    <2> QED
        BY <1>1, <1>2, <2>1, <2>3, ServerKeeps
<1>7. CASE MatchTemp
    <2>1. bkTemp' = "temp" /\ "temp" \notin BkWorks /\ UNCHANGED <<bkRef, bkCover, bkPending>>
        BY <1>7, BkAssumption DEF MatchTemp
    <2>2. CoversAgree'
        BY <1>2, <2>1 DEF CoversAgree
    <2> QED
        BY <1>1, <1>2, <2>1, <2>2, ServerKeeps
<1>8. CASE MatchCommit
    <2>1. bkTemp \in BkWorks /\ bkTemp' = "none" /\ "none" \notin BkWorks /\ bkRef' = bkRef \cup {bkTemp} /\ UNCHANGED <<bkCover, bkPending>>
        BY <1>8, BkAssumption DEF MatchCommit
    <2>2. bkTemp \notin bkPending
        BY <1>2, <2>1, BkAssumption
    <2>3. CoversAgree'
        BY <1>2, <2>1, <2>2 DEF CoversAgree
    <2> QED
        BY <1>1, <1>2, <2>1, <2>3, ServerKeeps DEF BkItems
<1>9. CASE MatchFails
    <2>1. bkTemp' = "none" /\ "none" \notin BkWorks /\ UNCHANGED <<bkRef, bkCover, bkPending>>
        BY <1>9, BkAssumption DEF MatchFails
    <2>2. CoversAgree'
        BY <1>2, <2>1 DEF CoversAgree
    <2> QED
        BY <1>1, <1>2, <2>1, <2>2, ServerKeeps
<1> QED
    BY <1>3, <1>4, <1>5, <1>6, <1>7, <1>8, <1>9

(* One process goes on, the only one that is not idle; the database and the directory stay, and the runs only grow. *)
LEMMA ProcStep ==
    ASSUME BkInv, UNCHANGED bkServer, NEW p \in BkProcs, NEW k \in BkRecord, bkProc' = [bkProc EXCEPT ![p] = k],
           bkLocked \in {p, "free"}, bkLocked' \in {p, "free"}, bkCovers' \in {bkLocked', "free"},
           bkRuns' \in Nat, bkRuns <= bkRuns', bkRuns' <= BkMaxRuns, bkCrashes' \in Nat,
           bkStages' \subseteq 1..BkMaxRuns, bkOld' \subseteq {"db", "covers"},
           IsFiniteSet(bkGens'), \A g \in bkGens' : g \in Generation /\ g.at \in 1..bkRuns',
           k.at # "idle" => bkLocked' = p /\ bkRuns' >= 1,
           k.at \in {"vacuum", "list", "copy", "prune"} => bkCovers' = p,
           k.at \in {"lock", "prune"} => bkStages' = {},
           k.at \in {"vacuum", "list", "copy"} => k.stage = bkRuns' /\ bkStages' = {bkRuns'},
           k.at = "list" => k.db \subseteq bkCover,
           k.at = "copy" => k.db \subseteq k.left \cup k.copied
    PROVE  BkTyped' /\ CoversAgree' /\ \A q \in BkProcs : ProcAgrees(q)'
<1>1. BkTyped'
    BY DEF BkInv, BkTyped, BkTypeOK, bkServer
<1>2. CoversAgree'
    BY DEF BkInv, CoversAgree, bkServer
<1>3. bkProc'[p] = k /\ \A q \in BkProcs : q # p => bkProc'[q] = bkProc[q]
    BY DEF BkInv, BkTyped
<1>4. ProcAgrees(p)'
    BY <1>3 DEF ProcAgrees, bkServer
<1>5. ASSUME NEW q \in BkProcs, q # p PROVE ProcAgrees(q)'
    <2>1. bkProc'[q].at = "idle"
        BY <1>3, <1>5, BkAssumption DEF BkInv, ProcAgrees
    <2> QED
        BY <2>1 DEF ProcAgrees
<1> QED
    BY <1>1, <1>2, <1>4, <1>5

(* Neither generations nor crashes, and nobody is pruning afterwards who was not. *)
LEMMA GensUnchanged ==
    ASSUME GensAgree, UNCHANGED <<bkGens, bkOld, bkCrashes>>, Pruning <=> Pruning', \A x, y \in bkStages' : x = y
    PROVE  GensAgree'
    BY DEF GensAgree, Later, Ats, Candidates

LEMMA BackupStepKeeps ==
    ASSUME BkInv, NEW p \in BkProcs,
           \/ WithBackupLock(p) \/ CleanupBackupStages(p) \/ WithCoversLock(p) \/ BackupTo(p) \/ ListCovers(p) \/ CopyEntry(p)
    PROVE  BkInv'
<1> DEFINE old == bkProc[p]
<1>1. /\ BkTyped /\ CoversAgree /\ ProcAgrees(p) /\ GensAgree /\ old \in BkRecord /\ bkLocked \in {p, "free"} \cup BkProcs
      /\ bkRuns \in Nat /\ bkRuns <= BkMaxRuns /\ bkCrashes \in Nat /\ BkMaxRuns \in Nat
      /\ bkStages \subseteq 1..BkMaxRuns /\ bkOld \subseteq {"db", "covers"} /\ bkCovers \in {bkLocked, "free"}
      /\ IsFiniteSet(bkGens) /\ \A g \in bkGens : g \in Generation /\ g.at \in 1..bkRuns
    BY BkAssumption DEF BkInv, BkTyped, BkTypeOK
<1>2. UNCHANGED <<bkServer, bkGens, bkOld, bkCrashes>> /\ bkRuns' \in {bkRuns, bkRuns + 1} /\ bkRuns' <= BkMaxRuns
    BY <1>1 DEF WithBackupLock, CleanupBackupStages, WithCoversLock, BackupTo, ListCovers, CopyEntry, bkDisk
<1>3. IsFiniteSet(bkGens') /\ (\A g \in bkGens' : g \in Generation /\ g.at \in 1..bkRuns') /\ bkOld' \subseteq {"db", "covers"}
      /\ bkRuns' \in Nat /\ bkRuns <= bkRuns' /\ bkRuns' <= BkMaxRuns /\ bkCrashes' \in Nat /\ UNCHANGED bkServer
    BY <1>1, <1>2
<1>4. PICK k \in BkRecord :
         /\ bkProc' = [bkProc EXCEPT ![p] = k] /\ old.at # "prune" /\ k.at # "prune"
         /\ bkLocked \in {p, "free"} /\ bkLocked' \in {p, "free"} /\ bkCovers' \in {bkLocked', "free"}
         /\ bkStages' \subseteq 1..BkMaxRuns /\ \A x, y \in bkStages' : x = y
         /\ k.at # "idle" => bkLocked' = p /\ bkRuns' >= 1
         /\ k.at \in {"vacuum", "list", "copy", "prune"} => bkCovers' = p
         /\ k.at \in {"lock", "prune"} => bkStages' = {}
         /\ k.at \in {"vacuum", "list", "copy"} => k.stage = bkRuns' /\ bkStages' = {bkRuns'}
         /\ k.at = "list" => k.db \subseteq bkCover
         /\ k.at = "copy" => k.db \subseteq k.left \cup k.copied
    <2>1. CASE WithBackupLock(p)
        <3> DEFINE k == [old EXCEPT !.at = "clean"]
        <3>1. /\ bkProc' = [bkProc EXCEPT ![p] = k] /\ old.at = "idle" /\ bkLocked = "free" /\ bkLocked' = p /\ bkRuns' = bkRuns + 1
              /\ UNCHANGED <<bkCovers, bkStages>>
            BY <2>1 DEF WithBackupLock, BkGo, bkDisk
        <3>2. k \in BkRecord /\ k.at = "clean"
            BY <1>1 DEF BkRecord, BkStates
        <3> HIDE DEF k
        <3>3. bkRuns' >= 1
            BY <1>1, <3>1
        <3> QED
            BY <1>1, <3>1, <3>2, <3>3 DEF GensAgree
    <2>2. CASE CleanupBackupStages(p)
        <3> DEFINE k == [old EXCEPT !.at = "lock"]
        <3>1. bkProc' = [bkProc EXCEPT ![p] = k] /\ old.at = "clean" /\ bkStages' = {} /\ UNCHANGED <<bkLocked, bkCovers, bkRuns>>
            BY <2>2 DEF CleanupBackupStages, BkGo
        <3>2. k \in BkRecord /\ k.at = "lock"
            BY <1>1 DEF BkRecord, BkStates
        <3> HIDE DEF k
        <3> QED
            BY <1>1, <3>1, <3>2 DEF ProcAgrees
    <2>3. CASE WithCoversLock(p)
        <3> DEFINE k == [old EXCEPT !.at = "vacuum", !.stage = bkRuns]
        <3>1. /\ bkProc' = [bkProc EXCEPT ![p] = k] /\ old.at = "lock" /\ bkStages' = bkStages \cup {bkRuns} /\ bkCovers' = p
              /\ UNCHANGED <<bkLocked, bkRuns>>
            BY <1>1, <2>3 DEF WithCoversLock, BkTyped
        <3>2. k \in BkRecord /\ k.at = "vacuum" /\ k.stage = bkRuns
            BY <1>1 DEF BkRecord, BkStates
        <3> HIDE DEF k
        <3>4. bkStages = {} /\ bkRuns >= 1 /\ bkLocked = p
            BY <1>1, <3>1 DEF ProcAgrees
        <3>3. bkStages' = {bkRuns} /\ bkRuns >= 1 /\ bkRuns \in 1..BkMaxRuns /\ bkLocked = p
            BY <1>1, <3>1, <3>4
        <3> QED
            BY <1>1, <3>1, <3>2, <3>3
    <2>4. CASE BackupTo(p)
        <3> DEFINE k == [old EXCEPT !.at = "list", !.db = bkRef]
        <3>1. bkProc' = [bkProc EXCEPT ![p] = k] /\ old.at = "vacuum" /\ UNCHANGED <<bkLocked, bkCovers, bkRuns, bkStages>>
            BY <1>1, <2>4 DEF BackupTo, BkTyped, bkDisk
        <3>2. k \in BkRecord /\ k.at = "list" /\ k.db = bkRef /\ k.stage = old.stage
            BY <1>1 DEF BkRecord, BkStates, BkTyped, BkTypeOK
        <3> HIDE DEF k
        <3> QED
            BY <1>1, <3>1, <3>2 DEF ProcAgrees, CoversAgree
    <2>5. CASE ListCovers(p)
        <3> DEFINE all == bkCover \cup ({bkTemp} \cap {"temp"})
                   k == [old EXCEPT !.at = "copy", !.left = all]
        <3>1. bkProc' = [bkProc EXCEPT ![p] = k] /\ old.at = "list" /\ UNCHANGED <<bkLocked, bkCovers, bkRuns, bkStages>>
            BY <1>1, <2>5 DEF ListCovers, BkTyped, bkDisk
        <3>2. all \in SUBSET Entries /\ bkCover \subseteq all
            BY <1>1 DEF BkTyped, BkTypeOK, Entries
        <3> HIDE DEF all
        <3>3. k \in BkRecord /\ k.at = "copy" /\ k.left = all /\ k.db = old.db /\ k.stage = old.stage
            BY <1>1, <3>2 DEF BkRecord, BkStates
        <3> HIDE DEF k
        <3> QED
            BY <1>1, <3>1, <3>2, <3>3 DEF ProcAgrees
    <2>6. CASE CopyEntry(p)
        <3>1. old.at = "copy" /\ bkRuns' = bkRuns /\ bkLocked = p /\ bkCovers = p /\ bkStages = {bkRuns} /\ bkRuns >= 1 /\ old.stage = bkRuns
              /\ old.db \subseteq old.left \cup old.copied
            BY <1>1, <2>6 DEF CopyEntry, ProcAgrees
        <3>2. PICK e \in old.left :
                 \/ /\ bkProc' = [bkProc EXCEPT ![p].left = @ \ {e}, ![p].copied = @ \cup {e}]
                    /\ UNCHANGED <<bkLocked, bkCovers, bkStages>>
                 \/ Unlock(p) /\ bkStages' = bkStages \ {bkProc[p].stage}
            BY <2>6 DEF CopyEntry
        <3>3. CASE /\ bkProc' = [bkProc EXCEPT ![p].left = @ \ {e}, ![p].copied = @ \cup {e}]
                   /\ UNCHANGED <<bkLocked, bkCovers, bkStages>>
            <4> DEFINE k == [old EXCEPT !.left = old.left \ {e}, !.copied = old.copied \cup {e}]
            <4>1. bkProc' = [bkProc EXCEPT ![p] = k]
                BY <1>1, <3>3 DEF BkTyped
            <4>2. /\ k \in BkRecord /\ k.at = old.at /\ k.stage = old.stage /\ k.db = old.db
                  /\ k.left = old.left \ {e} /\ k.copied = old.copied \cup {e}
                BY <1>1 DEF BkRecord
            <4> HIDE DEF k
            <4>3. k.db \subseteq k.left \cup k.copied
                BY <3>1, <4>2
            <4> QED
                BY <1>1, <3>1, <3>3, <4>1, <4>2, <4>3
        <3>4. CASE Unlock(p) /\ bkStages' = bkStages \ {bkProc[p].stage}
            <4>1. BkIdle \in BkRecord /\ BkIdle.at = "idle"
                BY DEF BkIdle, BkRecord, BkStates
            <4>2. bkProc' = [bkProc EXCEPT ![p] = BkIdle] /\ bkLocked' = "free" /\ bkCovers' = "free" /\ bkStages' = {}
                BY <3>1, <3>4 DEF Unlock
            <4> QED
                BY <1>1, <3>1, <4>1, <4>2
        <3> QED
            BY <3>2, <3>3, <3>4
    <2> QED
        BY <2>1, <2>2, <2>3, <2>4, <2>5, <2>6
<1>5. BkTyped' /\ CoversAgree' /\ \A q \in BkProcs : ProcAgrees(q)'
    BY <1>3, <1>4, ProcStep
<1>6. Pruning <=> Pruning'
    <2>1. bkProc'[p] = k /\ \A q \in BkProcs : q # p => bkProc'[q] = bkProc[q]
        BY <1>1, <1>4 DEF BkTyped
    <2> QED
        BY <1>4, <2>1 DEF Pruning
<1>7. GensAgree'
    BY <1>1, <1>2, <1>4, <1>6, GensUnchanged
<1> QED
    BY <1>5, <1>7 DEF BkInv

(* A generation is published: there is one candidate more until pruning ends. *)
LEMMA PublishStepKeeps ==
    ASSUME BkInv, NEW p \in BkProcs, PublishGeneration(p)
    PROVE  BkInv' /\ bkGens \subseteq bkGens'
<1> DEFINE old == bkProc[p]
           new == [at |-> old.stage, db |-> old.db, covers |-> old.copied]
           k == [old EXCEPT !.at = "prune"]
<1>1. BkTyped /\ CoversAgree /\ ProcAgrees(p) /\ GensAgree /\ old \in BkRecord
    BY DEF BkInv, BkTyped
<1>2. /\ old.left = {} /\ old.at = "copy" /\ bkProc' = [bkProc EXCEPT ![p] = k] /\ bkGens' = bkGens \cup {new}
      /\ bkStages' = bkStages \ {old.stage} /\ UNCHANGED <<bkServer, bkLocked, bkCovers, bkOld, bkRuns, bkCrashes>>
    BY DEF PublishGeneration, BkGo
<1>3. k \in BkRecord /\ k.at = "prune"
    BY <1>1 DEF BkRecord, BkStates
<1>4. bkLocked = p /\ bkCovers = p /\ bkRuns \in Nat /\ bkRuns >= 1 /\ old.stage = bkRuns /\ bkStages' = {} /\ old.db \subseteq old.copied
    BY <1>1, <1>2 DEF ProcAgrees, BkTyped
<1>5. new \in Generation /\ new.at = bkRuns /\ new.at \in 1..bkRuns /\ new.db \subseteq new.covers
    BY <1>1, <1>4 DEF Generation, BkRecord
<1> HIDE DEF k, new
<1>6. IsFiniteSet(bkGens') /\ \A g \in bkGens' : g \in Generation /\ g.at \in 1..bkRuns'
    BY <1>1, <1>2, <1>5, FS_AddElement DEF BkTyped
<1>7. BkTyped' /\ CoversAgree' /\ \A q \in BkProcs : ProcAgrees(q)'
    <2>1. bkRuns <= BkMaxRuns /\ bkCrashes \in Nat /\ bkOld \subseteq {"db", "covers"} /\ bkStages' \subseteq 1..BkMaxRuns
        BY <1>1, <1>4 DEF BkTyped, BkTypeOK
    <2>2. bkRuns <= bkRuns /\ bkRuns' = bkRuns /\ bkCrashes' = bkCrashes /\ bkOld' = bkOld /\ bkLocked' = p /\ bkCovers' = p
        BY <1>2, <1>4
    <2> QED
        BY <1>2, <1>3, <1>4, <1>6, <2>1, <2>2, ProcStep
<1>8. ~Pruning /\ Pruning'
    <2>1. bkProc'[p] = k
        BY <1>1, <1>2 DEF BkTyped
    <2>2. \A q \in BkProcs : q # p => bkProc[q].at = "idle"
        BY <1>4 DEF BkInv, ProcAgrees
    <2> QED
        BY <1>2, <1>3, <2>1, <2>2 DEF Pruning
<1>9. Ats' = Ats \cup {new.at}
    BY <1>2 DEF Ats
<1>10. \A n : Cardinality(Later(n)) \in Nat /\ Cardinality(Later(n)') \in Nat /\ Cardinality(Later(n)) <= Cardinality(Later(n)')
    <2>1. \A n : Later(n) \in SUBSET (Later(n)')
        BY <1>9 DEF Later
    <2>2. \A n : IsFiniteSet(Later(n)')
        <3>1. IsFiniteSet(Ats')
            BY <1>1, <1>9, CandidatesAreFew, FS_AddElement
        <3>2. \A n : Later(n)' \in SUBSET (Ats')
            BY DEF Later
        <3> QED
            BY <3>1, <3>2, FS_Subset
    <2> QED
        BY <1>1, <2>1, <2>2, FS_Subset, FS_CardinalityType
<1>11. Candidates' = Candidates \cup {new.at}
    BY <1>2, <1>9 DEF Candidates, Ats
<1>12. Cardinality(Candidates') \in Nat /\ Cardinality(Candidates') <= Cardinality(Candidates) + 1
    <2>1. IsFiniteSet(Candidates) /\ Cardinality(Candidates) \in Nat
        BY <1>1, CandidatesAreFew
    <2>2. Cardinality(Candidates \cup {new.at}) = IF new.at \in Candidates THEN Cardinality(Candidates)
                                                                        ELSE Cardinality(Candidates) + 1
        BY <2>1, FS_AddElement, Zenon
    <2> QED
        BY <1>11, <2>1, <2>2
<1>13. Cardinality(Candidates') <= BkKeep + bkCrashes' + (IF Pruning' THEN 1 ELSE 0)
    <2>1. Cardinality(Candidates) <= BkKeep + bkCrashes /\ Cardinality(Candidates) \in Nat /\ bkCrashes \in Nat
        BY <1>1, <1>8, CandidatesAreFew, BkAssumption DEF GensAgree, BkTyped
    <2> QED
        BY <1>2, <1>8, <1>12, <2>1, BkAssumption
<1>14. \A g \in bkGens' : g.db \subseteq g.covers \/ Cardinality(Later(g.at)') >= BkKeep
    BY <1>1, <1>2, <1>5, <1>10, BkAssumption DEF GensAgree
<1>15. GensAgree'
    BY <1>1, <1>2, <1>4, <1>13, <1>14 DEF GensAgree
<1> QED
    BY <1>2, <1>7, <1>15 DEF BkInv

(* What a step of pruning leaves: one candidate fewer, or the oldest without its covers. *)
LEMMA PrunedKeeps ==
    ASSUME BkInv, Cardinality(Candidates) > BkKeep, UNCHANGED <<bkRuns, bkCrashes, bkStages, bkProc>>,
           \/ bkGens' = {g \in bkGens : g.at # Oldest}
           \/ bkGens' = {[g EXCEPT !.covers = IF g.at = Oldest THEN {} ELSE @] : g \in bkGens},
           bkOld' = IF Oldest = 0 THEN bkOld \ {"db"} ELSE bkOld
    PROVE  /\ IsFiniteSet(bkGens') /\ \A g \in bkGens' : g \in Generation /\ g.at \in 1..bkRuns'
           /\ GensAgree'
           /\ \A g \in bkGens \ bkGens' : Cardinality(Newer(g)) >= BkKeep
<1>1. BkTyped /\ GensAgree
    BY DEF BkInv
<1>2. IsFiniteSet(bkGens) /\ \A g \in bkGens : g \in Generation /\ g.at \in 1..bkRuns
    BY <1>1 DEF BkTyped
<1>3. Candidates # {}
    BY FS_EmptySet, BkAssumption
<1>4. Oldest \in Candidates /\ \A d \in Candidates : Oldest <= d
    BY <1>1, <1>3, OldestIsFirst
<1> DEFINE bare(g) == [g EXCEPT !.covers = IF g.at = Oldest THEN {} ELSE @]
<1>5. \A g \in bkGens : bare(g) \in Generation /\ bare(g).at = g.at /\ bare(g).db = g.db /\ (g.at # Oldest => bare(g) = g)
    BY <1>2 DEF Generation
<1> HIDE DEF bare
<1>6. \A g \in bkGens' : \E h \in bkGens : g \in Generation /\ g.at = h.at /\ g.db = h.db /\ (g.at # Oldest => g = h)
    <2>1. CASE bkGens' = {g \in bkGens : g.at # Oldest}
        BY <1>2, <2>1
    <2>2. CASE bkGens' = {bare(g) : g \in bkGens}
        BY <1>5, <2>2
    <2> QED
        BY <2>1, <2>2 DEF bare
<1>7. \A h \in bkGens : h.at # Oldest => h \in bkGens'
    <2>1. CASE bkGens' = {g \in bkGens : g.at # Oldest}
        BY <2>1
    <2>2. CASE bkGens' = {bare(g) : g \in bkGens}
        BY <1>5, <2>2
    <2> QED
        BY <2>1, <2>2 DEF bare
<1>8. IsFiniteSet(bkGens')
    <2>1. CASE bkGens' = {g \in bkGens : g.at # Oldest}
        <3>1. bkGens' \in SUBSET bkGens
            BY <2>1
        <3> QED
            BY <1>2, <3>1, FS_Subset
    <2>2. CASE bkGens' = {bare(g) : g \in bkGens}
        <3> DEFINE f == [g \in bkGens |-> bare(g)]
        <3>1. f \in Surjection(bkGens, bkGens')
            BY <2>2 DEF Surjection
        <3> QED
            BY <1>2, <3>1, FS_Surjection
    <2> QED
        BY <2>1, <2>2 DEF bare
<1>9. \A g \in bkGens' : g \in Generation /\ g.at \in 1..bkRuns'
    BY <1>2, <1>6
<1>10. Ats' \subseteq Ats /\ \A n \in Ats : n # Oldest => n \in Ats'
    BY <1>6, <1>7 DEF Ats
<1>11. /\ Ats \subseteq Candidates /\ Ats \subseteq 1..bkRuns /\ bkRuns \in Nat /\ Candidates \subseteq 0..bkRuns
       /\ IsFiniteSet(Candidates) /\ Cardinality(Candidates) \in Nat
    BY <1>1, CandidatesAreFew DEF BkTyped
<1>12. \A n \in Ats : Later(n)' = Later(n)
    <2> SUFFICES ASSUME NEW n \in Ats, NEW m \in Ats, m > n PROVE m \in Ats'
        BY <1>10 DEF Later
    <2>1. Oldest <= n /\ n \in Int /\ m \in Int /\ Oldest \in Int
        BY <1>4, <1>11
    <2> QED
        BY <1>10, <2>1
<1>13. ASSUME NEW g \in bkGens, g.at = Oldest PROVE Cardinality(Later(g.at)) >= BkKeep
    BY <1>1, <1>13, PrunedIsOld
<1>14. ASSUME NEW g \in bkGens' PROVE g.db \subseteq g.covers \/ Cardinality(Later(g.at)') >= BkKeep
    <2>1. PICK h \in bkGens : g.at = h.at /\ g.db = h.db /\ (g.at # Oldest => g = h)
        BY <1>6
    <2>2. h.at \in Ats /\ Later(g.at)' = Later(h.at)
        BY <1>12, <2>1 DEF Ats
    <2>3. CASE h.at = Oldest
        BY <1>13, <2>2, <2>3
    <2>4. CASE h.at # Oldest
        BY <1>1, <2>1, <2>2, <2>4 DEF GensAgree
    <2> QED
        BY <2>3, <2>4
<1>15. bkOld' \subseteq bkOld /\ ("covers" \in bkOld => "covers" \in bkOld')
    OBVIOUS
<1>16. Candidates' \in SUBSET Candidates
    BY <1>10, <1>15 DEF Candidates, Ats
<1>17. Cardinality(Candidates') <= BkKeep + bkCrashes' + (IF Pruning' THEN 1 ELSE 0)
    <2>1. Cardinality(Candidates') <= Cardinality(Candidates) /\ Cardinality(Candidates') \in Nat
        BY <1>11, <1>16, FS_Subset, FS_CardinalityType
    <2>2. Pruning' <=> Pruning
        BY DEF Pruning
    <2>3. Cardinality(Candidates) <= BkKeep + bkCrashes + (IF Pruning THEN 1 ELSE 0) /\ bkCrashes \in Nat
        BY <1>1 DEF GensAgree, BkTyped
    <2> QED
        BY <1>11, <2>1, <2>2, <2>3, BkAssumption
<1>18. GensAgree'
    BY <1>1, <1>14, <1>15, <1>17 DEF GensAgree
<1>19. ASSUME NEW g \in bkGens \ bkGens' PROVE Cardinality(Newer(g)) >= BkKeep
    <2>1. g.at = Oldest
        BY <1>7, <1>19
    <2>2. Cardinality(Later(g.at)) >= BkKeep /\ Cardinality(Newer(g)) >= Cardinality(Later(g.at))
        BY <1>1, <1>13, <2>1, LaterAreNewer
    <2>3. Cardinality(Newer(g)) \in Nat /\ Cardinality(Later(g.at)) \in Nat
        <3>1. Newer(g) \in SUBSET bkGens
            BY DEF Newer
        <3> QED
            BY <1>1, <1>2, <3>1, CandidatesAreFew, FS_Subset, FS_CardinalityType
    <2> QED
        BY <2>2, <2>3, BkAssumption
<1> QED
    BY <1>8, <1>9, <1>18, <1>19

LEMMA PruneStepKeeps ==
    ASSUME BkInv, NEW p \in BkProcs, PruneBackups(p)
    PROVE  BkInv' /\ \A g \in bkGens \ bkGens' : Cardinality(Newer(g)) >= BkKeep
<1> DEFINE old == bkProc[p]
<1>1. /\ BkTyped /\ CoversAgree /\ ProcAgrees(p) /\ GensAgree /\ old \in BkRecord
      /\ bkRuns \in Nat /\ bkRuns <= BkMaxRuns /\ bkCrashes \in Nat /\ bkOld \subseteq {"db", "covers"}
      /\ IsFiniteSet(bkGens) /\ \A g \in bkGens : g \in Generation /\ g.at \in 1..bkRuns
    BY DEF BkInv, BkTyped, BkTypeOK
<1>2. old.at = "prune" /\ UNCHANGED <<bkServer, bkStages, bkRuns, bkCrashes>>
    BY DEF PruneBackups
<1>3. bkLocked = p /\ bkCovers = p /\ bkStages = {} /\ bkRuns >= 1
    BY <1>1, <1>2 DEF ProcAgrees
<1>4. bkRuns <= bkRuns /\ bkStages' = {} /\ bkStages' \subseteq 1..BkMaxRuns /\ bkRuns' = bkRuns /\ bkCrashes' = bkCrashes /\ UNCHANGED bkServer
    BY <1>1, <1>2, <1>3
<1>5. CASE Cardinality(Candidates) > BkKeep
    <2>1. /\ \/ bkGens' = {g \in bkGens : g.at # Oldest}
             \/ bkGens' = {[g EXCEPT !.covers = IF g.at = Oldest THEN {} ELSE @] : g \in bkGens}
          /\ bkOld' = IF Oldest = 0 THEN bkOld \ {"db"} ELSE bkOld
          /\ UNCHANGED <<bkLocked, bkCovers, bkProc>>
        BY <1>5 DEF PruneBackups
    <2>2. /\ IsFiniteSet(bkGens') /\ \A g \in bkGens' : g \in Generation /\ g.at \in 1..bkRuns'
          /\ GensAgree' /\ \A g \in bkGens \ bkGens' : Cardinality(Newer(g)) >= BkKeep
        BY <1>2, <1>5, <2>1, PrunedKeeps
    <2>3. bkProc' = [bkProc EXCEPT ![p] = old] /\ bkOld' \subseteq {"db", "covers"}
        BY <1>1, <2>1 DEF BkTyped
    <2>4. BkTyped' /\ CoversAgree' /\ \A q \in BkProcs : ProcAgrees(q)'
        BY <1>1, <1>2, <1>3, <1>4, <2>1, <2>2, <2>3, ProcStep
    <2> QED
        BY <2>2, <2>4 DEF BkInv
<1>6. CASE ~(Cardinality(Candidates) > BkKeep)
    <2>1. bkOld' = (IF "db" \in bkOld THEN bkOld ELSE {}) /\ Unlock(p) /\ bkGens' = bkGens
        BY <1>6 DEF PruneBackups
    <2>2. BkIdle \in BkRecord /\ BkIdle.at = "idle"
        BY DEF BkIdle, BkRecord, BkStates
    <2>3. bkProc' = [bkProc EXCEPT ![p] = BkIdle] /\ bkLocked' = "free" /\ bkCovers' = "free" /\ bkOld' \subseteq {"db", "covers"}
        BY <1>1, <1>3, <2>1 DEF Unlock
    <2>4. BkTyped' /\ CoversAgree' /\ \A q \in BkProcs : ProcAgrees(q)'
        BY <1>1, <1>3, <1>4, <2>1, <2>2, <2>3, ProcStep
    <2>5. Ats' = Ats /\ Candidates' = Candidates /\ \A n : Later(n)' = Later(n)
        BY <2>1 DEF Ats, Candidates, Later
    <2>6. Cardinality(Candidates') <= BkKeep + bkCrashes' + (IF Pruning' THEN 1 ELSE 0)
        <3>1. Cardinality(Candidates) \in Nat
            BY <1>1, CandidatesAreFew
        <3> QED
            BY <1>1, <1>4, <1>6, <2>5, <3>1, BkAssumption
    <2>7. GensAgree'
        BY <1>1, <1>4, <2>1, <2>5, <2>6 DEF GensAgree
    <2> QED
        BY <2>1, <2>4, <2>7 DEF BkInv
<1> QED
    BY <1>5, <1>6

(* A killed backup leaves one candidate too many at most, which the crash pays for. *)
LEMMA KillKeeps ==
    ASSUME BkInv, NEW p \in BkProcs, Kill(p)
    PROVE  BkInv'
<1>1. /\ BkTyped /\ CoversAgree /\ ProcAgrees(p) /\ GensAgree /\ bkProc[p] \in BkRecord
      /\ bkRuns \in Nat /\ bkRuns <= BkMaxRuns /\ bkCrashes \in Nat /\ bkOld \subseteq {"db", "covers"} /\ bkStages \subseteq 1..BkMaxRuns
      /\ IsFiniteSet(bkGens) /\ \A g \in bkGens : g \in Generation /\ g.at \in 1..bkRuns
    BY DEF BkInv, BkTyped, BkTypeOK
<1>2. bkProc[p].at # "idle" /\ bkCrashes' = bkCrashes + 1 /\ Unlock(p) /\ UNCHANGED <<bkServer, bkStages, bkGens, bkOld, bkRuns>>
    BY DEF Kill, bkDisk
<1>3. bkLocked = p /\ bkCovers \in {p, "free"}
    BY <1>1, <1>2 DEF ProcAgrees, BkTyped, BkTypeOK
<1>4. BkIdle \in BkRecord /\ BkIdle.at = "idle"
    BY DEF BkIdle, BkRecord, BkStates
<1>5. bkProc' = [bkProc EXCEPT ![p] = BkIdle] /\ bkLocked' = "free" /\ bkCovers' = "free"
    BY <1>2, <1>3 DEF Unlock
<1>6. bkCrashes' \in Nat /\ bkRuns <= bkRuns /\ bkRuns' = bkRuns /\ bkStages' \subseteq 1..BkMaxRuns /\ UNCHANGED bkServer
    BY <1>1, <1>2
<1>7. BkTyped' /\ CoversAgree' /\ \A q \in BkProcs : ProcAgrees(q)'
    BY <1>1, <1>2, <1>3, <1>4, <1>5, <1>6, ProcStep
<1>8. Candidates' = Candidates /\ \A n : Later(n)' = Later(n)
    BY <1>2 DEF Ats, Candidates, Later
<1>9. Cardinality(Candidates') <= BkKeep + bkCrashes' + (IF Pruning' THEN 1 ELSE 0)
    <2>1. Cardinality(Candidates) \in Nat /\ Cardinality(Candidates) <= BkKeep + bkCrashes + (IF Pruning THEN 1 ELSE 0)
        BY <1>1, CandidatesAreFew DEF GensAgree
    <2> QED
        BY <1>1, <1>2, <1>8, <2>1, BkAssumption
<1>10. GensAgree'
    BY <1>1, <1>2, <1>8, <1>9 DEF GensAgree
<1> QED
    BY <1>7, <1>10 DEF BkInv

LEMMA BkStepKeeps ==
    ASSUME BkInv, [BkNext]_bkVars
    PROVE  BkInv' /\ NewestAreKept
<1>1. ASSUME BkInv', \A g \in bkGens \ bkGens' : Cardinality(Newer(g)) >= BkKeep PROVE BkInv' /\ NewestAreKept
    BY <1>1 DEF NewestAreKept, BkInv, GensAgree
<1>2. CASE \/ \E i \in BkItems : WriteCover(i) \/ MatchPublish(i) \/ DeleteCoveredRow(i) \/ RemoveCover(i)
           \/ MatchTemp \/ MatchFails \/ MatchCommit
    <2>1. bkGens' = bkGens
        BY <1>2 DEF WriteCover, MatchPublish, DeleteCoveredRow, RemoveCover, MatchTemp, MatchFails, MatchCommit, bkDisk
    <2>2. BkInv'
        BY <1>2, ServerStepKeeps
    <2> QED
        BY <1>1, <2>1, <2>2
<1>3. ASSUME NEW p \in BkProcs,
             \/ WithBackupLock(p) \/ CleanupBackupStages(p) \/ WithCoversLock(p) \/ BackupTo(p) \/ ListCovers(p) \/ CopyEntry(p)
      PROVE  BkInv' /\ NewestAreKept
    <2>1. bkGens' = bkGens
        BY <1>3 DEF WithBackupLock, CleanupBackupStages, WithCoversLock, BackupTo, ListCovers, CopyEntry, bkDisk
    <2>2. BkInv'
        BY <1>3, BackupStepKeeps
    <2> QED
        BY <1>1, <2>1, <2>2
<1>4. ASSUME NEW p \in BkProcs, PublishGeneration(p) PROVE BkInv' /\ NewestAreKept
    <2>1. BkInv' /\ bkGens \subseteq bkGens'
        BY <1>4, PublishStepKeeps
    <2> QED
        BY <1>1, <2>1
<1>5. ASSUME NEW p \in BkProcs, PruneBackups(p) PROVE BkInv' /\ NewestAreKept
    <2>1. BkInv' /\ \A g \in bkGens \ bkGens' : Cardinality(Newer(g)) >= BkKeep
        BY <1>5, PruneStepKeeps
    <2> QED
        BY <1>1, <2>1
<1>6. ASSUME NEW p \in BkProcs, Kill(p) PROVE BkInv' /\ NewestAreKept
    <2>1. BkInv' /\ bkGens' = bkGens
        BY <1>6, KillKeeps DEF Kill, bkDisk
    <2> QED
        BY <1>1, <2>1
<1>7. CASE UNCHANGED bkVars
    <2>1. BkInv' /\ bkGens' = bkGens
        BY <1>7 DEF BkInv, BkTyped, BkTypeOK, CoversAgree, ProcAgrees, GensAgree, Ats, Later, Candidates, Pruning, bkVars, bkServer, bkDisk
    <2> QED
        BY <1>1, <2>1
<1> QED
    BY <1>2, <1>3, <1>4, <1>5, <1>6, <1>7 DEF BkNext

(* Whatever backups, covers written meanwhile and crashes do, rows, process and generations are as BkInv says. *)
THEOREM BkAlways == BkSpec => []BkInv
<1>1. BkInv /\ [BkNext]_bkVars => BkInv'
    BY BkStepKeeps
<1> QED
    BY <1>1, BkInitHolds, PTL DEF BkSpec

(* A published generation restores by itself, or as many newer ones as are to be kept outlive it, and killed backups leave
   one stage and a generation each at most: for every number of processes, backups, kills and covers. *)
THEOREM GenerationsAlwaysHold == BkSpec => []GenerationsHold
<1>1. BkInv => GenerationsHold
    <2> SUFFICES ASSUME BkInv PROVE GenerationsHold
        OBVIOUS
    <2>1. BkTyped /\ GensAgree
        BY DEF BkInv
    <2>2. ASSUME NEW g \in bkGens PROVE g.db \subseteq g.covers \/ Cardinality(Newer(g)) >= BkKeep
        <3>1. Cardinality(Newer(g)) >= Cardinality(Later(g.at)) /\ Cardinality(Later(g.at)) \in Nat
            BY <2>1, LaterAreNewer, CandidatesAreFew
        <3>2. Cardinality(Newer(g)) \in Nat
            <4>1. Newer(g) \in SUBSET bkGens /\ IsFiniteSet(bkGens)
                BY <2>1 DEF Newer, BkTyped
            <4> QED
                BY <4>1, FS_Subset, FS_CardinalityType
        <3>3. g.db \subseteq g.covers \/ Cardinality(Later(g.at)) >= BkKeep
            BY <2>1 DEF GensAgree
        <3> QED
            BY <3>1, <3>2, <3>3, BkAssumption
    <2>3. GenerationsSelfContained
        BY <2>2 DEF GenerationsSelfContained
    <2>4. Cardinality(bkStages) <= 1
        <3>1. bkStages = {} \/ \E x : bkStages = {x}
            BY <2>1 DEF GensAgree
        <3>2. Cardinality({}) = 0 /\ \A x : Cardinality({x}) = 1
            BY FS_EmptySet, FS_Singleton
        <3>3. Cardinality(bkStages) \in {0, 1}
            BY <3>1, <3>2
        <3> QED
            BY <3>3
    <2>5. Cardinality(Candidates) <= BkKeep + 1 + bkCrashes
        BY <2>1, CandidatesAreFew, BkAssumption DEF GensAgree, BkTyped
    <2> QED
        BY <2>3, <2>4, <2>5 DEF GenerationsHold, LeftoversBounded
<1> QED
    BY <1>1, BkAlways, PTL

(* The locks are taken in their order by one process at a time, and rows, covers and stages keep their types. *)
THEOREM BkTypeCorrect == BkSpec => []BkTypeOK
<1>1. BkInv => BkTypeOK
    BY DEF BkInv, BkTyped
<1> QED
    BY <1>1, BkAlways, PTL

(* No step prunes a generation, or part of it, before as many newer ones are published as are to be kept, or the covers of
   the old layout before its database. *)
THEOREM NewestAreAlwaysKept == BkSpec => [][NewestAreKept]_bkVars
<1>1. BkInv /\ [BkNext]_bkVars => [NewestAreKept]_bkVars
    BY BkStepKeeps
<1> QED
    BY <1>1, BkAlways, PTL DEF BkSpec

-----------------------------------------------------------------------------
(* The library of MCLibrary: a behaviour of it is one of each part.        *)

LEMMA EachPartFollows == Spec => PodSpec /\ BkSpec /\ TpSpec /\ ImSpec /\ MtSpec
<1>1. Init => PodInit /\ BkInit /\ TpInit /\ ImInit /\ MtInit
    BY DEF Init
<1>2. [Next]_<<part, podVars, bkVars, tpVars, lsVars, imVars, mtVars>> =>
          [PodNext]_podVars /\ [BkNext]_bkVars /\ [TpNext]_tpVars /\ [ImNext]_<<lsVars, imVars>> /\ [MtNext]_mtVars
    BY Zenon DEF Next
<1> QED
    BY <1>1, <1>2, PTL DEF Spec, PodSpec, BkSpec, TpSpec, ImSpec, MtSpec

(* Every part keeps its types, and what they say of the code: the slots of podcasts are their jobs', the locks of a backup
   are taken in their order, the pool is the sum of its leases, an edition is in a work that exists. *)
THEOREM LibraryTyped == Spec => []LibraryTypeOK
<1>1. Spec => [](PodTypeOK /\ BkTypeOK /\ TpTypeOK /\ LsTypeOK /\ ImTypeOK /\ MtTypeOK)
    BY EachPartFollows, PodcastsTyped, BkTypeCorrect, PoolAddsUp, LibraryTypes, ImportsAreTyped, WorksStayWhole, PTL
<1>2. PodTypeOK /\ BkTypeOK /\ TpTypeOK /\ LsTypeOK /\ ImTypeOK /\ MtTypeOK => LibraryTypeOK
    BY DEF LibraryTypeOK
<1> QED
    BY <1>1, <1>2, PTL

(* No step of any part undoes what is done: the newest generations are kept while it is another part that steps, and so
   are handled episodes and scanned chapters. *)
THEOREM NothingIsEverUndone == Spec => NothingIsUndone
<1>1. /\ PodInv /\ BkInv /\ MtInv /\ mtRun.status \in {"none", "running", "done"}
      /\ [PodNext]_podVars /\ [BkNext]_bkVars /\ [MtNext]_mtVars
      => [HandledOnce /\ NewestAreKept /\ ScannedChaptersStay]_<<podVars, bkVars, mtVars>>
    BY HandledStep, BkStepKeeps, MtStepKeeps
<1> QED
    BY <1>1, EachPartFollows, PodAlways, BkAlways, MtAlways, PTL DEF PodSpec, BkSpec, MtSpec, NothingIsUndone

(* What else the run MCLibrary checks of the library holds of it for every value of the constants. *)
THEOREM LibraryHolds ==
    Spec => /\ [](SubscriptionsHold /\ GenerationsHold /\ SpaceIsBounded /\ SetsAreWhole)
            /\ [](LibraryShowsFiles /\ RefreshEndIsDelivered)
            /\ PublishedAsProven /\ MovedKeepsEdition
    BY EachPartFollows, SubscriptionsAlwaysHold, GenerationsAlwaysHold, PoolStaysBounded, ServedSetsAreWhole,
       LibraryIsShown, EndIsAlwaysDelivered, ImportsPublishAsProven, MovesKeepEditions, PTL

===============================================================================
