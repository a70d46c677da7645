----------------------------- MODULE Files_proofs -----------------------------
(***************************************************************************)
(* Proofs about the files that the server makes beside its database: the   *)
(* audio of podcasts and the images of Trickplay, for every number of      *)
(* feeds, episodes, callers, sets and limits.  Podcasts: a slot has one    *)
(* job at most, so that what a job found out about the episodes of its     *)
(* podcast stays true of them.  Trickplay: who leads a set is in tpGen, so *)
(* that one caller at most touches its directory, and that caller does so  *)
(* only while the marker is not there.                                     *)
(***************************************************************************)
EXTENDS PodcastService, Trickplay, SumTheorems, FunctionTheorems, FiniteSetTheorems, TLAPS

LEMMA MaxIsLargest ==
    ASSUME NEW S \in SUBSET Nat, S # {}, NEW b \in Nat, \A x \in S : x <= b
    PROVE  Max(S) \in S /\ \A x \in S : x <= Max(S)
<1> DEFINE U == {n \in Nat : \A x \in S : x <= n}
<1>1. PICK n \in U : \A m \in U : n <= m
    <2>1. b \in U /\ U \in SUBSET Nat /\ U # {}
        OBVIOUS
    <2> HIDE DEF U
    <2> QED
        BY <2>1, LeastNatural
<1>2. n \in Nat /\ \A x \in S : x <= n
    OBVIOUS
<1>3. n \in S
    <2> SUFFICES ASSUME n \notin S PROVE FALSE
        OBVIOUS
    <2>1. \A x \in S : x \in Nat /\ x <= n /\ x # n
        BY <1>2
    <2>2. PICK x \in S : TRUE
        OBVIOUS
    <2>3. n - 1 \in Nat
        BY <1>2, <2>1, <2>2
    <2>4. \A y \in S : y <= n - 1
        BY <1>2, <2>1
    <2>5. n - 1 \in U
        BY <2>3, <2>4
    <2>6. n <= n - 1
        BY <1>1, <2>5
    <2> QED
        BY <1>2, <2>6
<1>4. \E m \in S : \A x \in S : m >= x
    BY <1>2, <1>3
<1>5. Max(S) \in S /\ \A x \in S : Max(S) >= x
    BY <1>4, Zenon DEF Max
<1> QED
    BY <1>5

-----------------------------------------------------------------------------
(* Podcasts.                                                               *)

Fetching == {"fetch", "cover", "upsert"}
Downloading == {"download", "record", "link"}
Retaining == {"remove", "purge"}
Working == Fetching \cup {"pending", "retain"} \cup Downloading \cup Retaining
Subscribing == {"own"} \cup Working      \* the job has the id of a podcast

Eps == [at : {"absent", "pending", "kept", "seen"}, feed : PodFeeds \cup {PodNone}, file : Paths \cup {PodNone}]

PodTyped ==
    /\ podServer \in [PodFeeds -> Guids] /\ podRow \in [PodIds -> PodRows \cup {PodNone}]
    /\ podEp \in [PodIds -> [Guids -> Eps]] /\ podFile \in [Paths -> {"none", "present", "missing"}]
    /\ podDisk = [p \in Paths |-> podDisk[p]] /\ podCover \subseteq PodIds /\ podSlot \subseteq PodIds
    /\ podGate \in PodWorkers \cup {PodNone} /\ podJob = [w \in PodWorkers |-> podJob[w]]

IsJob(k) ==
    k = [at |-> k.at, id |-> k.id, row |-> k.row, ver |-> k.ver, next |-> k.next, left |-> k.left, file |-> k.file,
         failed |-> k.failed, own |-> k.own, paths |-> k.paths, subscriber |-> k.subscriber]

(* The slots and the gate are those of the jobs, and a job has what its place in the code needs. *)
JobShape(w) ==
    LET j == podJob[w] IN
    /\ IsJob(j)
    /\ j.at \in {"idle", "insert", "delete", "clean"} \cup Subscribing
    /\ j.own \subseteq podSlot
    /\ j.at \in {"idle", "insert", "own"} => j.own = {}
    /\ j.at \in Working => j.own = {j.id}
    /\ j.at # "clean" => j.paths = {}
    /\ j.at \notin {"record", "link", "purge"} => j.file = PodNone
    /\ j.subscriber \in BOOLEAN /\ (j.subscriber => j.at \in {"insert"} \cup Subscribing)
    /\ j.at = "insert" => j.row \in PodRows /\ j.row.etag = 0 /\ j.ver \in Guids /\ j.subscriber
    /\ j.at \in Subscribing => j.id \in PodIds /\ j.row \in PodRows /\ j.ver \in 0..PodEpisodes
    /\ j.at = "own" => (podGate = w <=> j.subscriber) /\ (j.ver \in Guids <=> j.subscriber)
    /\ j.at = "fetch" => j.next = 1 /\ j.ver = 0
    /\ j.at = "cover" => j.next = 1 /\ j.ver \in Guids
    /\ j.at = "upsert" => j.ver \in Guids /\ j.next \in 1..(j.ver + 1)
    /\ podGate = w => j.at \in {"own", "delete", "clean"}

(* What a job has found out about the episodes of its podcast still holds of them, as it owns the slot. *)
Unlinked(i, p) == \A h \in Kept(i) : podEp[i][h].file # p
Lower(S, T) == \A g \in S, h \in T : g < h
LaterThan(S, g) == {h \in S : h > g}
Earliest(left, kept, n) ==
    /\ left \subseteq kept /\ Lower(left, kept \ left) /\ Cardinality(kept \ left) <= n
    /\ \A g \in left : Cardinality(LaterThan(kept, g)) >= n
JobWork(w) ==
    LET j == podJob[w] IN
    /\ j.at \in Downloading => j.left \subseteq Pending(j.id) /\ j.next \in Nat
    /\ j.at \in {"record", "link"} =>
          /\ j.left # {} /\ j.next # 0 /\ j.file \in {<<j.id, 0>>, <<j.id, Max(j.left)>>} /\ Unlinked(j.id, j.file)
          /\ podDisk[j.file] # PodNone /\ podDisk[j.file][2] = Max(j.left)
    /\ j.at = "link" => podFile[j.file] = "present"
    /\ j.at \in Retaining => Earliest(j.left, Kept(j.id), j.row.max)
    /\ j.at = "purge" => j.left # {} /\ j.file = podEp[j.id][Min(j.left)].file /\ podDisk[j.file] = PodNone
    /\ j.at = "clean" => (\A i \in j.own : Kept(i) = {}) /\ \A p \in j.paths : p \in Paths /\ p[1] \in j.own

(* Unless rows were deleted: the job is about its row, and has stored what it says it has. *)
Covered(i, n) == \A g \in 1..n : podEp[i][g].at # "absent"
Fresh(w) ==
    LET j == podJob[w] IN
    "gone" \notin podPast =>
       /\ j.at \in Subscribing => /\ j.id \in Subscribed /\ Covered(j.id, j.row.etag)
                                  /\ "patch" \in podPast \/ podRow[j.id].max = j.row.max
       /\ j.at = "upsert" => Covered(j.id, j.next - 1)
       /\ j.at \in {"pending", "retain"} \cup Downloading \cup Retaining => Covered(j.id, j.ver)
JobOk(w) == JobShape(w) /\ JobWork(w) /\ Fresh(w)

RowAgrees(i) ==
    /\ i \notin Subscribed => \A g \in Guids : podEp[i][g].at = "absent"
    /\ \A g \in Kept(i) : podEp[i][g].file \in {<<i, 0>>, <<i, g>>}
    /\ \A g \in Guids : /\ podEp[i][g].file # PodNone <=> podEp[i][g].at = "kept"
                        /\ podEp[i][g].at # "absent" => podEp[i][g].feed \in PodFeeds
LinksHold(i) == \A g \in Kept(i) :
    LET p == podEp[i][g].file IN
    /\ podFile[p] = "present"
    /\ \A h \in Kept(i) \ {g} : podEp[i][h].file # p
    /\ \/ podDisk[p] # PodNone /\ podDisk[p][2] = g
       \/ \E w \in PodWorkers : podJob[w].at = "purge" /\ podJob[w].id = i /\ podJob[w].file = p
       \/ "cut" \in podPast /\ (Overflowing(i, g) \/ podPast \cap {"patch", "gone"} # {})
OrphansHold(i) == \A p \in Paths : p[1] = i /\ podDisk[p] # PodNone /\ Unlinked(i, p) =>
    "cut" \in podPast \/ \E w \in PodWorkers : p = podJob[w].file \/ p \in podJob[w].paths
EtagHolds(i) == i \in Subscribed => "gone" \in podPast \/ Covered(i, podRow[i].etag)
RowOk(i) == RowAgrees(i) /\ LinksHold(i) /\ OrphansHold(i) /\ EtagHolds(i)

SlotsApart == \A v, w \in PodWorkers : v # w => podJob[v].own \cap podJob[w].own = {}
PodInv == PodTyped /\ (\A w \in PodWorkers : JobOk(w)) /\ (\A i \in PodIds : RowOk(i)) /\ SlotsApart

-----------------------------------------------------------------------------
(* Episodes of one podcast.                                                *)

LEMMA MinIsSmallest ==
    ASSUME NEW S \in SUBSET Nat, S # {}
    PROVE  Min(S) \in S /\ \A x \in S : Min(S) <= x
<1>1. PICK n \in S : \A m \in S : n <= m
    BY LeastNatural
<1>2. \E m \in S : \A x \in S : m =< x
    BY <1>1
<1>3. Min(S) \in S /\ \A x \in S : Min(S) =< x
    BY <1>2, Zenon DEF Min
<1> QED
    BY <1>3

LEMMA EpisodesAreFinite ==
    ASSUME NEW S \in SUBSET Guids
    PROVE  /\ S \subseteq Nat /\ IsFiniteSet(S) /\ Cardinality(S) \in Nat
           /\ \A T \in SUBSET S : T \subseteq Nat /\ IsFiniteSet(T) /\ Cardinality(T) \in Nat /\ Cardinality(T) <= Cardinality(S)
<1>1. IsFiniteSet(1..PodEpisodes)
    BY PodAssumption, FS_Interval
<1>2. \A U \in SUBSET Guids : IsFiniteSet(U) /\ Cardinality(U) \in Nat
    BY <1>1, FS_Subset, FS_CardinalityType DEF Guids
<1>3. \A T \in SUBSET S : Cardinality(T) <= Cardinality(S)
    BY <1>2, FS_Subset
<1>4. Guids \subseteq Nat
    BY PodAssumption DEF Guids
<1> QED
    BY <1>2, <1>3, <1>4

LEMMA NewerGrows ==
    ASSUME NEW S \in SUBSET Guids, NEW T \in SUBSET S, NEW g \in Guids, NEW h \in Guids, g <= h
    PROVE  /\ Cardinality(LaterThan(S, g)) \in Nat /\ Cardinality(LaterThan(T, h)) \in Nat
           /\ Cardinality(LaterThan(T, h)) <= Cardinality(LaterThan(S, g))
<1>1. Guids \subseteq Nat
    BY EpisodesAreFinite
<1>2. LaterThan(S, g) \in SUBSET Guids
    BY DEF LaterThan
<1>3. \A x \in Nat : x > h => x > g
    BY <1>1
<1>4. LaterThan(T, h) \in SUBSET LaterThan(S, g)
    BY <1>1, <1>3 DEF LaterThan
<1> HIDE DEF LaterThan
<1> QED
    BY <1>2, <1>4, EpisodesAreFinite

(* The episodes beyond the newest n are older than those, and have n newer ones each. *)
LEMMA RestIsOldest ==
    ASSUME NEW S \in SUBSET Guids, NEW n \in Nat \ {0}
    PROVE  Earliest(S \ NewestEpisodes(S, n), S, n)
<1> DEFINE T == NewestEpisodes(S, n)
           R == S \ T
<1>0. Guids \subseteq Nat
    BY EpisodesAreFinite
<1>1. /\ T \in SUBSET S /\ S \ R = T
      /\ \A g \in S : g \in T <=> Cardinality(LaterThan(S, g)) < n
    BY DEF NewestEpisodes, LaterThan
<1>2. \A g \in S : Cardinality(LaterThan(S, g)) \in Nat
    <2> TAKE g \in S
    <2> QED
        BY <1>0, NewerGrows
<1>3. \A g \in R : Cardinality(LaterThan(S, g)) >= n
    BY <1>1, <1>2
<1>4. Lower(R, T)
    <2> SUFFICES ASSUME NEW g \in R, NEW h \in T PROVE g < h
        BY DEF Lower
    <2>1. g \in Nat /\ h \in Nat /\ g # h /\ g \in Guids /\ h \in Guids
        BY <1>0, <1>1
    <2>2. SUFFICES ASSUME h <= g PROVE FALSE
        BY <2>1
    <2>3. Cardinality(LaterThan(S, g)) <= Cardinality(LaterThan(S, h))
        BY <2>1, <2>2, NewerGrows
    <2> QED
        BY <2>3, <1>1, <1>2, <1>3
<1>5. Cardinality(T) <= n
    <2>1. CASE T = {}
        BY <2>1, FS_EmptySet
    <2>2. CASE T # {}
        <3> DEFINE m == Min(T)
                   U == T \ {m}
        <3>1. m \in T /\ \A x \in T : m <= x
            BY <1>0, <1>1, <2>2, MinIsSmallest
        <3> HIDE DEF m, T
        <3>2. \A x \in U : x \in S /\ x > m
            BY <1>0, <1>1, <3>1
        <3>8. LaterThan(S, m) \in SUBSET Guids
            BY DEF LaterThan
        <3>7. U \in SUBSET LaterThan(S, m)
            BY <3>2, Zenon DEF LaterThan
        <3>3. Cardinality(LaterThan(S, m)) < n
            BY <1>1, <3>1
        <3>4. Cardinality(U) <= Cardinality(LaterThan(S, m)) /\ Cardinality(LaterThan(S, m)) \in Nat
            BY <3>7, <3>8, EpisodesAreFinite
        <3>5. IsFiniteSet(T) /\ Cardinality(T) \in Nat
            BY <1>1, EpisodesAreFinite
        <3>6. Cardinality(U) = Cardinality(T) - 1
            BY <3>1, <3>5, FS_RemoveElement
        <3> HIDE DEF U
        <3> QED
            BY <3>3, <3>4, <3>5, <3>6
    <2> QED
        BY <2>1, <2>2
<1>6. S \ R = T /\ R \subseteq S
    BY <1>1
<1> HIDE DEF R, T
<1>7. Earliest(R, S, n)
    BY <1>3, <1>4, <1>5, <1>6 DEF Earliest
<1> QED
    BY <1>7 DEF R, T

(* Removing the oldest of them leaves the rest as it was. *)
LEMMA OldestGoes ==
    ASSUME NEW S \in SUBSET Guids, NEW L \in SUBSET S, L # {}, NEW n \in Nat \ {0}, Earliest(L, S, n)
    PROVE  /\ Min(L) \in L /\ Earliest(L \ {Min(L)}, S \ {Min(L)}, n)
           /\ \A g \in S \ {Min(L)} : LaterThan(S \ {Min(L)}, g) = LaterThan(S, g)
<1> DEFINE m == Min(L)
<1>0. Guids \subseteq Nat
    BY EpisodesAreFinite
<1>1. m \in L /\ \A x \in L : m <= x
    BY <1>0, MinIsSmallest
<1> HIDE DEF m
<1>2. \A g \in S : m <= g
    BY <1>0, <1>1 DEF Earliest, Lower
<1>3. \A g \in S \ {m} : LaterThan(S \ {m}, g) = LaterThan(S, g)
    BY <1>0, <1>1, <1>2 DEF LaterThan
<1>4. (S \ {m}) \ (L \ {m}) = S \ L
    BY <1>1
<1>5. Earliest(L \ {m}, S \ {m}, n)
    BY <1>1, <1>3, <1>4 DEF Earliest, Lower
<1> QED
    BY <1>1, <1>3, <1>5 DEF m

-----------------------------------------------------------------------------
(* What a step leaves alone.                                               *)

Within(O) ==
    /\ \A i \in PodIds \ O : podEp'[i] = podEp[i]
    /\ \A p \in Paths : p[1] \notin O => podFile'[p] = podFile[p] /\ podDisk'[p] = podDisk[p]
Grows ==
    /\ podPast \subseteq podPast'
    /\ "gone" \notin podPast' => \A i \in Subscribed :
          /\ i \in Subscribed' /\ ("patch" \in podPast' \/ podRow'[i].max = podRow[i].max)
          /\ \A g \in Guids : podEp[i][g].at # "absent" => podEp'[i][g].at # "absent"
RowStays(i) ==
    /\ i \in Subscribed => i \in Subscribed'
    /\ i \in Subscribed' => i \notin Subscribed \/ "patch" \in podPast' \/ podRow'[i].max = podRow[i].max

LEMMA KeptAreEpisodes ==
    \A i \in PodIds : Kept(i) \in SUBSET Guids /\ Pending(i) \in SUBSET Guids
BY DEF Kept, Pending

LEMMA SameKept ==
    ASSUME NEW i, podEp'[i] = podEp[i]
    PROVE  Kept(i)' = Kept(i) /\ Pending(i)' = Pending(i)
BY DEF Kept, Pending

(* The file a job is at work on is one of its podcast. *)
LEMMA JobFile ==
    ASSUME PodInv, NEW w \in PodWorkers, podJob[w].at \in {"record", "link", "purge"}
    PROVE  LET j == podJob[w] IN
           /\ j.id \in PodIds /\ j.own = {j.id} /\ j.left \in SUBSET Guids /\ j.left # {}
           /\ Max(j.left) \in j.left /\ Min(j.left) \in j.left
           /\ j.file \in Paths /\ j.file[1] = j.id
<1> DEFINE j == podJob[w]
           i == j.id
<1> USE PodAssumption
<1>1. JobShape(w) /\ JobWork(w)
    BY DEF PodInv, JobOk
<1>2. j.at \in Working /\ j.at \in Subscribing /\ i \in PodIds /\ j.own = {i}
    BY <1>1 DEF JobShape, Working, Subscribing, Downloading, Retaining
<1>3. Kept(i) \in SUBSET Guids /\ Pending(i) \in SUBSET Guids
    BY <1>2, KeptAreEpisodes
<1>4. j.left \in SUBSET Guids /\ j.left # {} /\ (j.at = "purge" => j.left \subseteq Kept(i))
    BY <1>1, <1>3 DEF JobWork, Downloading, Retaining, Earliest
<1>5. j.left \in SUBSET Nat /\ \A x \in j.left : x <= PodEpisodes
    BY <1>4 DEF Guids
<1> DEFINE L == j.left
<1>6. L \in SUBSET Nat /\ L # {} /\ \A x \in L : x <= PodEpisodes
    BY <1>4, <1>5
<1> HIDE DEF L
<1>7. Max(L) \in L /\ Min(L) \in L
    BY <1>6, MaxIsLargest, MinIsSmallest
<1> USE DEF L
<1>8. CASE j.at \in {"record", "link"}
    <2>1. j.file \in {<<i, 0>>, <<i, Max(j.left)>>} /\ Max(j.left) \in Guids
        BY <1>1, <1>4, <1>7, <1>8 DEF JobWork
    <2>2. j.file \in Paths /\ j.file[1] = i
        BY <1>2, <2>1 DEF Paths
    <2> QED
        BY <1>2, <1>4, <1>7, <2>2
<1>9. CASE j.at = "purge"
    <2>1. j.file = podEp[i][Min(j.left)].file /\ Min(j.left) \in Kept(i) /\ Min(j.left) \in Guids
        BY <1>1, <1>4, <1>7, <1>9 DEF JobWork
    <2>2. RowAgrees(i)
        BY <1>2 DEF PodInv, RowOk
    <2>3. j.file \in {<<i, 0>>, <<i, Min(j.left)>>}
        BY <2>1, <2>2 DEF RowAgrees
    <2>4. j.file \in Paths /\ j.file[1] = i
        BY <1>2, <2>1, <2>3 DEF Paths
    <2> QED
        BY <1>2, <1>4, <1>7, <2>4
<1> QED
    BY <1>8, <1>9

(* A job that does not move keeps what it knows, as long as its slots are its own. *)
LEMMA JobStays ==
    ASSUME PodInv, NEW v \in PodWorkers, NEW O, podJob'[v] = podJob[v], podGate' = v <=> podGate = v,
           podJob[v].own \subseteq podSlot', O \cap podJob[v].own = {}, Within(O), Grows
    PROVE  JobOk(v)'
<1> DEFINE j == podJob[v]
<1> USE PodAssumption
<1>1. JobShape(v) /\ JobWork(v) /\ Fresh(v)
    BY DEF PodInv, JobOk
<1>2. JobShape(v)'
    BY <1>1 DEF JobShape
<1>3. j.at \in Working =>
         /\ j.id \in PodIds /\ podEp'[j.id] = podEp[j.id] /\ Kept(j.id)' = Kept(j.id) /\ Pending(j.id)' = Pending(j.id)
    BY <1>1, SameKept DEF JobShape, Within, Subscribing
<1>4. Downloading \subseteq Working /\ Retaining \subseteq Working
    BY DEF Working
<1>5. JobWork(v)'
    <2>1. j.at \in Downloading => j.left \subseteq Pending(j.id)' /\ j.next \in Nat
        BY <1>1, <1>3, <1>4 DEF JobWork
    <2>2. j.at \in {"record", "link", "purge"} => podFile'[j.file] = podFile[j.file] /\ podDisk'[j.file] = podDisk[j.file]
        BY JobFile DEF Within
    <2>3. j.at \in {"record", "link"} => Unlinked(j.id, j.file)'
        BY <1>1, <1>3, <1>4 DEF JobWork, Unlinked, Downloading
    <2>4. j.at \in Retaining => Earliest(j.left, Kept(j.id)', j.row.max)
        BY <1>1, <1>3, <1>4 DEF JobWork
    <2>5. j.at = "purge" => j.file = podEp'[j.id][Min(j.left)].file
        BY <1>1, <1>3, <1>4 DEF JobWork, Retaining
    <2>6. j.at = "clean" => \A i \in j.own : Kept(i)' = {}
        <3> SUFFICES ASSUME j.at = "clean", NEW i \in j.own PROVE Kept(i)' = {}
            OBVIOUS
        <3>1. i \in PodIds
            BY <1>1 DEF JobShape, PodInv, PodTyped
        <3>2. Kept(i) = {}
            BY <1>1 DEF JobWork
        <3> QED
            BY <3>1, <3>2, SameKept DEF Within
    <2> QED
        BY <1>1, <2>1, <2>2, <2>3, <2>4, <2>5, <2>6 DEF JobWork, Earliest
<1>6. Fresh(v)'
    <2> SUFFICES ASSUME "gone" \notin podPast' PROVE Fresh(v)'
        BY DEF Fresh
    <2>1. \A i \in Subscribed, n \in 0..PodEpisodes : Covered(i, n) => Covered(i, n)'
        BY DEF Grows, Covered, Guids
    <2>2. j.at \in Subscribing => /\ j.id \in Subscribed /\ j.row.etag \in 0..PodEpisodes /\ j.ver \in 0..PodEpisodes
                                  /\ j.id \in Subscribed' /\ ("patch" \in podPast' \/ podRow'[j.id].max = podRow[j.id].max)
        BY <1>1 DEF JobShape, Fresh, PodRows, Grows
    <2>3. j.at \in Subscribing => Covered(j.id, j.row.etag)' /\ ("patch" \in podPast' \/ podRow'[j.id].max = j.row.max)
        BY <1>1, <2>1, <2>2 DEF Fresh, Grows
    <2>4. j.at = "upsert" => Covered(j.id, j.next - 1)'
        <3>1. j.at = "upsert" => j.at \in Subscribing /\ j.next - 1 \in 0..PodEpisodes
            BY <1>1 DEF JobShape, Subscribing, Working, Fetching, Guids
        <3> QED
            BY <1>1, <2>1, <2>2, <3>1 DEF Fresh, Grows
    <2>5. j.at \in {"pending", "retain"} \cup Downloading \cup Retaining => Covered(j.id, j.ver)'
        BY <1>1, <2>1, <2>2 DEF Fresh, Grows, Subscribing, Working
    <2> QED
        BY <2>2, <2>3, <2>4, <2>5 DEF Fresh
<1> QED
    BY <1>2, <1>5, <1>6 DEF JobOk

(* A podcast whose episodes and files nobody touches. *)
LEMMA PodcastStays ==
    ASSUME PodInv, NEW i \in PodIds, NEW O, i \notin O, Within(O), RowStays(i), EtagHolds(i)', podPast \subseteq podPast',
           \A v \in PodWorkers : \/ podJob'[v] = podJob[v]
                                 \/ /\ podJob[v].at = "purge" => podJob[v].id # i
                                    /\ \A p \in Paths : p[1] = i => p # podJob[v].file /\ p \notin podJob[v].paths
    PROVE  RowOk(i)'
<1> USE PodAssumption
<1>1. RowAgrees(i) /\ LinksHold(i) /\ OrphansHold(i)
    BY DEF PodInv, RowOk
<1>2. podEp'[i] = podEp[i] /\ Kept(i)' = Kept(i) /\ Kept(i) \in SUBSET Guids
    BY SameKept, KeptAreEpisodes DEF Within
<1>3. \A p \in Paths : p[1] = i => podFile'[p] = podFile[p] /\ podDisk'[p] = podDisk[p]
    BY DEF Within
<1>4. RowAgrees(i)'
    BY <1>1, <1>2 DEF RowAgrees, RowStays
<1>5. LinksHold(i)'
    <2> SUFFICES ASSUME NEW g \in Kept(i)
                 PROVE  LET p == podEp[i][g].file IN
                        /\ podFile'[p] = "present"
                        /\ \A h \in Kept(i) \ {g} : podEp[i][h].file # p
                        /\ \/ podDisk'[p] # PodNone /\ podDisk'[p][2] = g
                           \/ \E w \in PodWorkers : podJob'[w].at = "purge" /\ podJob'[w].id = i /\ podJob'[w].file = p
                           \/ "cut" \in podPast' /\ (Overflowing(i, g)' \/ podPast' \cap {"patch", "gone"} # {})
        BY <1>2 DEF LinksHold
    <2> DEFINE p == podEp[i][g].file
    <2>1. g \in Guids /\ p \in {<<i, 0>>, <<i, g>>} /\ i \in Subscribed
        BY <1>1, <1>2 DEF RowAgrees, Kept
    <2>2. p \in Paths /\ p[1] = i
        BY <2>1 DEF Paths
    <2>3. podFile'[p] = podFile[p] /\ podDisk'[p] = podDisk[p]
        BY <1>3, <2>2
    <2>4. "cut" \in podPast /\ Overflowing(i, g) => "cut" \in podPast' /\ (Overflowing(i, g)' \/ podPast' \cap {"patch", "gone"} # {})
        BY <1>2, <2>1 DEF Overflowing, RowStays
    <2>5. \A w \in PodWorkers : podJob[w].at = "purge" /\ podJob[w].id = i => podJob'[w] = podJob[w]
        OBVIOUS
    <2> QED
        BY <1>1, <2>3, <2>4, <2>5 DEF LinksHold
<1>6. OrphansHold(i)'
    <2> SUFFICES ASSUME NEW p \in Paths, p[1] = i, podDisk'[p] # PodNone, Unlinked(i, p)', "cut" \notin podPast'
                 PROVE  \E w \in PodWorkers : p = podJob'[w].file \/ p \in podJob'[w].paths
        BY DEF OrphansHold
    <2>1. podDisk[p] # PodNone /\ Unlinked(i, p) /\ "cut" \notin podPast
        BY <1>2, <1>3 DEF Unlinked
    <2>2. PICK w \in PodWorkers : p = podJob[w].file \/ p \in podJob[w].paths
        BY <1>1, <2>1 DEF OrphansHold
    <2>3. podJob'[w] = podJob[w]
        BY <2>2
    <2> QED
        BY <2>2, <2>3
<1> QED
    BY <1>4, <1>5, <1>6 DEF RowOk

-----------------------------------------------------------------------------
(* What a step of a job has to show.                                       *)

Locks(w) ==
    /\ podJob' = [podJob EXCEPT ![w] = podJob'[w]]
    /\ podSlot' \subseteq PodIds /\ podGate' \in PodWorkers \cup {PodNone}
    /\ \A v \in PodWorkers \ {w} : podGate' = v <=> podGate = v
    /\ podSlot \ podJob[w].own \subseteq podSlot' /\ podJob'[w].own \cap podSlot \subseteq podJob[w].own

LEMMA WorkerStep ==
    ASSUME PodInv, NEW w \in PodWorkers, PodTyped', Locks(w), Within(podJob[w].own), Grows, JobOk(w)',
           \A i \in PodIds \ podJob[w].own : RowStays(i) /\ EtagHolds(i)',
           \A i \in podJob[w].own : RowOk(i)'
    PROVE  PodInv'
<1> DEFINE own == podJob[w].own
<1> USE PodAssumption
<1>0. podJob'[w].own \subseteq podSlot'
    BY DEF JobOk, JobShape
<1>1. \A v \in PodWorkers : JobShape(v) /\ JobWork(v) /\ podJob[v].own \subseteq podSlot
    BY DEF PodInv, JobOk, JobShape
<1>2. \A v \in PodWorkers \ {w} : podJob'[v] = podJob[v] /\ own \cap podJob[v].own = {} /\ podJob[v].own \subseteq podSlot'
    BY <1>1 DEF Locks, PodInv, PodTyped, SlotsApart
<1>3. \A v \in PodWorkers : JobOk(v)'
    <2> SUFFICES ASSUME NEW v \in PodWorkers \ {w} PROVE JobOk(v)'
        OBVIOUS
    <2>1. podGate' = v <=> podGate = v
        BY DEF Locks
    <2> HIDE DEF own
    <2>2. Within(own)
        BY DEF own
    <2> QED
        BY <1>2, <2>1, <2>2, JobStays
<1>4. \A i \in PodIds : RowOk(i)'
    <2> SUFFICES ASSUME NEW i \in PodIds \ own PROVE RowOk(i)'
        OBVIOUS
    <2>1. podJob[w].at = "purge" => podJob[w].id # i
        BY JobFile
    <2>2. \A p \in Paths : p[1] = i => p # podJob[w].file /\ p \notin podJob[w].paths
        <3> SUFFICES ASSUME NEW p \in Paths, p[1] = i PROVE p # podJob[w].file /\ p \notin podJob[w].paths
            OBVIOUS
        <3>1. p # podJob[w].file
            <4>1. CASE podJob[w].at \in {"record", "link", "purge"}
                BY <4>1, JobFile
            <4>2. CASE podJob[w].at \notin {"record", "link", "purge"}
                BY <4>2, <1>1 DEF JobShape
            <4> QED
                BY <4>1, <4>2
        <3>2. p \notin podJob[w].paths
            BY <1>1 DEF JobShape, JobWork
        <3> QED
            BY <3>1, <3>2
    <2>3. RowStays(i) /\ EtagHolds(i)' /\ podPast \subseteq podPast'
        BY DEF Grows
    <2>4. \A v \in PodWorkers : v # w => podJob'[v] = podJob[v]
        BY <1>2
    <2> HIDE DEF own
    <2>5. Within(own)
        BY DEF own
    <2> QED
        BY <2>1, <2>2, <2>3, <2>4, <2>5, PodcastStays
<1>5. SlotsApart'
    <2>1. \A v \in PodWorkers \ {w} : podJob'[v].own \cap podJob'[w].own = {}
        BY <1>0, <1>1, <1>2 DEF Locks
    <2>2. \A u, v \in PodWorkers \ {w} : u # v => podJob'[u].own \cap podJob'[v].own = {}
        BY <1>2 DEF PodInv, SlotsApart
    <2> QED
        BY <2>1, <2>2 DEF SlotsApart
<1> QED
    BY <1>3, <1>4, <1>5 DEF PodInv

(* A job that has no file in its hands may move without touching the episodes and files. *)
LEMMA QuietStep ==
    ASSUME PodInv, NEW w \in PodWorkers, PodTyped', Locks(w), Within({}), Grows, JobOk(w)',
           podJob[w].at \notin {"record", "link", "purge", "clean"},
           \A i \in PodIds : RowStays(i) /\ EtagHolds(i)'
    PROVE  PodInv'
<1> DEFINE own == podJob[w].own
<1>1. JobShape(w) /\ own \subseteq PodIds
    BY DEF PodInv, JobOk, JobShape, PodTyped
<1>2. \A p \in Paths : p # podJob[w].file /\ p \notin podJob[w].paths
    BY <1>1, PodAssumption DEF JobShape
<1>3. podPast \subseteq podPast' /\ \A v \in PodWorkers : v # w => podJob'[v] = podJob[v]
    BY DEF Grows, Locks, PodInv, PodTyped
<1>4. \A i \in own : RowOk(i)'
    <2> SUFFICES ASSUME NEW i \in PodIds PROVE RowOk(i)'
        BY <1>1
    <2> DEFINE O == {}
    <2>1. Within(O) /\ i \notin O
        OBVIOUS
    <2> HIDE DEF O
    <2> QED
        BY <1>2, <1>3, <2>1, PodcastStays
<1>5. Within(own)
    BY DEF Within
<1> QED
    BY <1>4, <1>5, WorkerStep

(* The same where the rows stay as well.                                   *)
LEMMA RestStays ==
    ASSUME PodInv, UNCHANGED <<podStore, podDisk, podPast>>
    PROVE  Grows /\ Within({}) /\ \A i \in PodIds : RowStays(i) /\ EtagHolds(i)'
<1>1. \A i \in PodIds : EtagHolds(i)
    BY DEF PodInv, RowOk
<1>2. Subscribed' = Subscribed
    BY DEF Subscribed, podStore
<1> QED
    BY <1>1, <1>2 DEF Grows, Within, RowStays, EtagHolds, Covered, podStore

LEMMA MoveStep ==
    ASSUME PodInv, NEW w \in PodWorkers, Locks(w), UNCHANGED <<podServer, podStore, podWorld, podPast>>, JobOk(w)',
           podJob[w].at \notin {"record", "link", "purge", "clean"}
    PROVE  PodInv'
<1>1. UNCHANGED <<podStore, podDisk, podPast>>
    BY DEF podWorld
<1>2. PodTyped'
    BY DEF PodInv, PodTyped, Locks, podStore, podWorld
<1> QED
    BY <1>1, <1>2, RestStays, QuietStep

LEMMA LeaveRests ==
    ASSUME PodInv, NEW w \in PodWorkers, Leave(w)
    PROVE  Locks(w) /\ podJob'[w] = Resting /\ JobOk(w)'
<1> USE PodAssumption
<1>1. podJob'[w] = Resting /\ podJob' = [podJob EXCEPT ![w] = podJob'[w]]
    BY DEF Leave, PodInv, PodTyped
<1>2. Resting.at = "idle" /\ Resting.own = {} /\ Resting.paths = {} /\ Resting.file = PodNone /\ Resting.subscriber = FALSE
    BY DEF Resting
<1>3. podGate' # w /\ podGate' \in PodWorkers \cup {PodNone} /\ podSlot' \subseteq PodIds
    BY DEF Leave, PodInv, PodTyped
<1>4. JobShape(w)'
    BY <1>1, <1>2, <1>3, Zenon DEF JobShape, IsJob, Subscribing, Working, Fetching, Downloading, Retaining, Resting
<1>5. JobWork(w)' /\ Fresh(w)'
    BY <1>1, <1>2 DEF JobWork, Fresh, Subscribing, Working, Fetching, Downloading, Retaining
<1>6. Locks(w)
    BY <1>1, <1>2, <1>3 DEF Leave, Locks
<1> QED
    BY <1>1, <1>4, <1>5, <1>6 DEF JobOk

-----------------------------------------------------------------------------
(* The steps that leave the episodes and the files alone.                  *)

LEMMA WorkIsIdle ==
    ASSUME NEW w \in PodWorkers, podJob'[w].at \in {"idle", "insert", "own", "delete", "pending", "retain"} \cup Fetching
    PROVE  JobWork(w)'
BY DEF JobWork, Fetching, Downloading, Retaining

LEMMA OwnShape ==
    ASSUME NEW w \in PodWorkers, NEW k, podJob'[w] = k, IsJob(k), k.at = "own", k.own = {}, k.paths = {}, k.file = PodNone,
           k.id \in PodIds, k.row \in PodRows, k.ver \in 0..PodEpisodes,
           \/ k.subscriber = TRUE /\ podGate' = w /\ k.ver \in Guids
           \/ k.subscriber = FALSE /\ podGate' # w /\ k.ver \notin Guids
    PROVE  JobShape(w)'
<1>1. k.subscriber \in BOOLEAN /\ (podGate' = w <=> k.subscriber) /\ (k.ver \in Guids <=> k.subscriber)
    OBVIOUS
<1>2. /\ k.at \in Subscribing /\ k.at \notin Working /\ k.at \notin {"record", "link", "purge"} /\ k.at # "clean" /\ k.at # "insert"
      /\ k.at # "fetch" /\ k.at # "cover" /\ k.at # "upsert"
    BY DEF Subscribing, Working, Fetching, Downloading, Retaining
<1> QED
    BY <1>1, <1>2, Zenon DEF JobShape

LEMMA WorkShape ==
    ASSUME NEW w \in PodWorkers, NEW k, podJob'[w] = k, IsJob(k), k.at \in Working, k.own = {k.id}, k.own \subseteq podSlot',
           k.id \in PodIds, k.row \in PodRows, k.ver \in 0..PodEpisodes, k.paths = {}, k.subscriber \in BOOLEAN, podGate' # w,
           k.at \notin {"record", "link", "purge"} => k.file = PodNone,
           k.at = "fetch" => k.next = 1 /\ k.ver = 0, k.at = "cover" => k.next = 1 /\ k.ver \in Guids,
           k.at = "upsert" => k.ver \in Guids /\ k.next \in 1..(k.ver + 1)
    PROVE  JobShape(w)'
<1>1. /\ k.at \in Subscribing /\ k.at \notin {"idle", "insert", "own"} /\ k.at # "clean" /\ k.at # "insert" /\ k.at # "own"
      /\ k.at \notin {"own", "delete", "clean"}
    BY DEF Subscribing, Working, Fetching, Downloading, Retaining
<1> QED
    BY <1>1, Zenon DEF JobShape

(* A job that goes on with its podcast is as fresh as it was. *)
LEMMA FreshStays ==
    ASSUME PodInv, NEW w \in PodWorkers, NEW j, podJob[w] = j, NEW k, podJob'[w] = k, j.at \in Subscribing, k.at \in Subscribing,
           k.id = j.id, k.row = j.row, Grows,
           "gone" \notin podPast' /\ k.at = "upsert" => Covered(k.id, k.next - 1)',
           "gone" \notin podPast' /\ k.at \in {"pending", "retain"} \cup Downloading \cup Retaining => Covered(k.id, k.ver)'
    PROVE  Fresh(w)'
<1> SUFFICES ASSUME "gone" \notin podPast' PROVE Fresh(w)'
    BY DEF Fresh
<1>1. JobShape(w) /\ Fresh(w) /\ "gone" \notin podPast
    BY DEF PodInv, JobOk, Grows
<1>2. /\ j.id \in Subscribed /\ Covered(j.id, j.row.etag) /\ ("patch" \in podPast \/ podRow[j.id].max = j.row.max)
      /\ j.row \in PodRows
    BY <1>1 DEF Fresh, JobShape
<1>3. j.id \in Subscribed' /\ ("patch" \in podPast' \/ podRow'[j.id].max = j.row.max)
    BY <1>2 DEF Grows
<1>4. Covered(j.id, j.row.etag)'
    BY <1>2, PodAssumption DEF Grows, Covered, PodRows, Guids
<1> QED
    BY <1>3, <1>4 DEF Fresh

LEMMA CoveredStays ==
    ASSUME Grows, "gone" \notin podPast', NEW i \in Subscribed, NEW n \in 0..PodEpisodes, Covered(i, n)
    PROVE  Covered(i, n)'
BY PodAssumption DEF Grows, Covered, Guids

LEMMA SubscribeKeeps ==
    ASSUME PodInv, NEW w \in PodWorkers, NEW f \in PodFeeds, SubscribeFeed(w, f)
    PROVE  PodInv'
<1> DEFINE k == podJob'[w]
<1> USE PodAssumption
<1>1. podJob[w].at = "idle" /\ JobShape(w) /\ podServer[f] \in Guids /\ UNCHANGED <<podServer, podStore, podWorld, podLocks, podPast>>
    BY DEF SubscribeFeed, PodInv, PodTyped, JobOk
<1>2. PICK keep \in PodKeeps, auto \in BOOLEAN :
          podJob' = [podJob EXCEPT ![w] = [Resting EXCEPT !.at = "insert", !.ver = podServer[f], !.subscriber = TRUE,
             !.row = [feed |-> f, etag |-> 0, cover |-> FALSE, auto |-> auto, max |-> keep]]]
    BY DEF SubscribeFeed
<1>3. /\ k.at = "insert" /\ k.ver = podServer[f] /\ k.subscriber = TRUE /\ k.own = {} /\ k.paths = {} /\ k.file = PodNone
      /\ k.row = [feed |-> f, etag |-> 0, cover |-> FALSE, auto |-> auto, max |-> keep]
      /\ podJob' = [podJob EXCEPT ![w] = k] /\ IsJob(k)
    BY <1>2 DEF PodInv, PodTyped, Resting, IsJob
<1>4. k.row \in PodRows /\ k.row.etag = 0
    BY <1>3 DEF PodRows
<1> HIDE DEF k
<1>5. JobShape(w)' /\ Fresh(w)'
    BY <1>1, <1>3, <1>4 DEF k, JobShape, Fresh, Subscribing, Working, Fetching, Downloading, Retaining, podLocks
<1>7. JobOk(w)'
    BY <1>3, <1>5, WorkIsIdle DEF k, JobOk
<1>6. Locks(w)
    BY <1>1, <1>3 DEF k, Locks, podLocks, PodInv, PodTyped
<1> QED
    BY <1>1, <1>6, <1>7, MoveStep

LEMMA NextIdIsFree ==
    ASSUME PodInv, NextId \in PodIds
    PROVE  NextId \notin Subscribed
<1> DEFINE S == Subscribed
<1>1. S \in SUBSET Nat /\ \A x \in S : x <= PodMaxId
    BY PodAssumption DEF Subscribed, PodIds
<1> HIDE DEF S
<1>2. CASE S = {}
    BY <1>2 DEF S
<1>3. CASE S # {}
    <2>1. Max(S) \in S /\ \A x \in S : x <= Max(S)
        BY <1>1, <1>3, PodAssumption, MaxIsLargest
    <2>2. Max(S) \in Nat /\ NextId = 1 + Max(S)
        BY <1>1, <1>3, <2>1 DEF NextId, S
    <2>3. NextId \notin S
        BY <2>1, <2>2
    <2> QED
        BY <2>3 DEF S
<1> QED
    BY <1>2, <1>3

LEMMA AddKeeps ==
    ASSUME PodInv, NEW w \in PodWorkers, AddPodcast(w)
    PROVE  PodInv'
<1> DEFINE j == podJob[w]
           k == podJob'[w]
           n == NextId
<1> USE PodAssumption
<1>1. j.at = "insert" /\ podGate = PodNone /\ JobShape(w) /\ UNCHANGED <<podServer, podEp, podFile, podWorld, podPast>>
    BY DEF AddPodcast, PodInv, JobOk
<1>2. CASE Leave(w) /\ UNCHANGED podRow
    <2>1. UNCHANGED <<podServer, podStore, podWorld, podPast>>
        BY <1>1, <1>2 DEF podStore
    <2> QED
        BY <1>1, <1>2, <2>1, LeaveRests, MoveStep
<1>3. CASE /\ n \in PodIds /\ podRow' = [podRow EXCEPT ![n] = podJob[w].row]
           /\ podJob' = [podJob EXCEPT ![w].at = "own", ![w].id = n] /\ podGate' = w /\ UNCHANGED podSlot
    <2>1. n \notin Subscribed
        BY <1>3, NextIdIsFree
    <2> HIDE DEF n
    <2>2. /\ k.at = "own" /\ k.id = n /\ k.row = j.row /\ k.ver = j.ver /\ k.file = j.file /\ k.own = j.own /\ k.paths = j.paths
          /\ k.subscriber = j.subscriber /\ podJob' = [podJob EXCEPT ![w] = k] /\ IsJob(k)
        BY <1>1, <1>3 DEF PodInv, PodTyped, JobShape, IsJob
    <2> HIDE DEF j, k
    <2>3. /\ j.row \in PodRows /\ j.row.etag = 0 /\ j.row # PodNone /\ podRow' \in [PodIds -> PodRows \cup {PodNone}]
          /\ podRow'[n] = j.row /\ \A i \in PodIds \ {n} : podRow'[i] = podRow[i]
        BY <1>1, <1>3 DEF j, JobShape, PodInv, PodTyped
    <2>4. Subscribed' = Subscribed \cup {n}
        BY <1>3, <2>3 DEF Subscribed
    <2>5. Locks(w)
        BY <1>1, <1>3, <2>2 DEF j, k, Locks, JobShape, PodInv, PodTyped
    <2>6. JobShape(w)'
        <3>1. /\ j.subscriber = TRUE /\ j.own = {} /\ j.paths = {} /\ j.file = PodNone /\ j.ver \in Guids
            BY <1>1 DEF j, JobShape
        <3>2. j.ver \in 0..PodEpisodes
            BY <3>1 DEF Guids
        <3> QED
            BY <1>3, <2>2, <2>3, <3>1, <3>2, OwnShape DEF k
    <2>7. Fresh(w)'
        <3>1. k.at \in Subscribing /\ k.at # "upsert" /\ k.at \notin {"pending", "retain"} \cup Downloading \cup Retaining
            BY <2>2 DEF Subscribing, Downloading, Retaining
        <3>2. n \in Subscribed' /\ podRow'[n].max = k.row.max
            BY <2>2, <2>3, <2>4
        <3>3. \A g \in 1..k.row.etag : podEp'[k.id][g].at # "absent"
            BY <2>2, <2>3
        <3> QED
            BY <2>2, <3>1, <3>2, <3>3 DEF k, Fresh, Covered
    <2>8. Grows /\ Within({})
        BY <1>1, <2>1, <2>3, <2>4 DEF Grows, Within, Subscribed, podWorld
    <2>9. ASSUME NEW i \in PodIds PROVE RowStays(i) /\ EtagHolds(i)'
        <3>1. RowStays(i)
            BY <2>1, <2>3, <2>4 DEF RowStays
        <3>2. EtagHolds(i)
            BY DEF PodInv, RowOk
        <3>3. EtagHolds(i)'
            BY <1>1, <2>3, <2>4, <3>2 DEF EtagHolds, Covered
        <3> QED
            BY <3>1, <3>3
    <2>10. PodTyped'
        BY <1>1, <1>3, <2>2, <2>3 DEF PodInv, PodTyped, podWorld
    <2>11. podJob[w].at \notin {"record", "link", "purge", "clean"}
        BY <1>1 DEF j
    <2>12. JobWork(w)'
        BY <2>2, WorkIsIdle DEF k
    <2> QED
        BY <2>5, <2>6, <2>7, <2>8, <2>9, <2>10, <2>11, <2>12, QuietStep DEF JobOk
<1> QED
    BY <1>1, <1>2, <1>3 DEF AddPodcast

LEMMA SnapshotKeeps ==
    ASSUME PodInv, NEW w \in PodWorkers, NEW i \in PodIds, Snapshot(w, i)
    PROVE  PodInv'
<1> DEFINE k == podJob'[w]
<1> USE PodAssumption
<1>1. /\ podJob[w].at = "idle" /\ i \in Subscribed /\ JobShape(w) /\ EtagHolds(i)
      /\ UNCHANGED <<podServer, podStore, podWorld, podLocks, podPast>>
    BY DEF Snapshot, PodInv, JobOk, RowOk
<1>2. /\ k.at = "own" /\ k.id = i /\ k.row = podRow[i] /\ k.ver = 0 /\ k.subscriber = FALSE /\ k.own = {} /\ k.paths = {}
      /\ k.file = PodNone /\ podJob' = [podJob EXCEPT ![w] = k] /\ IsJob(k)
    BY DEF Snapshot, PodInv, PodTyped, Resting, IsJob
<1>3. k.row \in PodRows /\ 0 \notin Guids /\ 0 \in 0..PodEpisodes /\ podGate # w
    BY <1>1, <1>2 DEF PodInv, PodTyped, Subscribed, Guids, JobShape
<1> HIDE DEF k
<1>4. JobShape(w)'
    BY <1>1, <1>2, <1>3, OwnShape DEF k, podLocks
<1>5. Fresh(w)'
    BY <1>1, <1>2 DEF k, Fresh, EtagHolds, Covered, Subscribed, Subscribing, Working, Fetching, Downloading, Retaining, podStore
<1>6. Locks(w)
    BY <1>1, <1>2 DEF k, Locks, podLocks, PodInv, PodTyped
<1>7. JobWork(w)'
    BY <1>2, WorkIsIdle DEF k
<1> QED
    BY <1>1, <1>4, <1>5, <1>6, <1>7, MoveStep DEF JobOk

LEMMA AcquireKeeps ==
    ASSUME PodInv, NEW w \in PodWorkers, AcquireSlot(w)
    PROVE  PodInv'
<1> DEFINE j == podJob[w]
           k == podJob'[w]
<1> USE PodAssumption
<1>1. j.at = "own" /\ JobShape(w) /\ Fresh(w) /\ UNCHANGED <<podServer, podStore, podWorld, podPast>>
    BY DEF AcquireSlot, PodInv, JobOk
<1>2. CASE Leave(w)
    BY <1>1, <1>2, LeaveRests, MoveStep
<1>3. CASE /\ j.id \notin podSlot /\ podSlot' = podSlot \cup {j.id} /\ podGate' = IF podGate = w THEN PodNone ELSE podGate
           /\ podJob' = [podJob EXCEPT ![w].own = {podJob[w].id}, ![w].at = IF podGate = w THEN "cover" ELSE "fetch",
                                       ![w].next = 1]
    <2>1. /\ k.at = (IF podGate = w THEN "cover" ELSE "fetch") /\ k.id = j.id /\ k.row = j.row /\ k.ver = j.ver /\ k.file = j.file
          /\ k.own = {j.id} /\ k.paths = j.paths /\ k.next = 1 /\ k.subscriber = j.subscriber
          /\ podJob' = [podJob EXCEPT ![w] = k] /\ IsJob(k)
        BY <1>1, <1>3 DEF PodInv, PodTyped, JobShape, IsJob
    <2>2. /\ j.own = {} /\ j.id \in PodIds /\ j.row \in PodRows /\ j.ver \in 0..PodEpisodes /\ (podGate = w <=> j.ver \in Guids)
          /\ j.paths = {} /\ j.file = PodNone /\ j.subscriber \in BOOLEAN
        BY <1>1 DEF JobShape, Subscribing
    <2>3. podGate # w => j.ver = 0
        BY <2>2 DEF Guids
    <2>4. podGate' # w /\ podGate' \in PodWorkers \cup {PodNone} /\ \A v \in PodWorkers \ {w} : podGate' = v <=> podGate = v
        BY <1>3 DEF PodInv, PodTyped
    <2> HIDE DEF j, k
    <2>5. Locks(w)
        BY <1>3, <2>1, <2>2, <2>4 DEF j, k, Locks, PodInv, PodTyped
    <2>10. /\ k.at \in Working /\ k.at \in Subscribing /\ k.at # "upsert" /\ k.at \notin {"pending", "retain"} \cup Downloading \cup Retaining
           /\ (k.at = "fetch" => k.ver = 0) /\ (k.at = "cover" => k.ver \in Guids)
        BY <2>1, <2>2, <2>3 DEF Subscribing, Working, Fetching, Downloading, Retaining
    <2>6. JobShape(w)'
        BY <1>3, <2>1, <2>2, <2>4, <2>10, WorkShape DEF k
    <2>11. Grows
        BY <1>1, RestStays DEF podWorld
    <2>7. Fresh(w)'
        BY <1>1, <2>1, <2>10, <2>11, FreshStays DEF j, k, Subscribing
    <2>8. podJob[w].at \notin {"record", "link", "purge", "clean"}
        BY <1>1 DEF j
    <2>9. JobWork(w)'
        BY <2>1, WorkIsIdle DEF k, Fetching
    <2> QED
        BY <1>1, <2>5, <2>6, <2>7, <2>8, <2>9, MoveStep DEF JobOk
<1> QED
    BY <1>2, <1>3 DEF AcquireSlot

LEMMA GoingOn ==
    ASSUME PodInv, NEW w \in PodWorkers, NEW j, podJob[w] = j, NEW k, podJob'[w] = k, podJob' = [podJob EXCEPT ![w] = k],
           UNCHANGED podLocks, j.at \in Working, IsJob(k), k.at \in Working, k.id = j.id, k.row = j.row, k.own = j.own,
           k.paths = j.paths, k.subscriber = j.subscriber, k.ver \in 0..PodEpisodes,
           k.at \notin {"record", "link", "purge"} => k.file = PodNone,
           k.at = "fetch" => k.next = 1 /\ k.ver = 0, k.at = "cover" => k.next = 1 /\ k.ver \in Guids,
           k.at = "upsert" => k.ver \in Guids /\ k.next \in 1..(k.ver + 1)
    PROVE  Locks(w) /\ JobShape(w)'
<1>1. JobShape(w) /\ podGate \in PodWorkers \cup {PodNone} /\ podSlot \subseteq PodIds
    BY DEF PodInv, JobOk, PodTyped
<1>2. j.at \notin {"own", "delete", "clean"} /\ j.at \in Subscribing /\ j.at # "clean"
    BY DEF Subscribing, Working, Fetching, Downloading, Retaining
<1>3. /\ podGate # w /\ j.own = {j.id} /\ j.own \subseteq podSlot /\ j.id \in PodIds /\ j.row \in PodRows /\ j.paths = {}
      /\ j.subscriber \in BOOLEAN
    BY <1>1, <1>2, Zenon DEF JobShape
<1>4. Locks(w)
    BY <1>1, <1>3 DEF Locks, podLocks
<1>5. podSlot' = podSlot /\ podGate' = podGate
    BY DEF podLocks
<1>6. k.own = {k.id} /\ k.own \subseteq podSlot' /\ k.id \in PodIds /\ k.row \in PodRows /\ k.paths = {} /\ k.subscriber \in BOOLEAN /\ podGate' # w
    BY <1>3, <1>5
<1>7. JobShape(w)'
    BY <1>6, WorkShape
<1> QED
    BY <1>4, <1>7

(* A validator is written into the row if the podcast is there, and covers what it says. *)
LEMMA EtagKeeps ==
    ASSUME PodInv, NEW i \in PodIds, NEW n \in 0..PodEpisodes, SaveEtag(i, n) \/ UNCHANGED podRow,
           UNCHANGED <<podEp, podFile, podDisk, podPast>>, "gone" \notin podPast => Covered(i, n)
    PROVE  /\ podRow' \in [PodIds -> PodRows \cup {PodNone}] /\ Grows /\ Within({})
           /\ \A h \in PodIds : RowStays(h) /\ EtagHolds(h)'
<1> USE PodAssumption
<1>1. podRow \in [PodIds -> PodRows \cup {PodNone}]
    BY DEF PodInv, PodTyped
<1>2. UNCHANGED podRow \/ (podRow[i] \in PodRows /\ podRow' = [podRow EXCEPT ![i].etag = n])
    BY <1>1 DEF SaveEtag
<1>3. /\ podRow' \in [PodIds -> PodRows \cup {PodNone}]
      /\ \A h \in PodIds : podRow'[h] # PodNone <=> podRow[h] # PodNone
      /\ \A h \in PodIds : podRow[h] # PodNone => podRow'[h].max = podRow[h].max /\ podRow'[h].etag \in {podRow[h].etag, IF h = i THEN n ELSE podRow[h].etag}
    BY <1>1, <1>2 DEF PodRows
<1>4. Subscribed' = Subscribed
    BY <1>3 DEF Subscribed
<1>5. Grows /\ Within({}) /\ \A h \in PodIds : RowStays(h)
    BY <1>3, <1>4 DEF Grows, Within, RowStays, Subscribed
<1>6. ASSUME NEW h \in PodIds PROVE EtagHolds(h)'
    <2>1. EtagHolds(h)
        BY DEF PodInv, RowOk
    <2> QED
        BY <1>3, <1>4, <2>1 DEF EtagHolds, Covered, Subscribed
<1> QED
    BY <1>3, <1>5, <1>6

LEMMA RefreshKeeps ==
    ASSUME PodInv, NEW w \in PodWorkers, Refresh(w)
    PROVE  PodInv'
<1> DEFINE j == podJob[w]
           k == podJob'[w]
<1> USE PodAssumption
<1>1. /\ podJob[w] = j /\ podJob'[w] = k /\ j.at = "fetch" /\ j.at \notin {"record", "link", "purge", "clean"}
      /\ JobShape(w) /\ Fresh(w) /\ UNCHANGED <<podServer, podEp, podFile, podWorld, podPast>>
    BY DEF Refresh, PodInv, JobOk
<1>2. j.at \in Working /\ j.at \in Subscribing
    BY <1>1 DEF Subscribing, Working, Fetching
<1>3. /\ j.id \in PodIds /\ j.row \in PodRows /\ j.next = 1 /\ j.ver = 0 /\ j.ver \in 0..PodEpisodes /\ j.file = PodNone
      /\ podServer[j.row.feed] \in Guids
    BY <1>1, <1>2 DEF JobShape, PodInv, PodTyped, PodRows
<1>4. CASE SaveEtag(j.id, j.row.etag) /\ Leave(w)
    <2>1. j.row.etag \in 0..PodEpisodes /\ ("gone" \notin podPast => Covered(j.id, j.row.etag))
        BY <1>1, <1>2, <1>3 DEF Fresh, PodRows
    <2>2. UNCHANGED <<podEp, podFile, podDisk, podPast>>
        BY <1>1 DEF podWorld
    <2> HIDE DEF j, k
    <2>3. /\ podRow' \in [PodIds -> PodRows \cup {PodNone}] /\ Grows /\ Within({})
          /\ \A h \in PodIds : RowStays(h) /\ EtagHolds(h)'
        BY <1>3, <1>4, <2>1, <2>2, EtagKeeps
    <2>4. Locks(w) /\ JobOk(w)'
        BY <1>4, LeaveRests
    <2>5. PodTyped'
        BY <1>1, <2>3, <2>4 DEF PodInv, PodTyped, podWorld, Locks
    <2> QED
        BY <1>1, <2>3, <2>4, <2>5, QuietStep
<1>5. CASE /\ k.at \in {"pending", "retain"} /\ k.ver = j.ver /\ k.id = j.id /\ k.row = j.row /\ k.own = j.own /\ k.paths = j.paths
           /\ k.subscriber = j.subscriber /\ k.file = j.file /\ podJob' = [podJob EXCEPT ![w] = k] /\ IsJob(k)
           /\ UNCHANGED <<podRow, podLocks>>
    <2>1. k.at \in Working /\ k.at \notin {"fetch", "cover", "upsert"} /\ k.at \in Subscribing
        BY <1>5 DEF Subscribing, Working
    <2>2. UNCHANGED <<podServer, podStore, podWorld, podPast>> /\ UNCHANGED podLocks
        BY <1>1, <1>5 DEF podStore
    <2> HIDE DEF j, k
    <2>3. Locks(w) /\ JobShape(w)'
        BY <1>1, <1>2, <1>3, <1>5, <2>1, <2>2, GoingOn
    <2>4. JobWork(w)'
        BY <1>1, <1>5, WorkIsIdle
    <2>5. Grows /\ \A g \in 1..k.ver : podEp'[k.id][g].at # "absent"
        BY <1>3, <1>5, <2>2, RestStays DEF podWorld
    <2>6. Fresh(w)'
        BY <1>1, <1>2, <1>5, <2>1, <2>5, FreshStays DEF Covered
    <2> QED
        BY <1>1, <2>2, <2>3, <2>4, <2>6, MoveStep DEF JobOk
<1>6. CASE /\ k.at = "cover" /\ k.ver = podServer[j.row.feed] /\ k.next = j.next /\ k.id = j.id /\ k.row = j.row /\ k.own = j.own
           /\ k.paths = j.paths /\ k.subscriber = j.subscriber /\ k.file = j.file /\ podJob' = [podJob EXCEPT ![w] = k] /\ IsJob(k)
           /\ UNCHANGED <<podRow, podLocks>>
    <2>1. k.at \in Working /\ k.at \in Subscribing /\ k.at # "upsert" /\ k.at \notin {"pending", "retain"} \cup Downloading \cup Retaining
        BY <1>6 DEF Subscribing, Working, Fetching, Downloading, Retaining
    <2>2. UNCHANGED <<podServer, podStore, podWorld, podPast>> /\ UNCHANGED podLocks /\ k.ver \in 0..PodEpisodes /\ k.ver \in Guids
        BY <1>1, <1>3, <1>6 DEF podStore, Guids
    <2> HIDE DEF j, k
    <2>3. Locks(w) /\ JobShape(w)'
        BY <1>1, <1>2, <1>3, <1>6, <2>1, <2>2, GoingOn
    <2>4. JobWork(w)'
        BY <1>1, <1>6, WorkIsIdle DEF Fetching
    <2>5. Grows
        BY <2>2, RestStays DEF podWorld
    <2>6. Fresh(w)'
        BY <1>1, <1>2, <1>6, <2>1, <2>5, FreshStays
    <2> QED
        BY <1>1, <2>2, <2>3, <2>4, <2>6, MoveStep DEF JobOk
<1>7. CASE Goto(w, IF j.row.auto THEN "pending" ELSE "retain") /\ UNCHANGED <<podRow, podLocks>>
    BY <1>1, <1>5, <1>7 DEF Goto, PodInv, PodTyped, JobShape, IsJob
<1>8. CASE podJob' = [podJob EXCEPT ![w].at = "cover", ![w].ver = podServer[j.row.feed]] /\ UNCHANGED <<podRow, podLocks>>
    BY <1>1, <1>6, <1>8 DEF PodInv, PodTyped, JobShape, IsJob
<1> QED
    BY <1>4, <1>7, <1>8 DEF Refresh

LEMMA GoOnStep ==
    ASSUME PodInv, NEW w \in PodWorkers, NEW j, podJob[w] = j, NEW k, podJob'[w] = k, podJob' = [podJob EXCEPT ![w] = k],
           UNCHANGED <<podServer, podStore, podWorld, podPast>>, UNCHANGED podLocks,
           j.at \in Working, j.at \notin {"record", "link", "purge"}, IsJob(k), k.at \in Working, k.at \notin {"fetch", "cover", "upsert"},
           k.id = j.id, k.row = j.row, k.own = j.own, k.paths = j.paths, k.subscriber = j.subscriber, k.ver = j.ver,
           k.at \notin {"record", "link", "purge"} => k.file = PodNone, JobWork(w)',
           "gone" \notin podPast => Covered(j.id, j.ver)
    PROVE  PodInv'
<1>1. JobShape(w) /\ Fresh(w) /\ podEp' = podEp
    BY DEF PodInv, JobOk, podStore
<1>2. j.at \in Subscribing /\ k.at \in Subscribing /\ j.at # "clean" /\ k.at # "upsert"
    BY DEF Subscribing, Working, Fetching, Downloading, Retaining
<1>3. j.ver \in 0..PodEpisodes
    BY <1>1, <1>2 DEF JobShape
<1>4. Locks(w) /\ JobShape(w)'
    BY <1>3, GoingOn
<1>5. Grows /\ podPast' = podPast
    BY RestStays DEF podWorld
<1>6. "gone" \notin podPast' => Covered(k.id, k.ver)'
    BY <1>1, <1>5 DEF Covered
<1>7. Fresh(w)'
    BY <1>2, <1>5, <1>6, FreshStays
<1> QED
    BY <1>2, <1>4, <1>7, MoveStep DEF JobOk

LEMMA UpsertedKeeps ==
    ASSUME PodInv, NEW w \in PodWorkers, Upserted(w)
    PROVE  PodInv'
<1> DEFINE j == podJob[w]
           k == podJob'[w]
<1>1. /\ podJob[w] = j /\ podJob'[w] = k /\ j.at = "upsert" /\ j.at \notin {"record", "link", "purge"} /\ j.next > j.ver
      /\ JobShape(w) /\ Fresh(w) /\ UNCHANGED <<podServer, podStore, podWorld, podPast>> /\ UNCHANGED podLocks
    BY DEF Upserted, PodInv, JobOk
<1>2. /\ k.at \in {"pending", "retain"} /\ k.ver = j.ver /\ k.id = j.id /\ k.row = j.row /\ k.own = j.own /\ k.paths = j.paths
      /\ k.subscriber = j.subscriber /\ k.file = j.file /\ podJob' = [podJob EXCEPT ![w] = k] /\ IsJob(k)
    BY <1>1 DEF Upserted, Goto, PodInv, PodTyped, JobShape, IsJob
<1>3. j.at \in Working /\ k.at \in Working /\ k.at \notin {"fetch", "cover", "upsert"}
    BY <1>1, <1>2 DEF Working, Fetching
<1>4. j.ver \in Guids /\ j.next \in 1..(j.ver + 1) /\ j.file = PodNone
    BY <1>1 DEF JobShape
<1>5. j.next - 1 = j.ver
    BY <1>1, <1>4, PodAssumption DEF Guids
<1>6. "gone" \notin podPast => Covered(j.id, j.ver)
    BY <1>1, <1>5 DEF Fresh
<1> HIDE DEF j, k
<1>7. JobWork(w)'
    BY <1>1, <1>2, WorkIsIdle
<1> QED
    BY <1>1, <1>2, <1>3, <1>4, <1>6, <1>7, GoOnStep

LEMMA DownloadWork ==
    ASSUME NEW w \in PodWorkers, NEW k, podJob'[w] = k, k.at = "download", k.next \in Nat,
           \A g \in k.left : g \in Guids /\ podEp'[k.id][g].at = "pending"
    PROVE  JobWork(w)'
BY DEF JobWork, Retaining, Pending

LEMMA RemoveWork ==
    ASSUME NEW w \in PodWorkers, NEW k, podJob'[w] = k, k.at = "remove",
           NEW S, S = {g \in Guids : podEp'[k.id][g].at = "kept"}, Earliest(k.left, S, k.row.max)
    PROVE  JobWork(w)'
BY DEF JobWork, Downloading, Kept

LEMMA LatePlace ==
    ASSUME PodInv, NEW w \in PodWorkers, podJob[w].at \in {"pending", "retain"} \cup Downloading \cup Retaining
    PROVE  LET j == podJob[w] IN
           /\ JobShape(w) /\ JobWork(w) /\ Fresh(w) /\ j.at \in Working /\ j.at \in Subscribing /\ j.id \in PodIds /\ j.row \in PodRows
           /\ j.ver \in 0..PodEpisodes /\ j.row.max \in Nat \ {0} /\ j.row.etag \in 0..PodEpisodes /\ j.own = {j.id} /\ j.paths = {}
           /\ "gone" \notin podPast => Covered(j.id, j.ver)
           /\ j.at \notin {"record", "link", "purge"} => j.file = PodNone
<1> DEFINE j == podJob[w]
<1>1. JobShape(w) /\ JobWork(w) /\ Fresh(w)
    BY DEF PodInv, JobOk
<1>2. j.at \in Working /\ j.at \in Subscribing /\ j.at # "clean"
    BY DEF Subscribing, Working, Downloading, Retaining
<1>3. j.id \in PodIds /\ j.row \in PodRows /\ j.ver \in 0..PodEpisodes /\ j.own = {j.id} /\ j.paths = {} /\ (j.at \notin {"record", "link", "purge"} => j.file = PodNone)
    BY <1>1, <1>2 DEF JobShape
<1>4. j.row.max \in Nat \ {0} /\ j.row.etag \in 0..PodEpisodes
    BY <1>3, PodAssumption DEF PodRows
<1>5. "gone" \notin podPast => Covered(j.id, j.ver)
    BY <1>1 DEF Fresh
<1> QED
    BY <1>1, <1>2, <1>3, <1>4, <1>5

LEMMA ListPendingKeeps ==
    ASSUME PodInv, NEW w \in PodWorkers, ListPending(w)
    PROVE  PodInv'
<1> DEFINE j == podJob[w]
           k == podJob'[w]
<1>1. /\ podJob[w] = j /\ podJob'[w] = k /\ j.at = "pending" /\ j.at \notin {"record", "link", "purge"}
      /\ UNCHANGED <<podServer, podStore, podWorld, podPast>> /\ UNCHANGED podLocks
    BY DEF ListPending
<1>2. /\ JobShape(w) /\ j.at \in Working /\ j.row.max \in Nat \ {0} /\ j.file = PodNone
      /\ "gone" \notin podPast => Covered(j.id, j.ver)
    BY <1>1, LatePlace
<1>3. /\ k.at = "download" /\ k.ver = j.ver /\ k.id = j.id /\ k.row = j.row /\ k.own = j.own /\ k.paths = j.paths
      /\ k.subscriber = j.subscriber /\ k.file = j.file /\ podJob' = [podJob EXCEPT ![w] = k] /\ IsJob(k)
      /\ k.left = Pending(j.id) /\ k.next = j.row.max
    BY <1>1, <1>2 DEF ListPending, PodInv, PodTyped, JobShape, IsJob
<1>4. k.at \in Working /\ k.at \notin {"fetch", "cover", "upsert"}
    BY <1>3 DEF Working, Downloading
<1>5. \A g \in k.left : g \in Guids /\ podEp'[k.id][g].at = "pending"
    BY <1>1, <1>3 DEF Pending, podStore
<1> HIDE DEF j, k
<1>6. JobWork(w)'
    BY <1>1, <1>2, <1>3, <1>5, DownloadWork
<1> QED
    BY <1>1, <1>2, <1>3, <1>4, <1>6, GoOnStep

LEMMA DownloadedKeeps ==
    ASSUME PodInv, NEW w \in PodWorkers, Downloaded(w)
    PROVE  PodInv'
<1> DEFINE j == podJob[w]
           k == podJob'[w]
<1>1. /\ podJob[w] = j /\ podJob'[w] = k /\ j.at = "download" /\ j.at \notin {"record", "link", "purge"} /\ j.at \in Downloading
      /\ UNCHANGED <<podServer, podStore, podWorld, podPast>> /\ UNCHANGED podLocks
    BY DEF Downloaded, Downloading
<1>2. /\ JobShape(w) /\ j.at \in Working /\ j.file = PodNone
      /\ "gone" \notin podPast => Covered(j.id, j.ver)
    BY <1>1, LatePlace
<1>3. /\ k.at = "retain" /\ k.ver = j.ver /\ k.id = j.id /\ k.row = j.row /\ k.own = j.own /\ k.paths = j.paths
      /\ k.subscriber = j.subscriber /\ k.file = j.file /\ podJob' = [podJob EXCEPT ![w] = k] /\ IsJob(k)
    BY <1>1, <1>2 DEF Downloaded, Goto, PodInv, PodTyped, JobShape, IsJob
<1>4. k.at \in Working /\ k.at \notin {"fetch", "cover", "upsert"}
    BY <1>3 DEF Working
<1> HIDE DEF j, k
<1>6. JobWork(w)'
    BY <1>1, <1>3, WorkIsIdle
<1> QED
    BY <1>1, <1>2, <1>3, <1>4, <1>6, GoOnStep

LEMMA PlanKeeps ==
    ASSUME PodInv, NEW w \in PodWorkers, PlanRetention(w)
    PROVE  PodInv'
<1> DEFINE j == podJob[w]
           k == podJob'[w]
           kept == Kept(j.id)
           left == kept \ NewestEpisodes(kept, j.row.max)
<1>1. /\ podJob[w] = j /\ podJob'[w] = k /\ j.at = "retain" /\ j.at \notin {"record", "link", "purge"}
      /\ UNCHANGED <<podServer, podStore, podWorld, podPast>> /\ UNCHANGED podLocks
    BY DEF PlanRetention
<1>2. /\ JobShape(w) /\ j.at \in Working /\ j.file = PodNone /\ j.id \in PodIds /\ j.row.max \in Nat \ {0}
      /\ "gone" \notin podPast => Covered(j.id, j.ver)
    BY <1>1, LatePlace
<1>3. /\ k.at = "remove" /\ k.ver = j.ver /\ k.id = j.id /\ k.row = j.row /\ k.own = j.own /\ k.paths = j.paths
      /\ k.subscriber = j.subscriber /\ k.file = j.file /\ podJob' = [podJob EXCEPT ![w] = k] /\ IsJob(k)
      /\ k.left = left
    BY <1>1, <1>2 DEF PlanRetention, PodInv, PodTyped, JobShape, IsJob
<1>4. k.at \in Working /\ k.at \notin {"fetch", "cover", "upsert"}
    BY <1>3 DEF Working, Retaining
<1>5. Earliest(left, kept, j.row.max)
    <2>1. kept \in SUBSET Guids
        BY <1>2, KeptAreEpisodes
    <2> HIDE DEF kept, j
    <2> QED
        BY <1>2, <2>1, RestIsOldest
<1>6. kept = {g \in Guids : podEp'[k.id][g].at = "kept"} /\ k.row.max = j.row.max
    BY <1>1, <1>3 DEF Kept, podStore
<1> HIDE DEF j, k, kept, left
<1>7. JobWork(w)'
    BY <1>1, <1>3, <1>5, <1>6, RemoveWork
<1> QED
    BY <1>1, <1>2, <1>3, <1>4, <1>7, GoOnStep

LEMMA JobFinishKeeps ==
    ASSUME PodInv, NEW w \in PodWorkers, FinishRefresh(w)
    PROVE  PodInv'
<1> DEFINE j == podJob[w]
           n == IF j.ver = 0 THEN j.row.etag ELSE j.ver
<1>1. /\ j.at = "remove" /\ j.at \in Retaining /\ podJob[w].at \notin {"record", "link", "purge", "clean"} /\ Leave(w)
      /\ UNCHANGED <<podServer, podEp, podFile, podWorld, podPast>> /\ (SaveEtag(j.id, n) \/ UNCHANGED podRow)
    BY DEF FinishRefresh, Retaining
<1>2. /\ j.id \in PodIds /\ n \in 0..PodEpisodes /\ Fresh(w) /\ j.at \in Subscribing
      /\ "gone" \notin podPast => Covered(j.id, j.ver)
    BY <1>1, LatePlace
<1>3. "gone" \notin podPast => Covered(j.id, n)
    BY <1>2 DEF Fresh
<1>4. UNCHANGED <<podEp, podFile, podDisk, podPast>>
    BY <1>1 DEF podWorld
<1> HIDE DEF j, n
<1>5. /\ podRow' \in [PodIds -> PodRows \cup {PodNone}] /\ Grows /\ Within({})
      /\ \A h \in PodIds : RowStays(h) /\ EtagHolds(h)'
    BY <1>1, <1>2, <1>3, <1>4, EtagKeeps
<1>6. Locks(w) /\ JobOk(w)'
    BY <1>1, LeaveRests
<1>7. PodTyped'
    BY <1>1, <1>5, <1>6 DEF PodInv, PodTyped, podWorld, Locks
<1> QED
    BY <1>1, <1>5, <1>6, <1>7, QuietStep

LEMMA CancelledKeeps ==
    ASSUME PodInv, NEW w \in PodWorkers, Cancelled(w)
    PROVE  PodInv'
<1>1. /\ podJob[w].at \notin {"record", "link", "purge", "clean"} /\ Leave(w)
      /\ UNCHANGED <<podServer, podStore, podWorld, podPast>>
    BY DEF Cancelled
<1>2. Grows /\ Within({}) /\ \A i \in PodIds : RowStays(i) /\ EtagHolds(i)'
    BY <1>1, RestStays DEF podWorld
<1>3. Locks(w) /\ JobOk(w)'
    BY <1>1, LeaveRests
<1>4. PodTyped'
    BY <1>1, <1>3 DEF PodInv, PodTyped, podStore, podWorld, Locks
<1> QED
    BY <1>1, <1>2, <1>3, <1>4, QuietStep

LEMMA CoverKeeps ==
    ASSUME PodInv, NEW w \in PodWorkers, FetchCover(w)
    PROVE  PodInv'
<1> DEFINE j == podJob[w]
           k == podJob'[w]
<1> USE PodAssumption
<1>1. /\ podJob[w] = j /\ podJob'[w] = k /\ j.at = "cover" /\ podJob[w].at \notin {"record", "link", "purge", "clean"}
      /\ JobShape(w) /\ UNCHANGED <<podServer, podEp, podFile, podDisk, podPast>> /\ UNCHANGED podLocks
    BY DEF FetchCover, PodInv, JobOk
<1>2. j.at \in Working /\ j.at \in Subscribing /\ j.at # "clean"
    BY <1>1 DEF Working, Fetching, Subscribing
<1>3. j.id \in PodIds /\ j.next = 1 /\ j.ver \in Guids /\ j.ver \in 0..PodEpisodes /\ j.file = PodNone
    BY <1>1, <1>2 DEF JobShape
<1>4. /\ k.at = "upsert" /\ k.ver = j.ver /\ k.next = j.next /\ k.id = j.id /\ k.row = j.row /\ k.own = j.own /\ k.paths = j.paths
      /\ k.subscriber = j.subscriber /\ k.file = j.file /\ podJob' = [podJob EXCEPT ![w] = k] /\ IsJob(k)
    BY <1>1 DEF FetchCover, Goto, PodInv, PodTyped, JobShape, IsJob
<1>5. k.at \in Working /\ k.at \in Subscribing /\ k.at \notin {"pending", "retain"} \cup Downloading \cup Retaining
    BY <1>4 DEF Working, Fetching, Subscribing, Downloading, Retaining
<1>6. k.next \in 1..(k.ver + 1) /\ k.ver \in Guids /\ k.next - 1 = 0
    BY <1>3, <1>4 DEF Guids
<1>7. /\ podRow' \in [PodIds -> PodRows \cup {PodNone}] /\ podCover' \subseteq PodIds
      /\ \A h \in PodIds : podRow'[h] # PodNone <=> podRow[h] # PodNone
      /\ \A h \in PodIds : podRow[h] # PodNone => podRow'[h].max = podRow[h].max /\ podRow'[h].etag = podRow[h].etag
    <2>1. podRow \in [PodIds -> PodRows \cup {PodNone}] /\ podCover \subseteq PodIds
        BY DEF PodInv, PodTyped
    <2>2. podRow' = podRow \/ (podRow[j.id] \in PodRows /\ podRow' = [podRow EXCEPT ![j.id].cover = TRUE])
        <3>1. podRow' = podRow \/ podRow' = SetPodcastCover(j.id)
            BY DEF FetchCover
        <3>2. SetPodcastCover(j.id) = podRow \/ (podRow[j.id] \in PodRows /\ SetPodcastCover(j.id) = [podRow EXCEPT ![j.id].cover = TRUE])
            BY <1>3, <2>1 DEF SetPodcastCover
        <3> QED
            BY <3>1, <3>2
    <2>3. podCover' \subseteq PodIds
        BY <1>3, <2>1 DEF FetchCover
    <2> DEFINE i == j.id
    <2>4. i \in PodIds /\ (podRow' = podRow \/ (podRow[i] \in PodRows /\ podRow' = [podRow EXCEPT ![i].cover = TRUE]))
        BY <1>3, <2>2
    <2> HIDE DEF j, i
    <2>5. CASE podRow[i] \in PodRows /\ podRow' = [podRow EXCEPT ![i].cover = TRUE]
        <3>1. \A h \in PodIds : podRow'[h] = IF h = i THEN [podRow[i] EXCEPT !.cover = TRUE] ELSE podRow[h]
            BY <2>1, <2>4, <2>5
        <3>2. LET r == [podRow[i] EXCEPT !.cover = TRUE] IN r \in PodRows /\ r.max = podRow[i].max /\ r.etag = podRow[i].etag
            BY <2>5 DEF PodRows
        <3> QED
            BY <2>1, <2>3, <2>4, <2>5, <3>1, <3>2
    <2> QED
        BY <2>1, <2>3, <2>4, <2>5
<1> HIDE DEF j, k
<1>8. Locks(w) /\ JobShape(w)'
    BY <1>1, <1>2, <1>3, <1>4, <1>5, <1>6, GoingOn
<1>9. JobWork(w)'
    BY <1>1, <1>4, WorkIsIdle DEF Fetching
<1>10. Subscribed' = Subscribed
    BY <1>7 DEF Subscribed
<1>11. Grows /\ Within({}) /\ \A i \in PodIds : RowStays(i)
    BY <1>1, <1>7, <1>10 DEF Grows, Within, RowStays, Subscribed
<1>12. ASSUME NEW i \in PodIds PROVE EtagHolds(i)'
    <2>1. EtagHolds(i)
        BY DEF PodInv, RowOk
    <2> QED
        BY <1>1, <1>7, <1>10, <2>1 DEF EtagHolds, Covered, Subscribed
<1>13. \A g \in 1..(k.next - 1) : podEp'[k.id][g].at # "absent"
    BY <1>6
<1>14. Fresh(w)'
    BY <1>1, <1>2, <1>4, <1>5, <1>11, <1>13, FreshStays DEF Covered
<1>15. PodTyped'
    BY <1>1, <1>7, <1>8 DEF PodInv, PodTyped, Locks
<1> QED
    BY <1>1, <1>8, <1>9, <1>11, <1>12, <1>14, <1>15, QuietStep DEF JobOk

LEMMA TakeKeeps ==
    ASSUME PodInv, NEW w \in PodWorkers, NEW ids \in SUBSET (PodIds \ podSlot), podJob[w].at = "idle", TakeForDelete(w, ids),
           UNCHANGED <<podServer, podStore, podWorld, podPast>>, podGate' = podGate \/ (podGate = PodNone /\ podGate' = w)
    PROVE  PodInv'
<1> DEFINE k == podJob'[w]
<1> USE PodAssumption
<1>1. JobShape(w)
    BY DEF PodInv, JobOk
<1>2. /\ k.at = "delete" /\ k.subscriber = FALSE /\ k.own = ids /\ k.paths = {}
      /\ k.file = PodNone /\ podJob' = [podJob EXCEPT ![w] = k] /\ IsJob(k)
    BY DEF TakeForDelete, PodInv, PodTyped, Resting, IsJob
<1>3. podSlot' = podSlot \cup ids /\ podSlot \subseteq PodIds /\ podJob[w].own = {} /\ podGate \in PodWorkers \cup {PodNone}
    BY <1>1 DEF TakeForDelete, PodInv, PodTyped, JobShape
<1> HIDE DEF k
<1>4. k.at \notin Subscribing /\ k.at \notin Working /\ k.at \notin {"pending", "retain"} \cup Downloading \cup Retaining
    BY <1>2 DEF Subscribing, Working, Fetching, Downloading, Retaining
<1>5. JobShape(w)'
    <2>1. /\ k.at \in {"idle", "insert", "delete", "clean"} \cup Subscribing /\ k.own \subseteq podSlot' /\ k.subscriber \in BOOLEAN
          /\ ~k.subscriber /\ k.at \notin {"idle", "insert", "own"} /\ k.at \in {"own", "delete", "clean"} /\ k.at # "insert"
          /\ k.at # "own" /\ k.at # "fetch" /\ k.at # "cover" /\ k.at # "upsert"
        BY <1>2, <1>3
    <2> QED
        BY <1>2, <1>4, <2>1, Zenon DEF k, JobShape
<1>6. JobWork(w)' /\ Fresh(w)'
    BY <1>2, <1>4, WorkIsIdle DEF k, Fresh
<1>7. Locks(w)
    BY <1>2, <1>3 DEF k, Locks
<1> QED
    BY <1>5, <1>6, <1>7, MoveStep DEF JobOk

LEMMA DeletesKeep ==
    ASSUME PodInv, NEW w \in PodWorkers, (\E i \in PodIds : DeletePodcast(w, i)) \/ DeleteLibraryPodcasts(w)
    PROVE  PodInv'
<1>1. CASE \E i \in PodIds : DeletePodcast(w, i)
    <2>1. PICK i \in PodIds : DeletePodcast(w, i)
        BY <1>1
    <2> DEFINE ids == {i}
    <2>2. /\ ids \in SUBSET (PodIds \ podSlot) /\ podJob[w].at = "idle" /\ TakeForDelete(w, ids)
          /\ UNCHANGED <<podServer, podStore, podWorld, podPast>> /\ podGate' = podGate
        BY <2>1 DEF DeletePodcast
    <2> HIDE DEF ids
    <2> QED
        BY <2>2, TakeKeeps
<1>2. CASE DeleteLibraryPodcasts(w)
    <2> DEFINE ids == Subscribed
    <2>1. /\ ids \in SUBSET (PodIds \ podSlot) /\ podJob[w].at = "idle" /\ TakeForDelete(w, ids)
          /\ UNCHANGED <<podServer, podStore, podWorld, podPast>> /\ podGate = PodNone /\ podGate' = w
        BY <1>2 DEF DeleteLibraryPodcasts, Subscribed
    <2> HIDE DEF ids
    <2> QED
        BY <2>1, TakeKeeps
<1> QED
    BY <1>1, <1>2

LEMMA NewEpisodeKeeps ==
    ASSUME PodInv, NEW f \in PodFeeds, NewEpisode(f)
    PROVE  PodInv'
<1>1. UNCHANGED <<podRow, podEp, podFile, podDisk, podCover, podSlot, podGate, podJob, podPast>>
    BY DEF NewEpisode, podStore, podWorld, podLocks
<1>2. podServer' \in [PodFeeds -> Guids]
    <2>1. podServer[f] \in Guids /\ podServer[f] + 1 \in Guids
        BY PodAssumption DEF NewEpisode, PodInv, PodTyped, Guids
    <2> QED
        BY <2>1 DEF NewEpisode, PodInv, PodTyped
<1>3. PodTyped'
    BY <1>1, <1>2 DEF PodInv, PodTyped
<1>4. \A w \in PodWorkers : JobOk(w)'
    <2> SUFFICES ASSUME NEW w \in PodWorkers PROVE JobOk(w)'
        OBVIOUS
    <2> DEFINE O == {}
    <2>1. /\ Within(O) /\ Grows /\ O \cap podJob[w].own = {} /\ podJob'[w] = podJob[w] /\ (podGate' = w <=> podGate = w)
          /\ podJob[w].own \subseteq podSlot'
        BY <1>1 DEF Within, Grows, Subscribed, PodInv, JobOk, JobShape
    <2> HIDE DEF O
    <2> QED
        BY <2>1, JobStays
<1>5. \A i \in PodIds : RowOk(i)'
    <2> SUFFICES ASSUME NEW i \in PodIds PROVE RowOk(i)'
        OBVIOUS
    <2>1. UNCHANGED <<podStore, podDisk, podPast>>
        BY <1>1 DEF podStore
    <2> DEFINE O == {}
    <2>2. Within(O) /\ i \notin O /\ RowStays(i) /\ EtagHolds(i)' /\ podPast \subseteq podPast' /\ \A v \in PodWorkers : podJob'[v] = podJob[v]
        BY <1>1, <2>1, RestStays DEF Grows
    <2> HIDE DEF O
    <2> QED
        BY <2>2, PodcastStays
<1> QED
    BY <1>1, <1>3, <1>4, <1>5 DEF PodInv, SlotsApart

LEMMA PatchKeeps ==
    ASSUME PodInv, NEW n \in PodIds, PatchPodcast(n)
    PROVE  PodInv'
<1> USE PodAssumption
<1>1. /\ n \in Subscribed /\ podPast' = podPast \cup {"patch"}
      /\ UNCHANGED <<podServer, podEp, podFile, podDisk, podCover, podSlot, podGate, podJob>>
    BY DEF PatchPodcast, podWorld, podLocks
<1>2. PICK keep \in PodKeeps, auto \in BOOLEAN : podRow' = [podRow EXCEPT ![n] = WithSettings(podRow[n], keep, auto)]
    BY DEF PatchPodcast
<1>3. /\ podRow' \in [PodIds -> PodRows \cup {PodNone}]
      /\ \A h \in PodIds : podRow'[h] # PodNone <=> podRow[h] # PodNone
      /\ \A h \in PodIds : podRow[h] # PodNone => podRow'[h].etag = podRow[h].etag
    <2>1. podRow \in [PodIds -> PodRows \cup {PodNone}] /\ podRow[n] \in PodRows
        BY <1>1 DEF PodInv, PodTyped, Subscribed
    <2>2. WithSettings(podRow[n], keep, auto) \in PodRows /\ WithSettings(podRow[n], keep, auto).etag = podRow[n].etag
        BY <2>1 DEF WithSettings, PodRows
    <2> QED
        BY <1>2, <2>1, <2>2
<1>4. Subscribed' = Subscribed
    BY <1>3 DEF Subscribed
<1>5. Grows
    BY <1>1, <1>4 DEF Grows
<1>6. PodTyped'
    BY <1>1, <1>3 DEF PodInv, PodTyped
<1>7. \A w \in PodWorkers : JobOk(w)'
    <2> SUFFICES ASSUME NEW w \in PodWorkers PROVE JobOk(w)'
        OBVIOUS
    <2> DEFINE O == {}
    <2>1. /\ Within(O) /\ O \cap podJob[w].own = {} /\ podJob'[w] = podJob[w] /\ (podGate' = w <=> podGate = w)
          /\ podJob[w].own \subseteq podSlot'
        BY <1>1 DEF Within, PodInv, JobOk, JobShape
    <2> HIDE DEF O
    <2> QED
        BY <1>5, <2>1, JobStays
<1>8. \A i \in PodIds : RowOk(i)'
    <2> SUFFICES ASSUME NEW i \in PodIds PROVE RowOk(i)'
        OBVIOUS
    <2>1. EtagHolds(i)
        BY DEF PodInv, RowOk
    <2>2. EtagHolds(i)'
        BY <1>1, <1>3, <1>4, <2>1 DEF EtagHolds, Covered, Subscribed
    <2> DEFINE O == {}
    <2>3. Within(O) /\ i \notin O /\ RowStays(i) /\ podPast \subseteq podPast' /\ \A v \in PodWorkers : podJob'[v] = podJob[v]
        BY <1>1, <1>4 DEF Within, RowStays
    <2> HIDE DEF O
    <2> QED
        BY <2>2, <2>3, PodcastStays
<1> QED
    BY <1>1, <1>6, <1>7, <1>8 DEF PodInv, SlotsApart

-----------------------------------------------------------------------------
(* The steps that change the episodes and the files of one podcast.        *)

LEMMA EpisodeChanged ==
    ASSUME podEp \in [PodIds -> [Guids -> Eps]], NEW i \in PodIds, NEW g \in Guids, NEW e \in Eps,
           podEp' = [podEp EXCEPT ![i][g] = e]
    PROVE  /\ podEp' \in [PodIds -> [Guids -> Eps]] /\ \A h \in PodIds \ {i} : podEp'[h] = podEp[h]
           /\ podEp'[i][g] = e /\ \A h \in Guids \ {g} : podEp'[i][h] = podEp[i][h]
OBVIOUS

LEMMA KeptChanged ==
    ASSUME podEp \in [PodIds -> [Guids -> Eps]], NEW i \in PodIds, NEW g \in Guids, NEW e \in Eps,
           podEp' = [podEp EXCEPT ![i][g] = e]
    PROVE  Kept(i)' = IF e.at = "kept" THEN Kept(i) \cup {g} ELSE Kept(i) \ {g}
BY EpisodeChanged DEF Kept

LEMMA PendingChanged ==
    ASSUME podEp \in [PodIds -> [Guids -> Eps]], NEW i \in PodIds, NEW g \in Guids, NEW e \in Eps,
           podEp' = [podEp EXCEPT ![i][g] = e]
    PROVE  Pending(i) \ {g} \subseteq Pending(i)'
BY EpisodeChanged DEF Pending

LEMMA OnePodcastStep ==
    ASSUME PodInv, NEW w \in PodWorkers, NEW i \in PodIds, podJob[w].own = {i}, PodTyped', Locks(w), Within({i}), podRow' = podRow,
           Grows, JobOk(w)', RowAgrees(i)', LinksHold(i)', OrphansHold(i)'
    PROVE  PodInv'
<1> USE PodAssumption
<1>1. Subscribed' = Subscribed
    BY DEF Subscribed
<1>2. ASSUME NEW h \in PodIds PROVE RowStays(h) /\ EtagHolds(h)'
    <2>1. EtagHolds(h)
        BY DEF PodInv, RowOk
    <2>2. h \in Subscribed => podRow[h].etag \in 0..PodEpisodes
        BY DEF PodInv, PodTyped, Subscribed, PodRows
    <2>3. RowStays(h)
        BY <1>1 DEF RowStays
    <2>4. CASE "gone" \in podPast'
        BY <2>3, <2>4 DEF EtagHolds
    <2>5. CASE "gone" \notin podPast' /\ h \in Subscribed
        <3>1. "gone" \notin podPast /\ Covered(h, podRow[h].etag)
            BY <2>1, <2>5 DEF Grows, EtagHolds
        <3>2. \A g \in 1..podRow[h].etag : g \in Guids
            BY <2>2, <2>5 DEF Guids
        <3>3. Covered(h, podRow[h].etag)'
            BY <2>5, <3>1, <3>2 DEF Covered, Grows
        <3> QED
            BY <2>3, <3>3 DEF EtagHolds
    <2>6. CASE h \notin Subscribed
        BY <1>1, <2>3, <2>6 DEF EtagHolds
    <2> QED
        BY <2>4, <2>5, <2>6
<1>3. RowOk(i)'
    BY <1>2 DEF RowOk
<1>4. Within(podJob[w].own) /\ \A h \in podJob[w].own : RowOk(h)'
    BY <1>3
<1> QED
    BY <1>2, <1>4, WorkerStep

(* A job past the upserts, at work on the downloads or on retention. *)
LEMMA LateStep ==
    ASSUME PodInv, NEW w \in PodWorkers, NEW j, podJob[w] = j, NEW k, podJob'[w] = k, NEW i, j.id = i,
           podJob' = [podJob EXCEPT ![w] = k], UNCHANGED podLocks, podRow' = podRow, PodTyped', Within({i}), Grows,
           j.at \in {"pending", "retain"} \cup Downloading \cup Retaining, IsJob(k), k.at \in Downloading \cup Retaining,
           k.id = j.id, k.row = j.row, k.own = j.own, k.paths = j.paths, k.subscriber = j.subscriber, k.ver = j.ver,
           k.at \notin {"record", "link", "purge"} => k.file = PodNone, JobWork(w)',
           RowAgrees(i)', LinksHold(i)', OrphansHold(i)'
    PROVE  PodInv'
<1>1. /\ JobShape(w) /\ Fresh(w) /\ j.at \in Working /\ j.at \in Subscribing /\ i \in PodIds /\ j.own = {i} /\ j.ver \in 0..PodEpisodes
      /\ "gone" \notin podPast => Covered(i, j.ver)
    BY LatePlace
<1>2. k.at \in Working /\ k.at \in Subscribing /\ k.at \notin {"fetch", "cover", "upsert"}
    BY DEF Subscribing, Working, Downloading, Retaining
<1>3. Locks(w) /\ JobShape(w)'
    BY <1>1, <1>2, GoingOn
<1>4. "gone" \notin podPast' => Covered(k.id, k.ver)'
    <2> SUFFICES ASSUME "gone" \notin podPast' PROVE Covered(i, j.ver)'
        OBVIOUS
    <2>1. "gone" \notin podPast /\ i \in Subscribed
        BY <1>1 DEF Grows, Fresh
    <2> QED
        BY <1>1, <2>1, CoveredStays
<1>5. Fresh(w)'
    BY <1>1, <1>2, <1>4, FreshStays
<1> QED
    BY <1>1, <1>3, <1>5, OnePodcastStep DEF JobOk

LEMMA UpsertKeeps ==
    ASSUME PodInv, NEW w \in PodWorkers, NEW j, podJob[w] = j, NEW k, podJob'[w] = k, NEW i, j.id = i, UpsertEpisode(w)
    PROVE  PodInv'
<1> USE PodAssumption
<1> DEFINE g == j.next
           e == [at |-> IF podEp[i][g].at = "absent" THEN "pending" ELSE podEp[i][g].at, feed |-> j.row.feed, file |-> podEp[i][g].file]
<1>1. /\ j.at = "upsert" /\ podJob[w].at \notin {"record", "link", "purge", "clean"} /\ j.next <= j.ver
      /\ JobShape(w) /\ Fresh(w) /\ UNCHANGED <<podServer, podRow, podFile, podWorld, podPast>>
    BY DEF UpsertEpisode, PodInv, JobOk
<1>2. j.at \in Working /\ j.at \in Subscribing
    BY <1>1 DEF Working, Fetching, Subscribing
<1>3. /\ i \in PodIds /\ j.row \in PodRows /\ j.ver \in Guids /\ j.ver \in 0..PodEpisodes /\ j.next \in 1..(j.ver + 1) /\ j.own = {i}
      /\ j.row.feed \in PodFeeds /\ j.file = PodNone
    BY <1>1, <1>2 DEF JobShape, PodRows
<1>4. g \in Guids
    BY <1>1, <1>3 DEF Guids
<1>5. podEp \in [PodIds -> [Guids -> Eps]] /\ podEp[i][g] \in Eps
    BY <1>3, <1>4 DEF PodInv, PodTyped
<1>6. CASE Leave(w) /\ UNCHANGED podEp
    <2>1. UNCHANGED <<podServer, podStore, podWorld, podPast>>
        BY <1>1, <1>6 DEF podStore
    <2> QED
        BY <1>1, <1>6, <2>1, LeaveRests, MoveStep
<1>7. CASE /\ podEp[i][g].at # "absent" \/ podRow[i] # PodNone
           /\ podEp' = [podEp EXCEPT ![i][g] = UpsertPodcastEpisode(podEp[i][g], j.row.feed)]
           /\ podJob' = [podJob EXCEPT ![w].next = @ + 1]
           /\ UNCHANGED podLocks
    <2>1. e = UpsertPodcastEpisode(podEp[i][g], j.row.feed) /\ e \in Eps
        BY <1>3, <1>5 DEF UpsertPodcastEpisode, Eps
    <2>2. /\ k.at = "upsert" /\ k.ver = j.ver /\ k.next = j.next + 1 /\ k.id = j.id /\ k.row = j.row /\ k.own = j.own /\ k.paths = j.paths
          /\ k.subscriber = j.subscriber /\ k.file = j.file /\ podJob' = [podJob EXCEPT ![w] = k] /\ IsJob(k)
        BY <1>1, <1>7 DEF PodInv, PodTyped, JobShape, IsJob
    <2>3. e.at # "absent" /\ (podEp[i][g].at # "absent" => e.at = podEp[i][g].at) /\ (podEp[i][g].at = "absent" => e.at = "pending")
          /\ e.file = podEp[i][g].file /\ e.feed \in PodFeeds
        BY <1>3
    <2> HIDE DEF e
    <2>4. podEp' = [podEp EXCEPT ![i][g] = e]
        BY <1>7, <2>1
    <2> HIDE DEF g
    <2>21. podEp \in [PodIds -> [Guids -> Eps]] /\ i \in PodIds /\ g \in Guids /\ e \in Eps /\ podEp' = [podEp EXCEPT ![i][g] = e]
        BY <1>3, <1>4, <1>5, <2>1, <2>4
    <2>5. /\ podEp' \in [PodIds -> [Guids -> Eps]] /\ \A h \in PodIds \ {i} : podEp'[h] = podEp[h]
          /\ podEp'[i][g] = e /\ \A h \in Guids \ {g} : podEp'[i][h] = podEp[i][h]
        BY <2>21, EpisodeChanged
    <2>20. Kept(i)' = IF e.at = "kept" THEN Kept(i) \cup {g} ELSE Kept(i) \ {g}
        BY <2>21, KeptChanged
    <2>6. Kept(i)' = Kept(i) /\ \A h \in Guids : podEp'[i][h].file = podEp[i][h].file
        BY <1>4, <2>3, <2>5, <2>20 DEF Kept
    <2>7. podDisk' = podDisk /\ podFile' = podFile /\ podPast' = podPast /\ podRow' = podRow /\ Subscribed' = Subscribed
        BY <1>1 DEF podWorld, Subscribed
    <2>8. Grows /\ Within({i})
        BY <2>3, <2>5, <2>7 DEF Grows, Within, Subscribed
    <2>9. /\ k.at \in Working /\ k.at \in Subscribing /\ k.at \notin {"pending", "retain"} \cup Downloading \cup Retaining
          /\ k.ver \in Guids /\ k.next \in 1..(k.ver + 1) /\ k.next - 1 = g
        BY <1>1, <1>2, <1>3, <2>2 DEF Downloading, Retaining, Guids, g
    <2>10. Locks(w) /\ JobShape(w)'
        BY <1>1, <1>2, <1>3, <1>7, <2>2, <2>9, GoingOn
    <2>11. JobWork(w)'
        BY <2>2, WorkIsIdle DEF Fetching
    <2>12. "gone" \notin podPast' => Covered(k.id, k.next - 1)'
        <3> SUFFICES ASSUME "gone" \notin podPast' PROVE \A h \in 1..g : podEp'[i][h].at # "absent"
            BY <2>2, <2>9 DEF Covered
        <3>1. i \in Subscribed /\ Covered(i, g - 1)
            BY <1>1, <1>2, <2>7 DEF Fresh, g
        <3>2. \A h \in 1..g : h \in Guids /\ (h = g \/ h \in 1..(g - 1))
            BY <1>4 DEF Guids
        <3> QED
            BY <2>3, <2>5, <3>1, <3>2 DEF Covered
    <2>13. Fresh(w)'
        BY <1>2, <2>2, <2>8, <2>9, <2>12, FreshStays
    <2>14. RowAgrees(i) /\ LinksHold(i) /\ OrphansHold(i)
        BY <1>3 DEF PodInv, RowOk
    <2>15. RowAgrees(i)'
        <3>1. i \in Subscribed
            BY <1>3, <1>4, <1>7, <2>14 DEF RowAgrees, Subscribed
        <3>2. \A h \in Guids : (podEp'[i][h].file # PodNone <=> podEp'[i][h].at = "kept") /\ (podEp'[i][h].at # "absent" => podEp'[i][h].feed \in PodFeeds)
            BY <1>4, <2>3, <2>5, <2>14 DEF RowAgrees
        <3>3. \A h \in Kept(i)' : podEp'[i][h].file \in {<<i, 0>>, <<i, h>>}
            BY <1>3, <2>6, <2>14, KeptAreEpisodes DEF RowAgrees
        <3> QED
            BY <2>7, <3>1, <3>2, <3>3 DEF RowAgrees
    <2>16. \A v \in PodWorkers : podJob'[v].at = podJob[v].at /\ podJob'[v].id = podJob[v].id /\ podJob'[v].file = podJob[v].file
                                 /\ podJob'[v].paths = podJob[v].paths
        BY <1>1, <2>2 DEF PodInv, PodTyped
    <2>17. LinksHold(i)'
        <3>1. Kept(i) \in SUBSET Guids
            BY <1>3, KeptAreEpisodes
        <3>2. \A h \in Kept(i) : Overflowing(i, h)' <=> Overflowing(i, h)
            BY <2>6, <2>7 DEF Overflowing
        <3> QED
            BY <2>6, <2>7, <2>14, <2>16, <3>1, <3>2 DEF LinksHold
    <2>18. OrphansHold(i)'
        <3>1. \A p \in Paths : Unlinked(i, p)' <=> Unlinked(i, p)
            BY <1>3, <2>6, KeptAreEpisodes DEF Unlinked
        <3> QED
            BY <2>7, <2>14, <2>16, <3>1 DEF OrphansHold
    <2>19. PodTyped'
        BY <1>1, <2>5, <2>7, <2>10 DEF PodInv, PodTyped, podWorld, Locks
    <2> QED
        BY <1>3, <2>7, <2>8, <2>10, <2>11, <2>13, <2>15, <2>17, <2>18, <2>19, OnePodcastStep DEF JobOk
<1> QED
    BY <1>6, <1>7, Zenon DEF UpsertEpisode

OnlyFile(p) == \A q \in Paths \ {p} : podDisk'[q] = podDisk[q] /\ podFile'[q] = podFile[q]
OnlyJob(w) == \A v \in PodWorkers \ {w} : podJob'[v] = podJob[v]

(* A file that no episode links is written or removed by the job that has it in its hands. *)
LEMMA FileMoves ==
    ASSUME PodInv, NEW w \in PodWorkers, NEW j, podJob[w] = j, NEW k, podJob'[w] = k, NEW i \in PodIds,
           OnlyJob(w), UNCHANGED <<podRow, podEp, podPast>>, NEW p \in Paths, p[1] = i, Unlinked(i, p),
           OnlyFile(p),
           j.at # "purge", j.file \in {PodNone, p}, j.paths = {}, podDisk'[p] = PodNone \/ k.file = p
    PROVE  Within({i}) /\ Grows /\ RowAgrees(i)' /\ LinksHold(i)' /\ OrphansHold(i)'
<1> USE PodAssumption
<1>1. RowAgrees(i) /\ LinksHold(i) /\ OrphansHold(i) /\ Kept(i) \in SUBSET Guids /\ Kept(i)' = Kept(i) /\ Subscribed' = Subscribed
    BY KeptAreEpisodes, SameKept DEF PodInv, RowOk, Subscribed
<1>2. \A v \in PodWorkers \ {w} : podJob'[v] = podJob[v]
    BY DEF OnlyJob
<1>3. Within({i}) /\ Grows
    BY <1>1 DEF Within, Grows, OnlyFile
<1>4. RowAgrees(i)'
    BY <1>1 DEF RowAgrees
<1>5. LinksHold(i)'
    <2> SUFFICES ASSUME NEW g \in Kept(i)
                 PROVE  LET q == podEp[i][g].file IN
                        /\ podFile'[q] = "present"
                        /\ \A h \in Kept(i) \ {g} : podEp[i][h].file # q
                        /\ \/ podDisk'[q] # PodNone /\ podDisk'[q][2] = g
                           \/ \E v \in PodWorkers : podJob'[v].at = "purge" /\ podJob'[v].id = i /\ podJob'[v].file = q
                           \/ "cut" \in podPast' /\ (Overflowing(i, g)' \/ podPast' \cap {"patch", "gone"} # {})
        BY <1>1 DEF LinksHold
    <2> DEFINE q == podEp[i][g].file
    <2>1. q # p /\ q \in Paths
        <3>1. q \in {<<i, 0>>, <<i, g>>} /\ g \in Guids
            BY <1>1 DEF RowAgrees
        <3> QED
            BY <3>1 DEF Unlinked, Paths
    <2>2. podFile'[q] = podFile[q] /\ podDisk'[q] = podDisk[q]
        BY <2>1 DEF OnlyFile
    <2>3. Overflowing(i, g)' <=> Overflowing(i, g)
        BY <1>1 DEF Overflowing
    <2>4. \A v \in PodWorkers : podJob[v].at = "purge" => podJob'[v] = podJob[v]
        BY <1>2
    <2> QED
        BY <1>1, <2>2, <2>3, <2>4 DEF LinksHold
<1>6. OrphansHold(i)'
    <2> SUFFICES ASSUME NEW q \in Paths, q[1] = i, podDisk'[q] # PodNone, Unlinked(i, q)', "cut" \notin podPast'
                 PROVE  \E v \in PodWorkers : q = podJob'[v].file \/ q \in podJob'[v].paths
        BY DEF OrphansHold
    <2>1. CASE q = p
        BY <2>1
    <2>2. CASE q # p
        <3>1. podDisk[q] # PodNone /\ Unlinked(i, q) /\ "cut" \notin podPast
            BY <1>1, <2>2 DEF Unlinked, OnlyFile
        <3>2. PICK v \in PodWorkers : q = podJob[v].file \/ q \in podJob[v].paths
            BY <1>1, <3>1 DEF OrphansHold
        <3>3. v # w
            BY <2>2, <3>2
        <3> QED
            BY <1>2, <3>2, <3>3
    <2> QED
        BY <2>1, <2>2
<1> QED
    BY <1>3, <1>4, <1>5, <1>6

LEMMA OnlyThisJob ==
    ASSUME PodInv, NEW w, NEW k, podJob' = [podJob EXCEPT ![w] = k]
    PROVE  OnlyJob(w)
BY DEF PodInv, PodTyped, OnlyJob

LEMMA GaveUp ==
    ASSUME PodInv, NEW w \in PodWorkers, NEW j, podJob[w] = j, NEW k, podJob'[w] = k, podEp' = podEp,
           j.at \in Downloading, j.next # 0, GiveUp(w)
    PROVE  /\ podJob' = [podJob EXCEPT ![w] = k] /\ IsJob(k) /\ k.at = "download" /\ k.file = PodNone /\ k.id = j.id /\ k.row = j.row
           /\ k.own = j.own /\ k.paths = j.paths /\ k.subscriber = j.subscriber /\ k.ver = j.ver /\ JobWork(w)'
<1>1. JobShape(w) /\ JobWork(w)
    BY DEF PodInv, JobOk
<1>2. j.left \subseteq Pending(j.id) /\ j.next \in Nat
    BY <1>1 DEF JobWork
<1>3. /\ podJob' = [podJob EXCEPT ![w] = k] /\ IsJob(k) /\ k.at = "download" /\ k.file = PodNone /\ k.id = j.id /\ k.row = j.row
      /\ k.own = j.own /\ k.paths = j.paths /\ k.subscriber = j.subscriber /\ k.ver = j.ver
      /\ k.left = j.left \ {Max(j.left)} /\ k.next = j.next - 1
    BY <1>1 DEF GiveUp, PodInv, PodTyped, JobShape, IsJob
<1>4. \A g \in k.left : g \in Guids /\ podEp'[k.id][g].at = "pending"
    BY <1>2, <1>3 DEF Pending
<1>5. JobWork(w)'
    BY <1>2, <1>3, <1>4, DownloadWork
<1> QED
    BY <1>3, <1>5

LEMMA NextDownload ==
    ASSUME PodInv, NEW w \in PodWorkers, NEW j, podJob[w] = j, j.at \in Downloading, j.left # {}
    PROVE  Max(j.left) \in j.left /\ j.left \subseteq Pending(j.id) /\ Max(j.left) \in Guids /\ podEp[j.id][Max(j.left)].at = "pending"
<1> DEFINE L == j.left
<1>1. j.id \in PodIds /\ j.left \subseteq Pending(j.id)
    BY LatePlace DEF JobWork
<1>2. L \in SUBSET Nat /\ L # {} /\ \A x \in L : x <= PodEpisodes
    BY <1>1, PodAssumption DEF Pending, Guids
<1> HIDE DEF L
<1>3. Max(L) \in L
    BY <1>2, PodAssumption, MaxIsLargest
<1> QED
    BY <1>1, <1>3 DEF L, Pending

LEMMA DownloadKeeps ==
    ASSUME PodInv, NEW w \in PodWorkers, NEW j, podJob[w] = j, NEW k, podJob'[w] = k, NEW i, j.id = i, Download(w)
    PROVE  PodInv'
<1> USE PodAssumption
<1> DEFINE g == Max(j.left)
           p == PathFor(i, g)
           c == <<podEp[i][g].feed, g>>
<1>1. /\ j.at = "download" /\ j.left # {} /\ j.next > 0 /\ j.at \in Downloading /\ j.at \notin {"record", "link", "purge"}
      /\ UNCHANGED <<podServer, podRow, podEp, podFile, podCover, podPast>> /\ UNCHANGED podLocks /\ UNCHANGED podStore
    BY DEF Download, Downloading, podStore
<1>2. /\ JobShape(w) /\ i \in PodIds /\ j.paths = {} /\ j.file = PodNone /\ j.next \in Nat \ {0} /\ j.at \in Working
      /\ "gone" \notin podPast => Covered(i, j.ver)
    BY <1>1, LatePlace DEF JobWork
<1>3. g \in j.left /\ j.left \subseteq Pending(i) /\ g \in Guids /\ podEp[i][g].at = "pending"
    BY <1>1, NextDownload
<1>4. CASE GiveUp(w) /\ UNCHANGED podDisk
    <2>1. /\ podJob' = [podJob EXCEPT ![w] = k] /\ IsJob(k) /\ k.at = "download" /\ k.file = PodNone /\ k.id = j.id /\ k.row = j.row
          /\ k.own = j.own /\ k.paths = j.paths /\ k.subscriber = j.subscriber /\ k.ver = j.ver /\ JobWork(w)'
        BY <1>1, <1>2, <1>4, GaveUp
    <2>2. k.at \in Working /\ k.at \notin {"fetch", "cover", "upsert"}
        BY <2>1 DEF Working, Downloading
    <2>3. UNCHANGED <<podServer, podStore, podWorld, podPast>>
        BY <1>1, <1>4 DEF podWorld
    <2> QED
        BY <1>1, <1>2, <2>1, <2>2, <2>3, GoOnStep
<1>5. CASE /\ podDisk' = [podDisk EXCEPT ![p] = c]
           /\ podJob' = [podJob EXCEPT ![w].at = "record", ![w].file = p]
    <2>1. /\ podJob' = [podJob EXCEPT ![w] = k] /\ IsJob(k) /\ k.at = "record" /\ k.file = p /\ k.id = j.id /\ k.row = j.row
          /\ k.own = j.own /\ k.paths = j.paths /\ k.subscriber = j.subscriber /\ k.ver = j.ver /\ k.left = j.left /\ k.next = j.next
        BY <1>2, <1>5 DEF PodInv, PodTyped, JobShape, IsJob
    <2>2. RowAgrees(i) /\ Kept(i) \in SUBSET Guids
        BY <1>2, KeptAreEpisodes DEF PodInv, RowOk
    <2>3. p \in {<<i, 0>>, <<i, g>>} /\ Unlinked(i, p)
        <3>1. g \notin Kept(i)
            BY <1>3 DEF Kept
        <3>2. CASE \E h \in Kept(i) \ {g} : podEp[i][h].file = <<i, 0>>
            <4>1. p = <<i, g>>
                BY <3>2 DEF PathFor
            <4>2. \A h \in Kept(i) : podEp[i][h].file # <<i, g>>
                <5>1. g # 0
                    BY <1>3 DEF Guids
                <5> HIDE DEF g
                <5> QED
                    BY <2>2, <3>1, <5>1 DEF RowAgrees
            <4> QED
                BY <4>1, <4>2 DEF Unlinked
        <3>3. CASE ~\E h \in Kept(i) \ {g} : podEp[i][h].file = <<i, 0>>
            BY <3>1, <3>3 DEF PathFor, Unlinked
        <3> QED
            BY <3>2, <3>3
    <2>4. p \in Paths /\ p[1] = i
        BY <1>2, <1>3, <2>3 DEF Paths
    <2>5. c # PodNone /\ c[2] = g
        <3>1. podEp[i][g].feed \in PodFeeds
            BY <1>3, <2>2 DEF RowAgrees
        <3> HIDE DEF g
        <3> QED
            BY <1>3, <3>1
    <2> HIDE DEF p, c, g
    <2>6. podDisk'[p] = c /\ OnlyFile(p) /\ OnlyJob(w)
        BY <1>1, <1>5, <2>1, <2>4, OnlyThisJob DEF PodInv, PodTyped, OnlyFile
    <2>7. Within({i}) /\ Grows /\ RowAgrees(i)' /\ LinksHold(i)' /\ OrphansHold(i)'
        BY <1>1, <1>2, <2>1, <2>3, <2>4, <2>6, FileMoves
    <2>8. JobWork(w)'
        <3>1. k.left \subseteq Pending(k.id)' /\ Unlinked(k.id, k.file)'
            BY <1>1, <1>3, <2>1, <2>3 DEF Pending, Unlinked, Kept
        <3>2. k.left # {} /\ k.next # 0 /\ k.next \in Nat /\ k.file \in {<<k.id, 0>>, <<k.id, Max(k.left)>>}
            BY <1>1, <1>2, <2>1, <2>3 DEF g
        <3>3. podDisk'[k.file] # PodNone /\ podDisk'[k.file][2] = Max(k.left)
            BY <2>1, <2>5, <2>6 DEF g
        <3> QED
            BY <2>1, <3>1, <3>2, <3>3 DEF JobWork, Retaining
    <2>9. PodTyped'
        BY <1>1, <1>5, <2>1 DEF PodInv, PodTyped, podLocks
    <2>10. k.at \in Downloading \cup Retaining /\ k.at \in {"record", "link", "purge"} /\ podRow' = podRow
        BY <1>1, <2>1 DEF Downloading
    <2> QED
        BY <1>1, <2>1, <2>7, <2>8, <2>9, <2>10, LateStep
<1> QED
    BY <1>4, <1>5 DEF Download

(* What is known of a download that is recorded or linked.                 *)
LEMMA InHand ==
    ASSUME PodInv, NEW w \in PodWorkers, NEW j, podJob[w] = j, NEW i, j.id = i, j.at \in {"record", "link"}
    PROVE  /\ JobShape(w) /\ i \in PodIds /\ j.paths = {} /\ j.next \in Nat /\ j.next # 0 /\ j.left # {} /\ j.at \in Downloading
           /\ Max(j.left) \in j.left /\ j.left \subseteq Pending(i) /\ Max(j.left) \in Guids /\ podEp[i][Max(j.left)].at = "pending"
           /\ j.file \in {<<i, 0>>, <<i, Max(j.left)>>} /\ j.file \in Paths /\ j.file[1] = i /\ Unlinked(i, j.file)
           /\ podDisk[j.file] # PodNone /\ podDisk[j.file][2] = Max(j.left) /\ (j.at = "link" => podFile[j.file] = "present")
<1>1. j.at \in Downloading
    BY DEF Downloading
<1>2. JobShape(w) /\ JobWork(w) /\ i \in PodIds /\ j.paths = {}
    BY <1>1, LatePlace
<1>3. j.file \in Paths /\ j.file[1] = i
    BY JobFile
<1>4. /\ j.next \in Nat /\ j.next # 0 /\ j.left # {} /\ j.file \in {<<i, 0>>, <<i, Max(j.left)>>} /\ Unlinked(i, j.file)
      /\ podDisk[j.file] # PodNone /\ podDisk[j.file][2] = Max(j.left) /\ (j.at = "link" => podFile[j.file] = "present")
    BY <1>1, <1>2 DEF JobWork
<1>5. Max(j.left) \in j.left /\ j.left \subseteq Pending(i) /\ Max(j.left) \in Guids /\ podEp[i][Max(j.left)].at = "pending"
    BY <1>1, <1>4, NextDownload
<1> QED
    BY <1>1, <1>2, <1>3, <1>4, <1>5

LEMMA InsertKeeps ==
    ASSUME PodInv, NEW w \in PodWorkers, NEW j, podJob[w] = j, NEW k, podJob'[w] = k, NEW i, j.id = i, InsertFile(w)
    PROVE  PodInv'
<1> USE PodAssumption
<1> DEFINE p == j.file
<1>1. /\ j.at = "record" /\ j.at \in {"record", "link"} /\ j.at # "purge"
      /\ UNCHANGED <<podServer, podRow, podEp, podCover, podPast>> /\ UNCHANGED podLocks /\ UNCHANGED <<podRow, podEp, podPast>>
    BY DEF InsertFile
<1>2. /\ JobShape(w) /\ i \in PodIds /\ j.paths = {} /\ j.next \in Nat /\ j.next # 0 /\ j.left # {} /\ j.at \in Downloading
      /\ j.left \subseteq Pending(i) /\ p \in {<<i, 0>>, <<i, Max(j.left)>>} /\ p \in Paths /\ p[1] = i /\ Unlinked(i, p)
      /\ podDisk[p] # PodNone /\ podDisk[p][2] = Max(j.left)
    BY <1>1, InHand
<1> HIDE DEF p
<1>3. CASE InsertPodcastFile(p) /\ Goto(w, "link") /\ UNCHANGED podDisk
    <2>1. /\ podJob' = [podJob EXCEPT ![w] = k] /\ IsJob(k) /\ k.at = "link" /\ k.file = p /\ k.id = j.id /\ k.row = j.row
          /\ k.own = j.own /\ k.paths = j.paths /\ k.subscriber = j.subscriber /\ k.ver = j.ver /\ k.left = j.left /\ k.next = j.next
        BY <1>2, <1>3 DEF Goto, PodInv, PodTyped, JobShape, IsJob, p
    <2>2. podFile' = [podFile EXCEPT ![p] = "present"]
        BY <1>3 DEF InsertPodcastFile
    <2>3. OnlyFile(p) /\ OnlyJob(w)
        BY <1>3, <2>1, <2>2, OnlyThisJob DEF PodInv, PodTyped, OnlyFile
    <2>4. Within({i}) /\ Grows /\ RowAgrees(i)' /\ LinksHold(i)' /\ OrphansHold(i)'
        <3>1. j.file \in {PodNone, p} /\ (podDisk'[p] = PodNone \/ k.file = p)
            BY <2>1 DEF p
        <3> QED
            BY <1>1, <1>2, <2>1, <2>3, <3>1, FileMoves
    <2>5. JobWork(w)'
        <3>1. k.left \subseteq Pending(k.id)' /\ Unlinked(k.id, k.file)'
            BY <1>1, <1>2, <2>1 DEF Pending, Unlinked, Kept
        <3>2. k.left # {} /\ k.next # 0 /\ k.next \in Nat /\ k.file \in {<<k.id, 0>>, <<k.id, Max(k.left)>>}
            BY <1>2, <2>1
        <3>3. podDisk'[k.file] # PodNone /\ podDisk'[k.file][2] = Max(k.left) /\ podFile'[k.file] = "present"
            BY <1>2, <1>3, <2>1, <2>2 DEF PodInv, PodTyped
        <3> QED
            BY <2>1, <3>1, <3>2, <3>3 DEF JobWork, Retaining
    <2>6. PodTyped'
        BY <1>1, <1>3, <2>1, <2>2 DEF PodInv, PodTyped, podLocks
    <2>7. k.at \in Downloading \cup Retaining /\ k.at \in {"record", "link", "purge"} /\ podRow' = podRow
        BY <1>1, <2>1 DEF Downloading
    <2> QED
        BY <1>1, <1>2, <2>1, <2>4, <2>5, <2>6, <2>7, LateStep
<1>4. CASE podDisk' = [podDisk EXCEPT ![p] = PodNone] /\ GiveUp(w) /\ UNCHANGED podFile
    <2>1. /\ podJob' = [podJob EXCEPT ![w] = k] /\ IsJob(k) /\ k.at = "download" /\ k.file = PodNone /\ k.id = j.id /\ k.row = j.row
          /\ k.own = j.own /\ k.paths = j.paths /\ k.subscriber = j.subscriber /\ k.ver = j.ver /\ JobWork(w)'
        BY <1>1, <1>2, <1>4, GaveUp
    <2>2. podDisk'[p] = PodNone /\ OnlyFile(p) /\ OnlyJob(w)
        BY <1>2, <1>4, <2>1, OnlyThisJob DEF PodInv, PodTyped, OnlyFile
    <2>3. Within({i}) /\ Grows /\ RowAgrees(i)' /\ LinksHold(i)' /\ OrphansHold(i)'
        <3>1. j.file \in {PodNone, p} /\ (podDisk'[p] = PodNone \/ k.file = p)
            BY <2>2 DEF p
        <3> QED
            BY <1>1, <1>2, <2>2, <3>1, FileMoves
    <2>4. PodTyped'
        BY <1>1, <1>4, <2>1 DEF PodInv, PodTyped, podLocks
    <2>5. k.at \in Downloading \cup Retaining /\ podRow' = podRow
        BY <1>1, <2>1 DEF Downloading
    <2> QED
        BY <1>1, <1>2, <2>1, <2>3, <2>4, <2>5, LateStep
<1> QED
    BY <1>3, <1>4, Zenon DEF InsertFile, p

LEMMA MarkSeenKeeps ==
    ASSUME PodInv, NEW w \in PodWorkers, NEW j, podJob[w] = j, NEW k, podJob'[w] = k, NEW i, j.id = i, MarkSeen(w)
    PROVE  PodInv'
<1> USE PodAssumption
<1> DEFINE g == Max(j.left)
           e == [at |-> "seen", feed |-> podEp[i][g].feed, file |-> podEp[i][g].file]
<1>1. /\ j.at = "download" /\ j.left # {} /\ j.next = 0 /\ j.at \in Downloading /\ j.at \notin {"record", "link", "purge"}
      /\ UNCHANGED <<podServer, podRow, podFile, podWorld, podPast>> /\ UNCHANGED podLocks
    BY DEF MarkSeen, Downloading
<1>20. podEp' = [podEp EXCEPT ![i][g].at = "seen"] /\ podJob' = [podJob EXCEPT ![w].left = @ \ {g}]
    BY DEF MarkSeen
<1>2. /\ JobShape(w) /\ i \in PodIds /\ j.paths = {} /\ j.file = PodNone
    BY <1>1, LatePlace
<1>3. g \in j.left /\ j.left \subseteq Pending(i) /\ g \in Guids /\ podEp[i][g].at = "pending"
    BY <1>1, NextDownload
<1>4. /\ podJob' = [podJob EXCEPT ![w] = k] /\ IsJob(k) /\ k.at = "download" /\ k.file = PodNone /\ k.id = j.id /\ k.row = j.row
      /\ k.own = j.own /\ k.paths = j.paths /\ k.subscriber = j.subscriber /\ k.ver = j.ver /\ k.left = j.left \ {g} /\ k.next = 0
    BY <1>1, <1>2, <1>20 DEF PodInv, PodTyped, JobShape, IsJob
<1>5. podEp \in [PodIds -> [Guids -> Eps]] /\ podEp[i][g] \in Eps /\ RowAgrees(i) /\ LinksHold(i) /\ OrphansHold(i)
    BY <1>2, <1>3 DEF PodInv, PodTyped, RowOk
<1> HIDE DEF g
<1>21. e \in Eps /\ e.at = "seen" /\ e.file = podEp[i][g].file /\ e.feed = podEp[i][g].feed
    BY <1>5 DEF Eps
<1>22. podEp' = [podEp EXCEPT ![i][g] = [podEp[i][g] EXCEPT !.at = "seen"]]
    BY <1>2, <1>3, <1>5, <1>20
<1>23. [podEp[i][g] EXCEPT !.at = "seen"] = e
    BY <1>5 DEF Eps
<1>6. e \in Eps /\ podEp' = [podEp EXCEPT ![i][g] = e] /\ e.at = "seen" /\ e.file = podEp[i][g].file /\ e.feed = podEp[i][g].feed
    BY <1>21, <1>22, <1>23
<1> HIDE DEF e
<1>7. podEp \in [PodIds -> [Guids -> Eps]] /\ i \in PodIds /\ g \in Guids /\ e \in Eps /\ podEp' = [podEp EXCEPT ![i][g] = e]
    BY <1>2, <1>3, <1>5, <1>6
<1>8. /\ podEp' \in [PodIds -> [Guids -> Eps]] /\ \A h \in PodIds \ {i} : podEp'[h] = podEp[h]
      /\ podEp'[i][g] = e /\ \A h \in Guids \ {g} : podEp'[i][h] = podEp[i][h]
    BY <1>7, EpisodeChanged
<1>9. Kept(i)' = IF e.at = "kept" THEN Kept(i) \cup {g} ELSE Kept(i) \ {g}
    BY <1>7, KeptChanged
<1>10. Kept(i)' = Kept(i) /\ Kept(i) \in SUBSET Guids /\ \A h \in Guids : podEp'[i][h].file = podEp[i][h].file
    BY <1>2, <1>3, <1>6, <1>8, <1>9, KeptAreEpisodes DEF Kept
<1>24. podServer' = podServer /\ podCover' = podCover /\ podSlot' = podSlot /\ podGate' = podGate
    BY <1>1 DEF podWorld, podLocks
<1>11. podDisk' = podDisk /\ podFile' = podFile /\ podPast' = podPast /\ podRow' = podRow /\ Subscribed' = Subscribed
    BY <1>1 DEF podWorld, Subscribed
<1>12. Grows /\ Within({i})
    BY <1>6, <1>8, <1>11 DEF Grows, Within, Subscribed
<1>13. JobWork(w)'
    <2>1. \A h \in k.left : h \in Guids /\ podEp'[k.id][h].at = "pending"
        BY <1>3, <1>4, <1>8 DEF Pending
    <2> QED
        BY <1>4, <2>1, DownloadWork
<1>14. RowAgrees(i)'
    BY <1>3, <1>5, <1>6, <1>8, <1>10, <1>11 DEF RowAgrees
<1>15. \A v \in PodWorkers : podJob'[v].at = podJob[v].at /\ podJob'[v].id = podJob[v].id /\ podJob'[v].file = podJob[v].file
                             /\ podJob'[v].paths = podJob[v].paths
    BY <1>1, <1>2, <1>4 DEF PodInv, PodTyped
<1>16. LinksHold(i)'
    <2>1. \A h \in Kept(i) : Overflowing(i, h)' <=> Overflowing(i, h)
        BY <1>10, <1>11 DEF Overflowing
    <2> QED
        BY <1>5, <1>10, <1>11, <1>15, <2>1 DEF LinksHold
<1>17. OrphansHold(i)'
    <2>1. \A p \in Paths : Unlinked(i, p)' <=> Unlinked(i, p)
        BY <1>10 DEF Unlinked
    <2> QED
        BY <1>5, <1>11, <1>15, <2>1 DEF OrphansHold
<1>18. PodTyped'
    BY <1>4, <1>8, <1>11, <1>24 DEF PodInv, PodTyped
<1>19. k.at \in Downloading \cup Retaining
    BY <1>4 DEF Downloading
<1> QED
    BY <1>1, <1>4, <1>11, <1>12, <1>13, <1>14, <1>16, <1>17, <1>18, <1>19, LateStep

LEMMA EpisodeParts ==
    ASSUME NEW x \in Eps, NEW a, NEW f
    PROVE  [x EXCEPT !.at = a, !.file = f] = [at |-> a, feed |-> x.feed, file |-> f]
<1> DEFINE y == [x EXCEPT !.at = a]
           z == [at |-> a, feed |-> x.feed, file |-> x.file]
<1>1. x = [at |-> x.at, feed |-> x.feed, file |-> x.file]
    BY DEF Eps
<1>2. y = z
    BY <1>1
<1>3. [z EXCEPT !.file = f] = [at |-> a, feed |-> x.feed, file |-> f]
    OBVIOUS
<1>4. [x EXCEPT !.at = a, !.file = f] = [y EXCEPT !.file = f]
    OBVIOUS
<1> HIDE DEF y, z
<1> QED
    BY <1>2, <1>3, <1>4, Zenon

LEMMA StillOverflowing ==
    ASSUME NEW i \in PodIds, NEW h \in Guids, Kept(i) \in SUBSET Guids, Kept(i)' \in SUBSET Guids, Kept(i) \subseteq Kept(i)',
           podRow' = podRow, podRow[i].max \in Nat, Overflowing(i, h)
    PROVE  Overflowing(i, h)'
<1> DEFINE S == Kept(i)
           T == Kept(i)'
           n == podRow[i].max
<1>1. S \in SUBSET T /\ T \in SUBSET Guids /\ h \in T /\ h \in Guids /\ ~(Cardinality(LaterThan(S, h)) < n) /\ n \in Nat /\ h <= h
    BY DEF Overflowing, NewestEpisodes, LaterThan, Guids
<1>2. podRow'[i].max = n
    OBVIOUS
<1> HIDE DEF S, T, n
<1>3. Cardinality(LaterThan(T, h)) \in Nat /\ Cardinality(LaterThan(S, h)) \in Nat /\ Cardinality(LaterThan(S, h)) <= Cardinality(LaterThan(T, h))
    BY <1>1, NewerGrows
<1>4. ~(Cardinality(LaterThan(T, h)) < n)
    BY <1>1, <1>3
<1> QED
    BY <1>1, <1>2, <1>4 DEF Overflowing, NewestEpisodes, LaterThan, T

(* A recorded download is linked to its episode. *)
Links(w) ==
    LET j == podJob[w]
        g == Max(j.left) IN
    /\ podEp' = [podEp EXCEPT ![j.id][g].at = "kept", ![j.id][g].file = j.file]
    /\ podJob' = [podJob EXCEPT ![w].at = "download", ![w].left = @ \ {g}, ![w].next = @ - 1, ![w].file = PodNone]
    /\ UNCHANGED <<podFile, podDisk>>
LEMMA LinkedKeeps ==
    ASSUME PodInv, NEW w \in PodWorkers, NEW j, podJob[w] = j, NEW k, podJob'[w] = k, NEW i, j.id = i, LinkEpisodeFile(w), Links(w)
    PROVE  PodInv'
<1> USE PodAssumption
<1> DEFINE g == Max(j.left)
           p == j.file
           e == [at |-> "kept", feed |-> podEp[i][g].feed, file |-> p]
<1>1. /\ j.at = "link" /\ j.at \in {"record", "link"} /\ j.at # "purge"
      /\ UNCHANGED <<podServer, podRow, podCover, podPast>> /\ UNCHANGED podLocks
    BY DEF LinkEpisodeFile
<1>0. /\ podEp' = [podEp EXCEPT ![i][g].at = "kept", ![i][g].file = p]
      /\ podJob' = [podJob EXCEPT ![w].at = "download", ![w].left = @ \ {g}, ![w].next = @ - 1, ![w].file = PodNone]
      /\ UNCHANGED <<podFile, podDisk>>
    BY DEF Links
<1>2. /\ JobShape(w) /\ i \in PodIds /\ j.paths = {} /\ j.next \in Nat /\ j.next # 0 /\ j.left # {} /\ j.at \in Downloading
      /\ g \in j.left /\ j.left \subseteq Pending(i) /\ g \in Guids /\ podEp[i][g].at = "pending"
      /\ p \in {<<i, 0>>, <<i, g>>} /\ p \in Paths /\ p[1] = i /\ Unlinked(i, p)
      /\ podDisk[p] # PodNone /\ podDisk[p][2] = g /\ podFile[p] = "present"
    BY <1>1, InHand
<1>3. /\ podJob' = [podJob EXCEPT ![w] = k] /\ IsJob(k) /\ k.at = "download" /\ k.file = PodNone /\ k.id = j.id /\ k.row = j.row
      /\ k.own = j.own /\ k.paths = j.paths /\ k.subscriber = j.subscriber /\ k.ver = j.ver /\ k.left = j.left \ {g}
      /\ k.next = j.next - 1
    BY <1>0, <1>2 DEF PodInv, PodTyped, JobShape, IsJob
<1>4. podEp \in [PodIds -> [Guids -> Eps]] /\ podEp[i][g] \in Eps /\ RowAgrees(i) /\ LinksHold(i) /\ OrphansHold(i)
    BY <1>2 DEF PodInv, PodTyped, RowOk
<1>5. i \in Subscribed /\ podEp[i][g].feed \in PodFeeds /\ podRow[i] \in PodRows /\ podRow[i].max \in Nat
    BY <1>2, <1>4 DEF RowAgrees, Subscribed, PodInv, PodTyped, PodRows
<1> HIDE DEF p, g
<1>6. e \in Eps /\ e.at = "kept" /\ e.file = p /\ e.feed = podEp[i][g].feed
    BY <1>2, <1>4 DEF Eps
<1>7. podEp' = [podEp EXCEPT ![i][g] = [podEp[i][g] EXCEPT !.at = "kept", !.file = p]]
    BY <1>0, <1>2, <1>4
<1>8. [podEp[i][g] EXCEPT !.at = "kept", !.file = p] = e
    BY <1>4, EpisodeParts DEF e
<1> HIDE DEF e
<1>9. podEp \in [PodIds -> [Guids -> Eps]] /\ i \in PodIds /\ g \in Guids /\ e \in Eps /\ podEp' = [podEp EXCEPT ![i][g] = e]
    BY <1>2, <1>4, <1>6, <1>7, <1>8
<1>10. /\ podEp' \in [PodIds -> [Guids -> Eps]] /\ \A h \in PodIds \ {i} : podEp'[h] = podEp[h]
       /\ podEp'[i][g] = e /\ \A h \in Guids \ {g} : podEp'[i][h] = podEp[i][h]
    BY <1>9, EpisodeChanged
<1>11. Kept(i)' = IF e.at = "kept" THEN Kept(i) \cup {g} ELSE Kept(i) \ {g}
    BY <1>9, KeptChanged
<1>12. Kept(i)' = Kept(i) \cup {g} /\ Kept(i) \in SUBSET Guids /\ Kept(i)' \in SUBSET Guids /\ g \notin Kept(i)
    BY <1>2, <1>6, <1>11, KeptAreEpisodes DEF Kept
<1>13. podServer' = podServer /\ podCover' = podCover /\ podSlot' = podSlot /\ podGate' = podGate
    BY <1>1 DEF podLocks
<1>14. podDisk' = podDisk /\ podFile' = podFile /\ podPast' = podPast /\ podRow' = podRow /\ Subscribed' = Subscribed
    BY <1>0, <1>1 DEF Subscribed
<1>15. Grows /\ Within({i})
    BY <1>6, <1>10, <1>14 DEF Grows, Within, Subscribed
<1>16. JobWork(w)'
    <2>1. \A h \in k.left : h \in Guids /\ podEp'[k.id][h].at = "pending"
        BY <1>2, <1>3, <1>10 DEF Pending
    <2>2. k.next \in Nat
        BY <1>2, <1>3
    <2> QED
        BY <1>3, <2>1, <2>2, DownloadWork
<1>17. OnlyJob(w)
    BY <1>3, OnlyThisJob
<1>18. RowAgrees(i)'
    <2>1. \A h \in Kept(i)' : podEp'[i][h].file \in {<<i, 0>>, <<i, h>>}
        BY <1>2, <1>4, <1>6, <1>10, <1>12 DEF RowAgrees
    <2>2. p # PodNone
        BY <1>2
    <2>3. \A h \in Guids : /\ podEp'[i][h].file # PodNone <=> podEp'[i][h].at = "kept"
                           /\ podEp'[i][h].at # "absent" => podEp'[i][h].feed \in PodFeeds
        BY <1>4, <1>5, <1>6, <1>10, <2>2 DEF RowAgrees
    <2> QED
        BY <1>5, <1>14, <2>1, <2>3 DEF RowAgrees
<1>19. \A h \in Kept(i) : podEp'[i][h].file = podEp[i][h].file /\ podEp[i][h].file # p /\ h # g
    BY <1>2, <1>10, <1>12 DEF Unlinked
<1>20. LinksHold(i)'
    <2> SUFFICES ASSUME NEW h \in Kept(i)'
                 PROVE  LET q == podEp'[i][h].file IN
                        /\ podFile'[q] = "present"
                        /\ \A x \in Kept(i)' \ {h} : podEp'[i][x].file # q
                        /\ \/ podDisk'[q] # PodNone /\ podDisk'[q][2] = h
                           \/ \E v \in PodWorkers : podJob'[v].at = "purge" /\ podJob'[v].id = i /\ podJob'[v].file = q
                           \/ "cut" \in podPast' /\ (Overflowing(i, h)' \/ podPast' \cap {"patch", "gone"} # {})
        BY DEF LinksHold
    <2>1. CASE h = g
        <3>1. podEp'[i][h].file = p
            BY <1>6, <1>10, <2>1
        <3> QED
            BY <1>2, <1>12, <1>14, <1>19, <2>1, <3>1
    <2>2. CASE h # g
        <3> DEFINE q == podEp[i][h].file
        <3>1. h \in Kept(i) /\ h \in Guids /\ podEp'[i][h].file = q /\ q # p
            BY <1>12, <1>19, <2>2
        <3>2. /\ podFile[q] = "present"
              /\ \A x \in Kept(i) \ {h} : podEp[i][x].file # q
              /\ \/ podDisk[q] # PodNone /\ podDisk[q][2] = h
                 \/ \E v \in PodWorkers : podJob[v].at = "purge" /\ podJob[v].id = i /\ podJob[v].file = q
                 \/ "cut" \in podPast /\ (Overflowing(i, h) \/ podPast \cap {"patch", "gone"} # {})
            BY <1>4, <3>1 DEF LinksHold
        <3> HIDE DEF q
        <3>3. \A x \in Kept(i)' \ {h} : podEp'[i][x].file # q
            BY <1>6, <1>10, <1>12, <1>19, <3>1, <3>2
        <3>4. Overflowing(i, h) => Overflowing(i, h)'
            BY <1>2, <1>5, <1>12, <1>14, <3>1, StillOverflowing
        <3>5. \A v \in PodWorkers : podJob[v].at = "purge" => podJob'[v] = podJob[v]
            BY <1>1, <1>17 DEF OnlyJob
        <3> QED
            BY <1>14, <3>1, <3>2, <3>3, <3>4, <3>5
    <2> QED
        BY <2>1, <2>2
<1>21. OrphansHold(i)'
    <2> SUFFICES ASSUME NEW q \in Paths, q[1] = i, podDisk'[q] # PodNone, Unlinked(i, q)', "cut" \notin podPast'
                 PROVE  \E v \in PodWorkers : q = podJob'[v].file \/ q \in podJob'[v].paths
        BY DEF OrphansHold
    <2>1. q # p /\ Unlinked(i, q)
        BY <1>6, <1>10, <1>12, <1>19 DEF Unlinked
    <2>2. podDisk[q] # PodNone /\ "cut" \notin podPast
        BY <1>14
    <2>3. PICK v \in PodWorkers : q = podJob[v].file \/ q \in podJob[v].paths
        BY <1>4, <2>1, <2>2 DEF OrphansHold
    <2>4. v # w
        BY <1>2, <2>1, <2>3 DEF p
    <2> QED
        BY <1>17, <2>3, <2>4 DEF OnlyJob
<1>22. PodTyped'
    BY <1>3, <1>10, <1>13, <1>14 DEF PodInv, PodTyped
<1>23. k.at \in Downloading \cup Retaining /\ j.at \in {"pending", "retain"} \cup Downloading \cup Retaining
    BY <1>2, <1>3 DEF Downloading
<1> QED
    BY <1>1, <1>3, <1>14, <1>15, <1>16, <1>18, <1>20, <1>21, <1>22, <1>23, LateStep

LEMMA LinkKeeps ==
    ASSUME PodInv, NEW w \in PodWorkers, NEW j, podJob[w] = j, NEW k, podJob'[w] = k, NEW i, j.id = i, LinkEpisodeFile(w)
    PROVE  PodInv'
<1> USE PodAssumption
<1> DEFINE p == j.file
<1>1. /\ j.at = "link" /\ j.at \in {"record", "link"} /\ j.at # "purge"
      /\ UNCHANGED <<podServer, podRow, podCover, podPast>> /\ UNCHANGED podLocks
    BY DEF LinkEpisodeFile
<1>2. /\ JobShape(w) /\ i \in PodIds /\ j.paths = {} /\ j.next \in Nat /\ j.next # 0 /\ j.left # {} /\ j.at \in Downloading
      /\ p \in Paths /\ p[1] = i /\ Unlinked(i, p)
    BY <1>1, InHand
<1>3. CASE podFile' = [podFile EXCEPT ![p] = "none"] /\ podDisk' = [podDisk EXCEPT ![p] = PodNone] /\ GiveUp(w) /\ UNCHANGED podEp
    <2>1. /\ podJob' = [podJob EXCEPT ![w] = k] /\ IsJob(k) /\ k.at = "download" /\ k.file = PodNone /\ k.id = j.id /\ k.row = j.row
          /\ k.own = j.own /\ k.paths = j.paths /\ k.subscriber = j.subscriber /\ k.ver = j.ver /\ JobWork(w)'
        BY <1>1, <1>2, <1>3, GaveUp
    <2>2. j.file \in {PodNone, p}
        OBVIOUS
    <2> HIDE DEF p
    <2>3. podDisk'[p] = PodNone /\ OnlyFile(p) /\ OnlyJob(w)
        BY <1>2, <1>3, <2>1, OnlyThisJob DEF PodInv, PodTyped, OnlyFile
    <2>4. Within({i}) /\ Grows /\ RowAgrees(i)' /\ LinksHold(i)' /\ OrphansHold(i)'
        <3>1. podDisk'[p] = PodNone \/ k.file = p
            BY <2>3
        <3>2. UNCHANGED <<podRow, podEp, podPast>>
            BY <1>1, <1>3
        <3> QED
            BY <1>1, <1>2, <2>2, <2>3, <3>1, <3>2, FileMoves
    <2>5. PodTyped'
        BY <1>1, <1>3, <2>1 DEF PodInv, PodTyped, podLocks
    <2>6. k.at \in Downloading \cup Retaining /\ podRow' = podRow
        BY <1>1, <2>1 DEF Downloading
    <2> QED
        BY <1>1, <1>2, <2>1, <2>4, <2>5, <2>6, LateStep
<1>4. CASE Links(w)
    BY <1>4, LinkedKeeps
<1> QED
    BY <1>3, <1>4, Zenon DEF LinkEpisodeFile, Links, p

(* What is known of a job that removes the oldest downloads. *)
LEMMA InRetention ==
    ASSUME PodInv, NEW w \in PodWorkers, NEW j, podJob[w] = j, NEW i, j.id = i, j.at \in Retaining, j.left # {}
    PROVE  LET g == Min(j.left)
               p == podEp[i][g].file IN
           /\ JobShape(w) /\ i \in PodIds /\ j.own = {i} /\ j.paths = {} /\ (j.at # "purge" => j.file = PodNone)
           /\ Earliest(j.left, Kept(i), j.row.max) /\ j.row.max \in Nat \ {0} /\ j.left \subseteq Kept(i) /\ g \in j.left
           /\ g \in Kept(i) /\ g \in Guids /\ podEp[i][g].at = "kept"
           /\ p \in Paths /\ p[1] = i /\ podFile[p] = "present" /\ \A h \in Kept(i) \ {g} : podEp[i][h].file # p
           /\ RowAgrees(i) /\ LinksHold(i) /\ OrphansHold(i) /\ Kept(i) \in SUBSET Guids
           /\ "gone" \notin podPast /\ "patch" \notin podPast => podRow[i].max = j.row.max
<1> DEFINE g == Min(j.left)
           p == podEp[i][g].file
<1> USE PodAssumption
<1>1. /\ JobShape(w) /\ JobWork(w) /\ Fresh(w) /\ i \in PodIds /\ j.own = {i} /\ j.paths = {} /\ j.row.max \in Nat \ {0}
      /\ (j.at # "purge" => j.file = PodNone) /\ j.at \in Subscribing
    BY LatePlace DEF Retaining
<1>2. Earliest(j.left, Kept(i), j.row.max)
    BY <1>1 DEF JobWork
<1>3. Kept(i) \in SUBSET Guids /\ j.left \subseteq Kept(i)
    BY <1>1, <1>2, KeptAreEpisodes DEF Earliest
<1>4. j.left \in SUBSET Nat
    BY <1>3 DEF Guids
<1>5. g \in j.left
    BY <1>4, MinIsSmallest
<1>6. g \in Kept(i) /\ g \in Guids /\ podEp[i][g].at = "kept"
    BY <1>3, <1>5 DEF Kept
<1>7. RowAgrees(i) /\ LinksHold(i) /\ OrphansHold(i)
    BY <1>1 DEF PodInv, RowOk
<1>8. p \in {<<i, 0>>, <<i, g>>}
    BY <1>6, <1>7 DEF RowAgrees
<1>9. p \in Paths /\ p[1] = i
    BY <1>1, <1>6, <1>8 DEF Paths
<1>10. podFile[p] = "present" /\ \A h \in Kept(i) \ {g} : podEp[i][h].file # p
    BY <1>6, <1>7 DEF LinksHold
<1>11. "gone" \notin podPast /\ "patch" \notin podPast => podRow[i].max = j.row.max
    BY <1>1 DEF Fresh
<1> QED
    BY <1>1, <1>2, <1>3, <1>5, <1>6, <1>7, <1>9, <1>10, <1>11

LEMMA RemoveOldestKeeps ==
    ASSUME PodInv, NEW w \in PodWorkers, NEW j, podJob[w] = j, NEW k, podJob'[w] = k, NEW i, j.id = i, RemoveOldest(w)
    PROVE  PodInv'
<1> USE PodAssumption
<1> DEFINE g == Min(j.left)
           p == podEp[i][g].file
<1>1. /\ j.at = "remove" /\ j.left # {} /\ j.at \in Retaining /\ j.at \notin {"record", "link", "purge", "clean"}
      /\ UNCHANGED <<podServer, podRow, podEp, podFile, podCover, podPast>> /\ UNCHANGED podStore
    BY DEF RemoveOldest, Retaining, podStore
<1>2. /\ JobShape(w) /\ i \in PodIds /\ j.own = {i} /\ j.paths = {} /\ j.file = PodNone
      /\ Earliest(j.left, Kept(i), j.row.max) /\ g \in j.left
      /\ g \in Kept(i) /\ g \in Guids /\ p \in Paths /\ p[1] = i /\ \A h \in Kept(i) \ {g} : podEp[i][h].file # p
      /\ RowAgrees(i) /\ LinksHold(i) /\ OrphansHold(i) /\ Kept(i) \in SUBSET Guids
    BY <1>1, InRetention
<1>5. g = Min(j.left) /\ p = podEp[i][g].file
    OBVIOUS
<1> HIDE DEF g, p
<1>3. CASE Leave(w) /\ UNCHANGED podDisk
    <2>1. Locks(w) /\ JobOk(w)'
        BY <1>3, LeaveRests
    <2>2. UNCHANGED <<podServer, podStore, podWorld, podPast>>
        BY <1>1, <1>3 DEF podWorld
    <2> QED
        BY <1>1, <2>1, <2>2, MoveStep
<1>4. CASE /\ podDisk' = [podDisk EXCEPT ![p] = PodNone]
           /\ podJob' = [podJob EXCEPT ![w].at = "purge", ![w].file = p]
           /\ UNCHANGED podLocks
    <2>1. /\ podJob' = [podJob EXCEPT ![w] = k] /\ IsJob(k) /\ k.at = "purge" /\ k.file = p /\ k.id = j.id /\ k.row = j.row
          /\ k.own = j.own /\ k.paths = j.paths /\ k.subscriber = j.subscriber /\ k.ver = j.ver /\ k.left = j.left
        BY <1>2, <1>4 DEF PodInv, PodTyped, JobShape, IsJob
    <2>3. podDisk'[p] = PodNone /\ OnlyFile(p) /\ OnlyJob(w) /\ podFile' = podFile
        BY <1>1, <1>2, <1>4, <2>1, OnlyThisJob DEF PodInv, PodTyped, OnlyFile
    <2>4. /\ Kept(i)' = Kept(i) /\ Subscribed' = Subscribed /\ podEp' = podEp /\ podPast' = podPast /\ podRow' = podRow
        BY <1>1, SameKept DEF Subscribed
    <2>5. Within({i}) /\ Grows
        BY <1>2, <2>3, <2>4 DEF Within, Grows, OnlyFile
    <2>6. RowAgrees(i)'
        BY <1>2, <2>4 DEF RowAgrees
    <2>7. LinksHold(i)'
        <3> SUFFICES ASSUME NEW h \in Kept(i)
                     PROVE  LET q == podEp[i][h].file IN
                            /\ podFile[q] = "present"
                            /\ \A x \in Kept(i) \ {h} : podEp[i][x].file # q
                            /\ \/ podDisk'[q] # PodNone /\ podDisk'[q][2] = h
                               \/ \E v \in PodWorkers : podJob'[v].at = "purge" /\ podJob'[v].id = i /\ podJob'[v].file = q
                               \/ "cut" \in podPast' /\ (Overflowing(i, h)' \/ podPast' \cap {"patch", "gone"} # {})
            BY <2>3, <2>4 DEF LinksHold
        <3> DEFINE q == podEp[i][h].file
        <3>1. /\ podFile[q] = "present"
              /\ \A x \in Kept(i) \ {h} : podEp[i][x].file # q
              /\ \/ podDisk[q] # PodNone /\ podDisk[q][2] = h
                 \/ \E v \in PodWorkers : podJob[v].at = "purge" /\ podJob[v].id = i /\ podJob[v].file = q
                 \/ "cut" \in podPast /\ (Overflowing(i, h) \/ podPast \cap {"patch", "gone"} # {})
            BY <1>2 DEF LinksHold
        <3>2. CASE h = g
            <4>1. podJob'[w].at = "purge" /\ podJob'[w].id = i /\ podJob'[w].file = q
                BY <2>1, <1>5, <3>2
            <4> QED
                BY <3>1, <4>1
        <3>3. CASE h # g
            <4>1. h \in Guids /\ q \in {<<i, 0>>, <<i, h>>} /\ q # p
                BY <1>2, <3>3 DEF RowAgrees
            <4>2. q \in Paths
                BY <1>2, <4>1 DEF Paths
            <4>3. podDisk'[q] = podDisk[q]
                BY <2>3, <4>1, <4>2 DEF OnlyFile
            <4>4. Overflowing(i, h)' <=> Overflowing(i, h)
                BY <2>4 DEF Overflowing
            <4>5. \A v \in PodWorkers : podJob[v].at = "purge" => podJob'[v] = podJob[v]
                BY <1>1, <2>3 DEF OnlyJob
            <4> QED
                BY <2>4, <3>1, <4>3, <4>4, <4>5
        <3> QED
            BY <3>2, <3>3
    <2>8. OrphansHold(i)'
        <3> SUFFICES ASSUME NEW q \in Paths, q[1] = i, podDisk'[q] # PodNone, Unlinked(i, q)', "cut" \notin podPast'
                     PROVE  \E v \in PodWorkers : q = podJob'[v].file \/ q \in podJob'[v].paths
            BY DEF OrphansHold
        <3>1. Unlinked(i, q) /\ q # p
            BY <2>3, <2>4 DEF Unlinked
        <3>2. podDisk[q] # PodNone /\ "cut" \notin podPast
            BY <2>3, <2>4, <3>1 DEF OnlyFile
        <3>3. PICK v \in PodWorkers : q = podJob[v].file \/ q \in podJob[v].paths
            BY <1>2, <3>1, <3>2 DEF OrphansHold
        <3>4. v # w
            BY <1>2, <3>3
        <3> QED
            BY <2>3, <3>3, <3>4 DEF OnlyJob
    <2>9. JobWork(w)'
        <3>1. Earliest(k.left, Kept(k.id)', k.row.max)
            BY <1>2, <2>1, <2>4
        <3>2. k.left # {} /\ k.file = podEp'[k.id][Min(k.left)].file /\ podDisk'[k.file] = PodNone
            BY <1>1, <2>1, <1>5, <2>3, <2>4
        <3> QED
            BY <2>1, <3>1, <3>2 DEF JobWork, Downloading
    <2>10. PodTyped'
        BY <1>1, <1>4, <2>1 DEF PodInv, PodTyped, podLocks
    <2>11. k.at \in Downloading \cup Retaining /\ k.at \in {"record", "link", "purge"}
        BY <2>1 DEF Retaining
    <2>12. UNCHANGED podLocks /\ j.at \in {"pending", "retain"} \cup Downloading \cup Retaining
        BY <1>1, <1>4
    <2>13. /\ podJob' = [podJob EXCEPT ![w] = k] /\ IsJob(k) /\ k.id = j.id /\ k.row = j.row /\ k.own = j.own
           /\ k.paths = j.paths /\ k.subscriber = j.subscriber /\ k.ver = j.ver /\ podRow' = podRow
        BY <2>1, <2>4
    <2> QED
        BY <2>5, <2>6, <2>7, <2>8, <2>9, <2>10, <2>11, <2>12, <2>13, LateStep
<1> QED
    BY <1>3, <1>4, Zenon DEF RemoveOldest, g, p

LEMMA NotTheNewest ==
    ASSUME NEW i \in PodIds, NEW L, NEW n \in Nat, Earliest(L, Kept(i), n), podRow[i].max = n, NEW g \in L
    PROVE  Overflowing(i, g)
<1>1. Kept(i) \in SUBSET Guids /\ g \in Kept(i) /\ Cardinality(LaterThan(Kept(i), g)) >= n
    BY KeptAreEpisodes DEF Earliest
<1>2. LaterThan(Kept(i), g) \in SUBSET Guids
    BY <1>1 DEF LaterThan
<1>3. Cardinality(LaterThan(Kept(i), g)) \in Nat
    BY <1>2, EpisodesAreFinite
<1>4. ~(Cardinality(LaterThan(Kept(i), g)) < n)
    BY <1>1, <1>3
<1> QED
    BY <1>1, <1>4 DEF Overflowing, NewestEpisodes, LaterThan

(* The row and the episode follow the file that is gone. *)
Purges(w) ==
    LET j == podJob[w]
        g == Min(j.left) IN
    /\ podFile' = [podFile EXCEPT ![j.file] = "missing"]
    /\ podEp' = [podEp EXCEPT ![j.id][g].at = "seen", ![j.id][g].file = PodNone]
    /\ podJob' = [podJob EXCEPT ![w].at = "remove", ![w].left = @ \ {g}, ![w].file = PodNone]
    /\ UNCHANGED <<podLocks, podPast>>

LEMMA PurgedKeeps ==
    ASSUME PodInv, NEW w \in PodWorkers, NEW j, podJob[w] = j, NEW k, podJob'[w] = k, NEW i, j.id = i, PurgeEpisode(w), Purges(w)
    PROVE  PodInv'
<1> USE PodAssumption
<1> DEFINE g == Min(j.left)
           p == podEp[i][g].file
           e == [at |-> "seen", feed |-> podEp[i][g].feed, file |-> PodNone]
<1>1. /\ j.at = "purge" /\ j.at \in Retaining
      /\ UNCHANGED <<podServer, podRow, podDisk, podCover>>
    BY DEF PurgeEpisode, Retaining, podWorld
<1>2. j.left # {} /\ j.file = p /\ podDisk[p] = PodNone
    BY <1>1 DEF PodInv, JobOk, JobWork
<1>3. /\ JobShape(w) /\ i \in PodIds /\ j.own = {i} /\ j.paths = {}
      /\ Earliest(j.left, Kept(i), j.row.max) /\ j.row.max \in Nat \ {0} /\ j.left \subseteq Kept(i) /\ g \in j.left
      /\ g \in Kept(i) /\ g \in Guids /\ p \in Paths /\ p[1] = i /\ \A h \in Kept(i) \ {g} : podEp[i][h].file # p
      /\ RowAgrees(i) /\ LinksHold(i) /\ OrphansHold(i) /\ Kept(i) \in SUBSET Guids
    BY <1>1, <1>2, InRetention
<1>4. /\ podFile' = [podFile EXCEPT ![p] = "missing"]
      /\ podEp' = [podEp EXCEPT ![i][g].at = "seen", ![i][g].file = PodNone]
      /\ podJob' = [podJob EXCEPT ![w].at = "remove", ![w].left = @ \ {g}, ![w].file = PodNone]
      /\ UNCHANGED podLocks /\ podPast' = podPast
    BY <1>2 DEF Purges
<1>5. g = Min(j.left) /\ p = podEp[i][g].file
    OBVIOUS
<1> HIDE DEF g, p
<1>6. /\ podJob' = [podJob EXCEPT ![w] = k] /\ IsJob(k) /\ k.at = "remove" /\ k.file = PodNone /\ k.id = j.id /\ k.row = j.row
      /\ k.own = j.own /\ k.paths = j.paths /\ k.subscriber = j.subscriber /\ k.ver = j.ver /\ k.left = j.left \ {g}
    BY <1>3, <1>4 DEF PodInv, PodTyped, JobShape, IsJob
<1>7. podEp \in [PodIds -> [Guids -> Eps]] /\ podEp[i][g] \in Eps
    BY <1>3 DEF PodInv, PodTyped
<1>8. e \in Eps /\ e.at = "seen" /\ e.file = PodNone /\ e.feed = podEp[i][g].feed
    BY <1>7 DEF Eps
<1>9. podEp' = [podEp EXCEPT ![i][g] = [podEp[i][g] EXCEPT !.at = "seen", !.file = PodNone]]
    BY <1>3, <1>4, <1>7
<1>10. [podEp[i][g] EXCEPT !.at = "seen", !.file = PodNone] = e
    BY <1>7, EpisodeParts DEF e
<1> HIDE DEF e
<1>11. podEp \in [PodIds -> [Guids -> Eps]] /\ i \in PodIds /\ g \in Guids /\ e \in Eps /\ podEp' = [podEp EXCEPT ![i][g] = e]
    BY <1>3, <1>7, <1>8, <1>9, <1>10
<1>12. /\ podEp' \in [PodIds -> [Guids -> Eps]] /\ \A h \in PodIds \ {i} : podEp'[h] = podEp[h]
       /\ podEp'[i][g] = e /\ \A h \in Guids \ {g} : podEp'[i][h] = podEp[i][h]
    BY <1>11, EpisodeChanged
<1>13. Kept(i)' = IF e.at = "kept" THEN Kept(i) \cup {g} ELSE Kept(i) \ {g}
    BY <1>11, KeptChanged
<1>14. Kept(i)' = Kept(i) \ {g}
    BY <1>8, <1>13
<1>15. podServer' = podServer /\ podCover' = podCover /\ podSlot' = podSlot /\ podGate' = podGate
    BY <1>1, <1>4 DEF podLocks
<1>16. podDisk' = podDisk /\ podPast' = podPast /\ podRow' = podRow /\ Subscribed' = Subscribed
    BY <1>1, <1>4 DEF Subscribed
<1>17. OnlyJob(w) /\ OnlyFile(p)
    BY <1>3, <1>4, <1>6, <1>16, OnlyThisJob DEF OnlyFile, PodInv, PodTyped
<1>18. Grows /\ Within({i})
    BY <1>3, <1>8, <1>12, <1>16, <1>17 DEF Grows, Within, Subscribed, OnlyFile
<1>19. /\ Earliest(j.left \ {g}, Kept(i) \ {g}, j.row.max)
       /\ \A h \in Kept(i) \ {g} : LaterThan(Kept(i) \ {g}, h) = LaterThan(Kept(i), h)
    <2> DEFINE S == Kept(i)
               L == j.left
               n == j.row.max
    <2>1. S \in SUBSET Guids /\ L \in SUBSET S /\ L # {} /\ n \in Nat \ {0} /\ Earliest(L, S, n)
        BY <1>2, <1>3
    <2> HIDE DEF S, L, n
    <2>2. /\ Earliest(L \ {Min(L)}, S \ {Min(L)}, n)
          /\ \A h \in S \ {Min(L)} : LaterThan(S \ {Min(L)}, h) = LaterThan(S, h)
        BY <2>1, OldestGoes
    <2> QED
        BY <1>5, <2>2 DEF S, L, n
<1>20. JobWork(w)'
    <2>1. Kept(i)' = {h \in Guids : podEp'[k.id][h].at = "kept"}
        BY <1>6 DEF Kept
    <2>2. Earliest(k.left, Kept(i)', k.row.max)
        BY <1>6, <1>14, <1>19
    <2> QED
        BY <1>6, <2>1, <2>2, RemoveWork
<1>21. RowAgrees(i)'
    <2>1. \A h \in Kept(i)' : podEp'[i][h].file \in {<<i, 0>>, <<i, h>>}
        BY <1>3, <1>12, <1>14 DEF RowAgrees
    <2>2. i \in Subscribed
        BY <1>3 DEF RowAgrees, Kept
    <2>3. \A h \in Guids : /\ podEp'[i][h].file # PodNone <=> podEp'[i][h].at = "kept"
                           /\ podEp'[i][h].at # "absent" => podEp'[i][h].feed \in PodFeeds
        <3>1. podEp[i][g].feed \in PodFeeds
            BY <1>3 DEF RowAgrees, Kept
        <3> QED
            BY <1>3, <1>8, <1>12, <3>1 DEF RowAgrees
    <2> QED
        BY <1>16, <2>1, <2>2, <2>3 DEF RowAgrees
<1>22. LinksHold(i)'
    <2> SUFFICES ASSUME NEW h \in Kept(i) \ {g}
                 PROVE  LET q == podEp'[i][h].file IN
                        /\ podFile'[q] = "present"
                        /\ \A x \in Kept(i)' \ {h} : podEp'[i][x].file # q
                        /\ \/ podDisk'[q] # PodNone /\ podDisk'[q][2] = h
                           \/ \E v \in PodWorkers : podJob'[v].at = "purge" /\ podJob'[v].id = i /\ podJob'[v].file = q
                           \/ "cut" \in podPast' /\ (Overflowing(i, h)' \/ podPast' \cap {"patch", "gone"} # {})
        BY <1>14 DEF LinksHold
    <2> DEFINE q == podEp[i][h].file
    <2>1. h \in Guids /\ podEp'[i][h].file = q /\ q # p /\ q \in {<<i, 0>>, <<i, h>>}
        BY <1>3, <1>12 DEF RowAgrees
    <2>2. /\ podFile[q] = "present"
          /\ \A x \in Kept(i) \ {h} : podEp[i][x].file # q
          /\ \/ podDisk[q] # PodNone /\ podDisk[q][2] = h
             \/ \E v \in PodWorkers : podJob[v].at = "purge" /\ podJob[v].id = i /\ podJob[v].file = q
             \/ "cut" \in podPast /\ (Overflowing(i, h) \/ podPast \cap {"patch", "gone"} # {})
        BY <1>3 DEF LinksHold
    <2> HIDE DEF q
    <2>3. podFile'[q] = "present"
        BY <1>3, <1>17, <2>1, <2>2 DEF OnlyFile, Paths
    <2>4. \A x \in Kept(i)' \ {h} : podEp'[i][x].file # q
        BY <1>3, <1>12, <1>14, <2>1, <2>2
    <2>5. Overflowing(i, h) => Overflowing(i, h)'
        <3>1. LaterThan(Kept(i)', h) = LaterThan(Kept(i), h)
            BY <1>14, <1>19
        <3> QED
            BY <1>14, <1>16, <3>1 DEF Overflowing, NewestEpisodes, LaterThan
    <2>6. \A v \in PodWorkers : podJob[v].file = q => podJob'[v] = podJob[v]
        BY <1>2, <1>17, <2>1 DEF OnlyJob
    <2> QED
        BY <1>16, <2>1, <2>2, <2>3, <2>4, <2>5, <2>6
<1>23. OrphansHold(i)'
    <2> SUFFICES ASSUME NEW q \in Paths, q[1] = i, podDisk'[q] # PodNone, Unlinked(i, q)', "cut" \notin podPast'
                 PROVE  \E v \in PodWorkers : q = podJob'[v].file \/ q \in podJob'[v].paths
        BY DEF OrphansHold
    <2>1. q # p /\ podDisk[q] # PodNone /\ "cut" \notin podPast
        BY <1>2, <1>16
    <2>2. Unlinked(i, q)
        BY <1>3, <1>5, <1>12, <1>14, <2>1 DEF Unlinked
    <2>3. PICK v \in PodWorkers : q = podJob[v].file \/ q \in podJob[v].paths
        BY <1>3, <2>1, <2>2 DEF OrphansHold
    <2>4. v # w
        BY <1>2, <1>3, <2>1, <2>3
    <2> QED
        BY <1>17, <2>3, <2>4 DEF OnlyJob
<1>24. PodTyped'
    BY <1>4, <1>6, <1>12, <1>15, <1>16 DEF PodInv, PodTyped
<1>25. k.at \in Downloading \cup Retaining /\ j.at \in {"pending", "retain"} \cup Downloading \cup Retaining
    BY <1>1, <1>6 DEF Retaining
<1> QED
    BY <1>4, <1>6, <1>16, <1>18, <1>20, <1>21, <1>22, <1>23, <1>24, <1>25, LateStep

LEMMA PurgeKeeps ==
    ASSUME PodInv, NEW w \in PodWorkers, NEW j, podJob[w] = j, NEW k, podJob'[w] = k, NEW i, j.id = i, PurgeEpisode(w)
    PROVE  PodInv'
<1> USE PodAssumption
<1> DEFINE g == Min(j.left)
           p == podEp[i][g].file
<1>1. /\ j.at = "purge" /\ j.at \in Retaining
      /\ UNCHANGED <<podServer, podRow, podDisk, podCover>>
    BY DEF PurgeEpisode, Retaining, podWorld
<1>2. j.left # {}
    BY <1>1 DEF PodInv, JobOk, JobWork
<1>6. j.file = p
    BY <1>1 DEF PodInv, JobOk, JobWork
<1>3. /\ JobShape(w) /\ i \in PodIds /\ j.own = {i} /\ j.paths = {}
      /\ Earliest(j.left, Kept(i), j.row.max) /\ j.row.max \in Nat \ {0} /\ j.left \subseteq Kept(i) /\ g \in j.left
      /\ g \in Kept(i) /\ g \in Guids /\ p \in Paths /\ p[1] = i /\ \A h \in Kept(i) \ {g} : podEp[i][h].file # p
      /\ RowAgrees(i) /\ LinksHold(i) /\ OrphansHold(i) /\ Kept(i) \in SUBSET Guids
      /\ "gone" \notin podPast /\ "patch" \notin podPast => podRow[i].max = j.row.max
    BY <1>1, <1>2, InRetention, SMTT(40)
<1>4. CASE Leave(w) /\ podPast' = podPast \cup {"cut"} /\ UNCHANGED <<podFile, podEp>>
    <2> HIDE DEF g, p
    <2>1. Locks(w) /\ podJob'[w] = Resting /\ JobOk(w)'
        BY <1>4, LeaveRests
    <2>2. /\ Kept(i)' = Kept(i) /\ Subscribed' = Subscribed /\ podEp' = podEp /\ podRow' = podRow /\ podFile' = podFile
          /\ podDisk' = podDisk /\ podPast' = podPast \cup {"cut"}
        BY <1>1, <1>4, SameKept DEF Subscribed
    <2>3. Within({i}) /\ Grows
        BY <2>2 DEF Within, Grows
    <2>4. RowAgrees(i)'
        BY <1>3, <2>2 DEF RowAgrees
    <2>5. OnlyJob(w)
        BY <2>1 DEF Locks, OnlyJob, PodInv, PodTyped
    <2>6. podPast' \cap {"patch", "gone"} # {} \/ podRow[i].max = j.row.max
        BY <1>3, <2>2
    <2>7. LinksHold(i)'
        <3> SUFFICES ASSUME NEW h \in Kept(i)
                     PROVE  LET q == podEp[i][h].file IN
                            /\ podFile[q] = "present"
                            /\ \A x \in Kept(i) \ {h} : podEp[i][x].file # q
                            /\ \/ podDisk[q] # PodNone /\ podDisk[q][2] = h
                               \/ \E v \in PodWorkers : podJob'[v].at = "purge" /\ podJob'[v].id = i /\ podJob'[v].file = q
                               \/ "cut" \in podPast' /\ (Overflowing(i, h)' \/ podPast' \cap {"patch", "gone"} # {})
            BY <2>2 DEF LinksHold
        <3> DEFINE q == podEp[i][h].file
        <3>1. /\ podFile[q] = "present"
              /\ \A x \in Kept(i) \ {h} : podEp[i][x].file # q
              /\ \/ podDisk[q] # PodNone /\ podDisk[q][2] = h
                 \/ \E v \in PodWorkers : podJob[v].at = "purge" /\ podJob[v].id = i /\ podJob[v].file = q
                 \/ "cut" \in podPast /\ (Overflowing(i, h) \/ podPast \cap {"patch", "gone"} # {})
            BY <1>3 DEF LinksHold
        <3>2. Overflowing(i, h)' <=> Overflowing(i, h)
            BY <2>2 DEF Overflowing
        <3>3. CASE h = g
            <4>1. podRow[i].max = j.row.max => Overflowing(i, h)
                BY <1>3, <3>3, NotTheNewest
            <4> QED
                BY <2>2, <2>6, <3>1, <3>2, <4>1
        <3>4. CASE h # g
            <4>1. q # p
                BY <1>3, <3>4
            <4>2. \A v \in PodWorkers : podJob[v].file = q => podJob'[v] = podJob[v]
                BY <1>6, <2>5, <4>1 DEF OnlyJob
            <4> QED
                BY <2>2, <3>1, <3>2, <4>2
        <3> QED
            BY <3>3, <3>4
    <2>8. OrphansHold(i)'
        BY <2>2 DEF OrphansHold
    <2>9. PodTyped'
        BY <1>1, <2>1, <2>2 DEF Locks, PodInv, PodTyped
    <2> QED
        BY <1>3, <2>1, <2>2, <2>3, <2>4, <2>7, <2>8, <2>9, OnePodcastStep
<1>5. CASE Purges(w)
    BY <1>5, PurgedKeeps
<1> QED
    BY <1>4, <1>5, Zenon DEF PurgeEpisode, Purges, g, p

LEMMA DeleteRowsKeeps ==
    ASSUME PodInv, NEW w \in PodWorkers, NEW j, podJob[w] = j, NEW k, podJob'[w] = k, NEW O, j.own = O, DeleteRows(w)
    PROVE  PodInv'
<1> USE PodAssumption
<1> DEFINE files == UNION {FilesOf(i) : i \in O}
<1>1. /\ j.at = "delete" /\ UNCHANGED <<podServer, podDisk, podCover>> /\ UNCHANGED podLocks
      /\ podPast' = podPast \cup {"gone"} /\ DeleteWithFiles(O, files)
    BY DEF DeleteRows, podWorld
<1>2. /\ podRow' = [i \in PodIds |-> IF i \in O THEN PodNone ELSE podRow[i]]
      /\ podEp' = [i \in PodIds |-> IF i \in O THEN [g \in Guids |-> NoEpisode] ELSE podEp[i]]
      /\ podFile' = [p \in Paths |-> IF p \in files THEN "none" ELSE podFile[p]]
    BY <1>1 DEF DeleteWithFiles
<1>3. JobShape(w) /\ O \subseteq podSlot /\ O \subseteq PodIds /\ j.file = PodNone /\ j.paths = {} /\ j.subscriber = FALSE
    <2>1. JobShape(w)
        BY DEF PodInv, JobOk
    <2> QED
        BY <1>1, <2>1 DEF JobShape, PodInv, PodTyped, Subscribing, Working, Fetching, Downloading, Retaining
<1>4. /\ podJob' = [podJob EXCEPT ![w] = k] /\ IsJob(k) /\ k.at = "clean" /\ k.own = O /\ k.paths = files /\ k.file = PodNone
      /\ k.subscriber = FALSE
    <2>1. podJob' = [podJob EXCEPT ![w].at = "clean", ![w].paths = files,
                                   ![w].left = {i \in O : podRow[i] # PodNone /\ podRow[i].cover}]
        BY DEF DeleteRows
    <2> HIDE DEF files
    <2> QED
        BY <1>3, <2>1 DEF PodInv, PodTyped, JobShape, IsJob
<1>5. \A i \in O : RowAgrees(i) /\ OrphansHold(i) /\ Kept(i) \in SUBSET Guids
    BY <1>3, KeptAreEpisodes DEF PodInv, RowOk
<1>6. \A p \in files : p \in Paths /\ p[1] \in O
    <2> SUFFICES ASSUME NEW i \in O, NEW g \in Kept(i)
                 PROVE  podEp[i][g].file \in Paths /\ podEp[i][g].file[1] \in O
        BY DEF FilesOf
    <2>1. podEp[i][g].file \in {<<i, 0>>, <<i, g>>} /\ g \in Guids /\ i \in PodIds
        BY <1>3, <1>5 DEF RowAgrees
    <2> QED
        BY <2>1 DEF Paths
<1>7. \A i \in O : \A g \in Kept(i) : podEp[i][g].file \in files
    BY DEF FilesOf
<1> HIDE DEF files
<1>8. OnlyJob(w) /\ "gone" \in podPast' /\ podPast \subseteq podPast' /\ podDisk' = podDisk
    BY <1>1, <1>4, OnlyThisJob
<1>9. NoEpisode \in Eps /\ NoEpisode.at = "absent" /\ NoEpisode.file = PodNone
    BY DEF NoEpisode, Eps
<1>10. PodTyped'
    <2>1. podRow' \in [PodIds -> PodRows \cup {PodNone}]
        BY <1>2 DEF PodInv, PodTyped
    <2>2. podEp' \in [PodIds -> [Guids -> Eps]]
        BY <1>2, <1>9 DEF PodInv, PodTyped
    <2>3. podFile' \in [Paths -> {"none", "present", "missing"}]
        BY <1>2 DEF PodInv, PodTyped
    <2>4. podJob' = [v \in PodWorkers |-> podJob'[v]]
        BY <1>4 DEF PodInv, PodTyped
    <2> QED
        BY <1>1, <2>1, <2>2, <2>3, <2>4 DEF PodInv, PodTyped, podLocks
<1>11. Within(O)
    BY <1>2, <1>6, <1>8 DEF Within
<1>12. Grows
    BY <1>8 DEF Grows
<1>13. Locks(w)
    BY <1>1, <1>3, <1>4 DEF Locks, podLocks, PodInv, PodTyped
<1>14. \A i \in O : Kept(i)' = {} /\ i \notin Subscribed' /\ \A g \in Guids : podEp'[i][g] = NoEpisode
    BY <1>2, <1>3, <1>9 DEF Kept, Subscribed
<1>15. JobOk(w)'
    <2>1. JobShape(w)'
        BY <1>1, <1>3, <1>4 DEF JobShape, podLocks, Subscribing, Working, Fetching, Downloading, Retaining
    <2>2. JobWork(w)'
        BY <1>4, <1>6, <1>14 DEF JobWork, Downloading, Retaining
    <2>3. Fresh(w)'
        BY <1>8 DEF Fresh
    <2> QED
        BY <2>1, <2>2, <2>3 DEF JobOk
<1>16. \A i \in PodIds \ O : RowStays(i) /\ EtagHolds(i)'
    BY <1>2, <1>8 DEF RowStays, EtagHolds, Subscribed
<1>17. ASSUME NEW i \in O PROVE RowOk(i)'
    <2>1. RowAgrees(i)'
        BY <1>9, <1>14 DEF RowAgrees
    <2>2. LinksHold(i)'
        BY <1>14 DEF LinksHold
    <2>3. EtagHolds(i)'
        BY <1>14 DEF EtagHolds
    <2>4. OrphansHold(i)'
        <3> SUFFICES ASSUME NEW q \in Paths, q[1] = i, podDisk'[q] # PodNone, "cut" \notin podPast'
                     PROVE  \E v \in PodWorkers : q = podJob'[v].file \/ q \in podJob'[v].paths
            BY DEF OrphansHold
        <3>1. CASE Unlinked(i, q)
            <4>1. podDisk[q] # PodNone /\ "cut" \notin podPast
                BY <1>8
            <4>2. PICK v \in PodWorkers : q = podJob[v].file \/ q \in podJob[v].paths
                BY <1>5, <3>1, <4>1 DEF OrphansHold
            <4>3. v # w
                BY <1>3, <4>2
            <4> QED
                BY <1>8, <4>2, <4>3 DEF OnlyJob
        <3>2. CASE ~Unlinked(i, q)
            <4>1. q \in k.paths
                BY <1>4, <1>7, <3>2 DEF Unlinked
            <4> QED
                BY <4>1
        <3> QED
            BY <3>1, <3>2
    <2> QED
        BY <2>1, <2>2, <2>3, <2>4 DEF RowOk
<1> QED
    BY <1>10, <1>11, <1>12, <1>13, <1>15, <1>16, <1>17, WorkerStep

LEMMA RemoveFilesKeeps ==
    ASSUME PodInv, NEW w \in PodWorkers, NEW j, podJob[w] = j, NEW O, j.own = O, RemoveFiles(w)
    PROVE  PodInv'
<1> USE PodAssumption
<1>1. /\ j.at = "clean" /\ UNCHANGED <<podServer, podRow, podEp, podFile, podPast>> /\ Leave(w)
      /\ podDisk' = [p \in Paths |-> IF p \in j.paths THEN PodNone ELSE podDisk[p]] /\ podCover' = podCover \ j.left
    BY DEF RemoveFiles, podStore
<1>2. /\ JobShape(w) /\ O \subseteq PodIds /\ j.file = PodNone
      /\ (\A i \in O : Kept(i) = {}) /\ \A p \in j.paths : p \in Paths /\ p[1] \in O
    <2>1. JobShape(w) /\ JobWork(w)
        BY DEF PodInv, JobOk
    <2>2. O \subseteq PodIds /\ j.file = PodNone
        BY <1>1, <2>1 DEF JobShape, PodInv, PodTyped
    <2> QED
        BY <1>1, <2>1, <2>2 DEF JobWork
<1>3. Locks(w) /\ podJob'[w] = Resting /\ JobOk(w)'
    BY <1>1, LeaveRests
<1>4. OnlyJob(w)
    BY <1>3 DEF Locks, OnlyJob, PodInv, PodTyped
<1>5. PodTyped'
    BY <1>1, <1>3 DEF Locks, PodInv, PodTyped
<1>6. Within(O) /\ Grows /\ Subscribed' = Subscribed
    BY <1>1, <1>2 DEF Within, Grows, Subscribed
<1>7. \A i \in PodIds : EtagHolds(i)' /\ RowStays(i)
    BY <1>1, <1>6 DEF RowStays, EtagHolds, Covered, PodInv, RowOk
<1>8. ASSUME NEW i \in O PROVE RowOk(i)'
    <2>1. /\ i \in PodIds /\ Kept(i)' = Kept(i) /\ Kept(i) = {} /\ RowAgrees(i) /\ OrphansHold(i)
        BY <1>1, <1>2, SameKept DEF PodInv, RowOk
    <2>2. RowAgrees(i)'
        BY <1>1, <1>6, <2>1 DEF RowAgrees
    <2>3. LinksHold(i)'
        BY <2>1 DEF LinksHold
    <2>4. OrphansHold(i)'
        <3> SUFFICES ASSUME NEW q \in Paths, q[1] = i, podDisk'[q] # PodNone, "cut" \notin podPast'
                     PROVE  \E v \in PodWorkers : q = podJob'[v].file \/ q \in podJob'[v].paths
            BY DEF OrphansHold
        <3>1. podDisk[q] # PodNone /\ "cut" \notin podPast /\ q \notin j.paths /\ Unlinked(i, q)
            BY <1>1, <2>1 DEF Unlinked
        <3>2. PICK v \in PodWorkers : q = podJob[v].file \/ q \in podJob[v].paths
            BY <2>1, <3>1 DEF OrphansHold
        <3>3. v # w
            BY <1>2, <3>1, <3>2
        <3> QED
            BY <1>4, <3>2, <3>3 DEF OnlyJob
    <2> QED
        BY <1>7, <2>1, <2>2, <2>3, <2>4 DEF RowOk
<1> QED
    BY <1>3, <1>5, <1>6, <1>7, <1>8, WorkerStep

LEMMA RestingIsOk ==
    ASSUME NEW w \in PodWorkers, podJob'[w] = Resting, podGate' # w
    PROVE  JobOk(w)'
<1>1. Resting.at = "idle" /\ Resting.own = {} /\ Resting.paths = {} /\ Resting.file = PodNone /\ Resting.subscriber = FALSE
    BY DEF Resting
<1>2. JobShape(w)'
    BY <1>1, Zenon DEF JobShape, IsJob, Subscribing, Working, Fetching, Downloading, Retaining, Resting
<1>3. JobWork(w)' /\ Fresh(w)'
    BY <1>1 DEF JobWork, Fresh, Subscribing, Working, Fetching, Downloading, Retaining
<1> QED
    BY <1>2, <1>3 DEF JobOk

LEMMA CrashKeeps ==
    ASSUME PodInv, PodCrash
    PROVE  PodInv'
<1> USE PodAssumption
<1>1. /\ UNCHANGED <<podServer, podRow, podEp, podFile, podDisk, podCover>> /\ podSlot' = {} /\ podGate' = PodNone
      /\ podJob' = [w \in PodWorkers |-> Resting] /\ podPast' = podPast \cup {"cut"} /\ Subscribed' = Subscribed
    BY DEF PodCrash, podStore, podWorld, Subscribed
<1>2. \A w \in PodWorkers : podJob'[w] = Resting /\ podGate' # w
    BY <1>1
<1>3. \A w \in PodWorkers : JobOk(w)'
    BY <1>2, RestingIsOk
<1>4. PodTyped'
    BY <1>1, <1>2 DEF PodInv, PodTyped
<1>5. SlotsApart'
    BY <1>2 DEF SlotsApart, Resting
<1>6. ASSUME NEW i \in PodIds PROVE RowOk(i)'
    <2>1. /\ Kept(i)' = Kept(i) /\ Kept(i) \in SUBSET Guids
          /\ RowAgrees(i) /\ LinksHold(i) /\ EtagHolds(i)
        BY <1>1, KeptAreEpisodes, SameKept DEF PodInv, RowOk
    <2>2. RowAgrees(i)'
        BY <1>1, <2>1 DEF RowAgrees
    <2>3. OrphansHold(i)'
        BY <1>1 DEF OrphansHold
    <2>4. EtagHolds(i)'
        BY <1>1, <2>1 DEF EtagHolds, Covered
    <2>5. LinksHold(i)'
        <3> SUFFICES ASSUME NEW h \in Kept(i)
                     PROVE  LET q == podEp[i][h].file IN
                            /\ podFile[q] = "present"
                            /\ \A x \in Kept(i) \ {h} : podEp[i][x].file # q
                            /\ \/ podDisk[q] # PodNone /\ podDisk[q][2] = h
                               \/ "cut" \in podPast' /\ (Overflowing(i, h)' \/ podPast' \cap {"patch", "gone"} # {})
            BY <1>1, <2>1 DEF LinksHold
        <3> DEFINE q == podEp[i][h].file
        <3>1. /\ podFile[q] = "present"
              /\ \A x \in Kept(i) \ {h} : podEp[i][x].file # q
              /\ \/ podDisk[q] # PodNone /\ podDisk[q][2] = h
                 \/ \E v \in PodWorkers : podJob[v].at = "purge" /\ podJob[v].id = i /\ podJob[v].file = q
                 \/ "cut" \in podPast /\ (Overflowing(i, h) \/ podPast \cap {"patch", "gone"} # {})
            BY <2>1 DEF LinksHold
        <3>2. Overflowing(i, h)' <=> Overflowing(i, h)
            BY <1>1, <2>1 DEF Overflowing
        <3>3. ASSUME NEW v \in PodWorkers, podJob[v].at = "purge", podJob[v].id = i, podJob[v].file = q
              PROVE  Overflowing(i, h) \/ podPast \cap {"patch", "gone"} # {}
            <4> DEFINE j == podJob[v]
                       g == Min(j.left)
            <4> HIDE DEF q
            <4>1. j.at \in Retaining /\ j.left # {} /\ j.file = podEp[i][g].file
                BY <3>3 DEF Retaining, PodInv, JobOk, JobWork
            <4>2. /\ Earliest(j.left, Kept(i), j.row.max) /\ j.row.max \in Nat \ {0} /\ g \in j.left /\ g \in Kept(i)
                  /\ "gone" \notin podPast /\ "patch" \notin podPast => podRow[i].max = j.row.max
                BY <3>3, <4>1, InRetention
            <4>3. g = h
                BY <3>1, <3>3, <4>1, <4>2 DEF q
            <4> HIDE DEF g, j
            <4>4. podRow[i].max = j.row.max => Overflowing(i, h)
                BY <4>2, <4>3, NotTheNewest
            <4> QED
                BY <4>2, <4>4
        <3> QED
            BY <1>1, <3>1, <3>2, <3>3
    <2> QED
        BY <2>2, <2>3, <2>4, <2>5 DEF RowOk
<1> QED
    BY <1>3, <1>4, <1>5, <1>6 DEF PodInv

LEMMA PodInitHolds == PodInit => PodInv
<1> USE PodAssumption
<1> SUFFICES ASSUME PodInit PROVE PodInv
    OBVIOUS
<1>1. Resting.at = "idle" /\ Resting.own = {} /\ Resting.paths = {} /\ Resting.file = PodNone /\ Resting.subscriber = FALSE
    BY DEF Resting
<1>2. NoEpisode \in Eps /\ NoEpisode.at = "absent" /\ NoEpisode.file = PodNone
    BY DEF NoEpisode, Eps
<1>3. PodTyped
    <2>1. podServer \in [PodFeeds -> Guids]
        BY DEF PodInit, Guids
    <2>2. podRow \in [PodIds -> PodRows \cup {PodNone}] /\ podEp \in [PodIds -> [Guids -> Eps]]
        BY <1>2 DEF PodInit
    <2> QED
        BY <2>1, <2>2 DEF PodInit, PodTyped
<1>4. ASSUME NEW w \in PodWorkers PROVE JobOk(w)
    <2>1. podJob[w] = Resting /\ podGate # w
        BY DEF PodInit
    <2>2. JobShape(w)
        BY <1>1, <2>1, Zenon DEF JobShape, IsJob, Subscribing, Working, Fetching, Downloading, Retaining, Resting
    <2>3. JobWork(w) /\ Fresh(w)
        BY <1>1, <2>1 DEF JobWork, Fresh, Subscribing, Working, Fetching, Downloading, Retaining
    <2> QED
        BY <2>2, <2>3 DEF JobOk
<1>5. \A i \in PodIds : RowOk(i)
    <2> SUFFICES ASSUME NEW i \in PodIds PROVE RowOk(i)
        OBVIOUS
    <2>1. i \notin Subscribed /\ Kept(i) = {} /\ \A g \in Guids : podEp[i][g] = NoEpisode
        BY <1>2 DEF PodInit, Subscribed, Kept
    <2>2. \A p \in Paths : podDisk[p] = PodNone
        BY DEF PodInit
    <2> QED
        BY <1>2, <2>1, <2>2 DEF RowOk, RowAgrees, LinksHold, OrphansHold, EtagHolds
<1>6. SlotsApart
    BY <1>1 DEF PodInit, SlotsApart
<1> QED
    BY <1>3, <1>4, <1>5, <1>6 DEF PodInv

LEMMA WorkKeeps ==
    ASSUME PodInv, NEW w \in PodWorkers, PodWork(w)
    PROVE  PodInv'
<1> DEFINE j == podJob[w]
           k == podJob'[w]
           i == podJob[w].id
           O == podJob[w].own
<1>0. podJob[w] = j /\ podJob'[w] = k /\ j.id = i /\ j.own = O
    OBVIOUS
<1> HIDE DEF j, k, i, O
<1>1. CASE AddPodcast(w)
    BY <1>1, AddKeeps
<1>2. CASE AcquireSlot(w)
    BY <1>2, AcquireKeeps
<1>3. CASE Refresh(w)
    BY <1>3, RefreshKeeps
<1>4. CASE FetchCover(w)
    BY <1>4, CoverKeeps
<1>5. CASE UpsertEpisode(w)
    BY <1>0, <1>5, UpsertKeeps
<1>6. CASE Upserted(w)
    BY <1>6, UpsertedKeeps
<1>7. CASE ListPending(w)
    BY <1>7, ListPendingKeeps
<1>8. CASE Download(w)
    BY <1>0, <1>8, DownloadKeeps
<1>9. CASE InsertFile(w)
    BY <1>0, <1>9, InsertKeeps
<1>10. CASE LinkEpisodeFile(w)
    BY <1>0, <1>10, LinkKeeps
<1>11. CASE MarkSeen(w)
    BY <1>0, <1>11, MarkSeenKeeps
<1>12. CASE Downloaded(w)
    BY <1>12, DownloadedKeeps
<1>13. CASE PlanRetention(w)
    BY <1>13, PlanKeeps
<1>14. CASE RemoveOldest(w)
    BY <1>0, <1>14, RemoveOldestKeeps
<1>15. CASE PurgeEpisode(w)
    BY <1>0, <1>15, PurgeKeeps
<1>16. CASE FinishRefresh(w)
    BY <1>16, JobFinishKeeps
<1>17. CASE DeleteRows(w)
    BY <1>0, <1>17, DeleteRowsKeeps
<1>18. CASE RemoveFiles(w)
    BY <1>0, <1>18, RemoveFilesKeeps
<1>19. CASE Cancelled(w)
    BY <1>19, CancelledKeeps
<1> QED
    BY <1>1, <1>2, <1>3, <1>4, <1>5, <1>6, <1>7, <1>8, <1>9, <1>10, <1>11, <1>12, <1>13, <1>14, <1>15, <1>16, <1>17, <1>18,
       <1>19
    DEF PodWork

LEMMA PodStep == PodInv /\ [PodNext]_podVars => PodInv'
<1> SUFFICES ASSUME PodInv, [PodNext]_podVars PROVE PodInv'
    OBVIOUS
<1>1. CASE UNCHANGED podVars
    <2>1. /\ UNCHANGED <<podServer, podRow, podEp, podFile, podDisk, podCover, podSlot, podGate, podJob, podPast>>
        BY <1>1 DEF podVars, podStore, podWorld, podLocks
    <2>2. PodTyped'
        BY <2>1 DEF PodInv, PodTyped
    <2>3. SlotsApart'
        BY <2>1 DEF PodInv, SlotsApart
    <2>4. UNCHANGED <<podStore, podDisk, podPast>>
        BY <2>1 DEF podStore
    <2>5. Grows /\ Within({}) /\ \A i \in PodIds : RowStays(i) /\ EtagHolds(i)'
        BY <2>4, RestStays
    <2>6. \A w \in PodWorkers : JobOk(w)'
        <3> SUFFICES ASSUME NEW w \in PodWorkers PROVE JobOk(w)'
            OBVIOUS
        <3>1. podJob[w].own \subseteq podSlot
            BY DEF PodInv, JobOk, JobShape
        <3> QED
            BY <2>1, <2>5, <3>1, JobStays
    <2>7. \A i \in PodIds : RowOk(i)'
        BY <2>1, <2>5, PodcastStays
    <2> QED
        BY <2>2, <2>3, <2>6, <2>7 DEF PodInv
<1>2. ASSUME NEW f \in PodFeeds, NewEpisode(f) \/ \E w \in PodWorkers : SubscribeFeed(w, f) PROVE PodInv'
    BY <1>2, NewEpisodeKeeps, SubscribeKeeps
<1>3. ASSUME NEW i \in PodIds, PatchPodcast(i) \/ \E w \in PodWorkers : Snapshot(w, i) \/ DeletePodcast(w, i) PROVE PodInv'
    BY <1>3, PatchKeeps, SnapshotKeeps, DeletesKeep
<1>4. ASSUME NEW w \in PodWorkers, DeleteLibraryPodcasts(w) \/ PodWork(w) PROVE PodInv'
    BY <1>4, DeletesKeep, WorkKeeps
<1>5. CASE PodCrash
    BY <1>5, CrashKeeps
<1> QED
    BY <1>1, <1>2, <1>3, <1>4, <1>5 DEF PodNext

LEMMA PodAlways == PodSpec => []PodInv
    BY PodInitHolds, PodStep, PTL DEF PodSpec

(* Rows, episodes, files and locks keep their types, and an episode has a  *)
(* file exactly while it is downloaded, for every number of feeds,         *)
(* episodes, requests and whatever is subscribed, deleted or cut short.    *)
THEOREM PodcastsTyped == PodSpec => []PodTypeOK
<1>1. PodInv => PodTypeOK
    BY DEF PodInv, PodTyped, PodTypeOK, RowOk, RowAgrees, Subscribed, Eps
<1> QED
    BY <1>1, PodAlways, PTL

(* What the rows, the links, the disk and the validators say of a          *)
(* subscription is of the same episodes, for every number of feeds,        *)
(* episodes and requests, although names collide and refreshes, deletions, *)
(* changes of the settings and crashes come in between.                    *)
THEOREM SubscriptionsAlwaysHold == PodSpec => []SubscriptionsHold
<1>1. ASSUME PodInv PROVE SubscriptionsHold
    <2>1. PodLinksHold
        BY <1>1 DEF PodInv, RowOk, LinksHold, PodLinksHold, Subscribed
    <2>2. NoAudioOrphans
        <3> SUFFICES ASSUME NEW p \in Paths, podDisk[p] # PodNone, ~Linked(p)
                     PROVE  \/ "cut" \in podPast
                            \/ \E w \in PodWorkers : p = podJob[w].file \/ p \in podJob[w].paths
            BY DEF NoAudioOrphans
        <3>1. p[1] \in PodIds
            BY DEF Paths
        <3>2. Unlinked(p[1], p)
            BY <3>1 DEF Unlinked, Linked
        <3>3. OrphansHold(p[1])
            BY <1>1, <3>1 DEF PodInv, RowOk
        <3> QED
            BY <3>2, <3>3 DEF OrphansHold
    <2>3. EtagCoversEpisodes
        BY <1>1 DEF PodInv, RowOk, EtagHolds, Covered, EtagCoversEpisodes, Subscribed
    <2>4. SubscribersKeepTheirRow
        <3> SUFFICES ASSUME NEW w \in PodWorkers, NEW d \in PodWorkers, podJob[w].subscriber, podJob[w].at # "insert",
                            podJob[d].at = "delete", podGate = d
                     PROVE  podJob[w].id \notin podJob[d].own
            BY DEF SubscribersKeepTheirRow
        <3>1. JobShape(w)
            BY <1>1 DEF PodInv, JobOk
        <3>2. podJob[w].at \in Subscribing
            BY <3>1 DEF JobShape
        <3>3. d # w
            BY <3>2 DEF Subscribing, Working, Fetching, Downloading, Retaining
        <3>4. podJob[w].at # "own"
            BY <3>1, <3>3 DEF JobShape
        <3>5. podJob[w].own = {podJob[w].id}
            BY <3>1, <3>2, <3>4 DEF JobShape, Subscribing
        <3> QED
            BY <1>1, <3>3, <3>5 DEF PodInv, SlotsApart
    <2>5. RetentionHolds
        <3> SUFFICES ASSUME NEW w \in PodWorkers, podJob[w].at = "remove", podJob[w].left = {}
                     PROVE  Cardinality(Kept(podJob[w].id)) <= podJob[w].row.max
            BY DEF RetentionHolds
        <3>1. Earliest({}, Kept(podJob[w].id), podJob[w].row.max)
            BY <1>1 DEF PodInv, JobOk, JobWork, Retaining
        <3>2. Kept(podJob[w].id) \ {} = Kept(podJob[w].id)
            OBVIOUS
        <3> QED
            BY <3>1, <3>2 DEF Earliest
    <2> QED
        BY <2>1, <2>2, <2>3, <2>4, <2>5 DEF SubscriptionsHold
<1> QED
    BY <1>1, PodAlways, PTL

LEMMA HandledStep ==
    ASSUME PodInv, [PodNext]_podVars
    PROVE  HandledOnce
<1> USE PodAssumption
<1> SUFFICES ASSUME NEW i \in PodIds, NEW g \in Guids, podEp[i][g].at = "seen"
             PROVE  podEp'[i][g].at \in {"seen", "absent"}
    BY DEF HandledOnce
<1>1. podEp \in [PodIds -> [Guids -> Eps]]
    BY DEF PodInv, PodTyped
<1>2. CASE podEp' = podEp
    BY <1>2
<1>3. ASSUME NEW w \in PodWorkers, UpsertEpisode(w) PROVE podEp'[i][g].at \in {"seen", "absent"}
    <2> DEFINE j == podJob[w]
               e == UpsertPodcastEpisode(podEp[j.id][j.next], j.row.feed)
    <2>1. CASE UNCHANGED podEp
        BY <2>1
    <2>2. CASE podEp' = [podEp EXCEPT ![j.id][j.next] = e]
        <3>1. j.id = i /\ j.next = g => e.at = "seen"
            BY DEF UpsertPodcastEpisode
        <3> HIDE DEF e, j
        <3> QED
            BY <1>1, <2>2, <3>1
    <2> QED
        BY <1>3, <2>1, <2>2, Zenon DEF UpsertEpisode, e, j
<1>4. ASSUME NEW w \in PodWorkers, LinkEpisodeFile(w) PROVE podEp'[i][g].at \in {"seen", "absent"}
    <2> DEFINE j == podJob[w]
               n == Max(j.left)
    <2>1. CASE UNCHANGED podEp
        BY <2>1
    <2>2. CASE podEp' = [podEp EXCEPT ![j.id][n].at = "kept", ![j.id][n].file = j.file]
        <3>1. podEp[j.id][n].at = "pending"
            <4>1. j.at \in {"record", "link"}
                BY <1>4 DEF LinkEpisodeFile
            <4> QED
                BY <4>1, InHand
        <3> HIDE DEF n, j
        <3> QED
            BY <1>1, <2>2, <3>1
    <2> QED
        BY <1>4, <2>1, <2>2, Zenon DEF LinkEpisodeFile, n, j
<1>5. ASSUME NEW w \in PodWorkers, MarkSeen(w) PROVE podEp'[i][g].at \in {"seen", "absent"}
    <2> DEFINE a == podJob[w].id
               n == Max(podJob[w].left)
    <2>1. podEp' = [podEp EXCEPT ![a][n].at = "seen"]
        BY <1>5 DEF MarkSeen
    <2> HIDE DEF n, a
    <2> QED
        BY <1>1, <2>1
<1>6. ASSUME NEW w \in PodWorkers, PurgeEpisode(w) PROVE podEp'[i][g].at \in {"seen", "absent"}
    <2> DEFINE a == podJob[w].id
               n == Min(podJob[w].left)
    <2>1. CASE UNCHANGED podEp
        BY <2>1
    <2>2. CASE podEp' = [podEp EXCEPT ![a][n].at = "seen", ![a][n].file = PodNone]
        <3> HIDE DEF n, a
        <3> QED
            BY <1>1, <2>2
    <2> QED
        BY <1>6, <2>1, <2>2, Zenon DEF PurgeEpisode, n, a
<1>7. ASSUME NEW w \in PodWorkers, DeleteRows(w) PROVE podEp'[i][g].at \in {"seen", "absent"}
    BY <1>7 DEF DeleteRows, DeleteWithFiles, NoEpisode
<1>8. ASSUME NEW w \in PodWorkers, PodWork(w) PROVE podEp'[i][g].at \in {"seen", "absent"}
    <2>1. CASE UpsertEpisode(w) \/ LinkEpisodeFile(w) \/ MarkSeen(w) \/ PurgeEpisode(w) \/ DeleteRows(w)
        BY <1>3, <1>4, <1>5, <1>6, <1>7, <2>1
    <2>2. CASE AddPodcast(w) \/ AcquireSlot(w) \/ Refresh(w) \/ FetchCover(w) \/ Upserted(w) \/ ListPending(w) \/ Download(w)
        BY <1>2, <2>2 DEF AddPodcast, AcquireSlot, Refresh, FetchCover, Upserted, ListPending, Download, podStore
    <2>3. CASE \/ InsertFile(w) \/ Downloaded(w) \/ PlanRetention(w) \/ RemoveOldest(w)
               \/ FinishRefresh(w) \/ RemoveFiles(w) \/ Cancelled(w)
        BY <1>2, <2>3 DEF Cancelled, InsertFile, Downloaded, PlanRetention, RemoveOldest, FinishRefresh, RemoveFiles, podStore
    <2> QED
        BY <1>8, <2>1, <2>2, <2>3 DEF PodWork
<1>9. CASE UNCHANGED podStore
    BY <1>2, <1>9 DEF podStore
<1>10. ASSUME NEW n \in PodIds, PatchPodcast(n) PROVE podEp' = podEp
    BY <1>10 DEF PatchPodcast
<1>11. ASSUME NEW f \in PodFeeds, NewEpisode(f) \/ \E w \in PodWorkers : SubscribeFeed(w, f) PROVE UNCHANGED podStore
    BY <1>11 DEF NewEpisode, SubscribeFeed
<1>12. ASSUME NEW n \in PodIds, NEW w \in PodWorkers, Snapshot(w, n) \/ DeletePodcast(w, n) PROVE UNCHANGED podStore
    BY <1>12 DEF Snapshot, DeletePodcast
<1>13. ASSUME NEW w \in PodWorkers, DeleteLibraryPodcasts(w) PROVE UNCHANGED podStore
    BY <1>13 DEF DeleteLibraryPodcasts
<1>14. CASE PodCrash
    BY <1>9, <1>14 DEF PodCrash
<1>15. CASE UNCHANGED podVars
    BY <1>9, <1>15 DEF podVars
<1> QED
    BY <1>2, <1>8, <1>9, <1>10, <1>11, <1>12, <1>13, <1>14, <1>15 DEF PodNext

(* An episode that was purged or passed over is never downloaded again     *)
(* while its subscription lasts, whoever refreshes, links or gives up.     *)
THEOREM HandledStaysHandled == PodSpec => [][HandledOnce]_podVars
<1>1. PodInv /\ [PodNext]_podVars => [HandledOnce]_podVars
    BY HandledStep
<1> QED
    BY <1>1, PodAlways, PTL DEF PodSpec

-----------------------------------------------------------------------------
(* Trickplay.                                                              *)

USE TpAssumption

IsCaller(k) == k = [at |-> k.at, set |-> k.set, lead |-> k.lead, used |-> k.used, left |-> k.left, result |-> k.result]

Writing == {"recover", "reserve", "measure", "run"}     \* the directory is the caller's
Leading == {"lock", "release", "withdraw"} \cup Writing
Places == {"out", "ensure", "wait"} \cup Leading

CallerAgrees(c) ==
    LET k == tpCaller[c] IN
    /\ IsCaller(k) /\ k.at \in Places
    /\ k.at # "out" => k.set \in TpSets
    /\ k.at \in Leading => tpGen[k.set] = c
    /\ k.at = "wait" => /\ k.lead \in TpCallers /\ tpCaller[k.lead].set = k.set
                        /\ tpCaller[k.lead].at \in Leading \ {"withdraw"}
    /\ k.at \in Writing => k.set \notin tpMarked
    /\ k.at \in {"run", "release"} => k.set \in tpLeases
    /\ k.result = "served" => k.set \in tpMarked

SetAgrees(s) ==
    LET lead == tpGen[s] IN
    /\ s \in tpMarked => tpDisk[s] = TpSize[s]
    /\ lead # TpNone => lead \in TpCallers /\ tpCaller[lead].at \in Leading /\ tpCaller[lead].set = s
    /\ s \in tpLeases => lead # TpNone /\ tpCaller[lead].at \in {"run", "release"}

TpTyped ==
    /\ tpDisk \in [TpSets -> Nat] /\ tpMarked \subseteq TpSets
    /\ tpGen \in [TpSets -> TpCallers \cup {TpNone}] /\ tpMutex \in TpCallers \cup {TpNone}
    /\ DOMAIN tpCaller = TpCallers /\ tpCaller = [c \in TpCallers |-> tpCaller[c]]
    /\ tpLeases \subseteq TpSets

TpAgrees ==
    /\ TpTyped
    /\ \A c \in TpCallers : CallerAgrees(c)
    /\ \A s \in TpSets : SetAgrees(s)

LEMMA OutIsCaller == IsCaller(TpOut) /\ TpOut.at = "out" /\ TpOut.result = "none"
    BY DEF IsCaller, TpOut

LEMMA AgreesAtFirst == TpInit => TpAgrees
    BY OutIsCaller DEF TpInit, TpAgrees, TpTyped, CallerAgrees, SetAgrees, Places, Leading, Writing

(* A caller takes its next step on its set: the others see nothing of it but the marker and the lease. *)
LEMMA OwnStep ==
    ASSUME TpAgrees, NEW c \in TpCallers, NEW k, IsCaller(k), tpCaller' = [tpCaller EXCEPT ![c] = k],
           tpCaller[c].at \in Leading, k.at \in Leading \ {"withdraw"}, k.set = tpCaller[c].set, tpGen' = tpGen,
           tpDisk' \in [TpSets -> Nat], \A s \in TpSets \ {k.set} : tpDisk'[s] = tpDisk[s],
           tpMarked' \in {tpMarked, tpMarked \cup {k.set}},
           k.set \in tpMarked' => tpDisk'[k.set] = TpSize[k.set],
           tpLeases' \in {tpLeases, tpLeases \cup {k.set}, tpLeases \ {k.set}},
           k.set \in tpLeases' <=> k.at \in {"run", "release"},
           k.at \in Writing => k.set \notin tpMarked',
           k.result = "served" => k.set \in tpMarked',
           tpMutex' \in TpCallers \cup {TpNone}
    PROVE  TpAgrees'
<1>0. TpTyped /\ CallerAgrees(c) /\ k.set \in TpSets /\ tpGen[k.set] = c /\ c # TpNone
    BY DEF TpAgrees, CallerAgrees, Leading, Writing
<1>1. tpCaller'[c] = k /\ \A d \in TpCallers : d # c => tpCaller'[d] = tpCaller[d]
    BY <1>0 DEF TpTyped
<1>2. TpTyped'
    BY <1>0 DEF TpTyped
<1>3. ASSUME NEW d \in TpCallers PROVE CallerAgrees(d)'
    <2>1. CASE d = c
        BY <1>0, <1>1, <2>1 DEF CallerAgrees, Places, Leading, Writing
    <2>2. CASE d # c
        <3>1. CallerAgrees(d) /\ tpCaller'[d] = tpCaller[d]
            BY <1>1, <2>2 DEF TpAgrees
        <3>2. tpCaller[d].at \in Leading => tpCaller[d].set # k.set
            BY <1>0, <2>2, <3>1 DEF CallerAgrees
        <3>3. tpCaller[d].at = "wait" => /\ tpCaller'[tpCaller[d].lead].set = tpCaller[d].set
                                         /\ tpCaller'[tpCaller[d].lead].at \in Leading \ {"withdraw"}
            BY <1>1, <3>1 DEF CallerAgrees
        <3> QED
            BY <3>1, <3>2, <3>3 DEF CallerAgrees, Leading, Writing
    <2> QED
        BY <2>1, <2>2
<1>4. ASSUME NEW s \in TpSets PROVE SetAgrees(s)'
    <2>1. SetAgrees(s)
        BY DEF TpAgrees
    <2>2. CASE s = k.set
        BY <1>0, <1>1, <2>1, <2>2 DEF SetAgrees
    <2>3. CASE s # k.set
        BY <1>0, <1>1, <2>1, <2>3 DEF SetAgrees
    <2> QED
        BY <2>2, <2>3
<1> QED
    BY <1>2, <1>3, <1>4 DEF TpAgrees

(* A generation returns: its caller withdraws it, and everyone who waits for it leaves with the outcome. *)
LEMMA AnswerStep ==
    ASSUME TpAgrees, NEW c \in TpCallers, NEW result, AnswerTiles(c, result), tpCaller[c].at \in Leading,
           tpGen' = tpGen, tpDisk' = tpDisk, tpMarked' = tpMarked,
           tpLeases' \in {tpLeases, tpLeases \ {tpCaller[c].set}}, tpCaller[c].set \notin tpLeases',
           result = "served" => tpCaller[c].set \in tpMarked,
           tpMutex' \in TpCallers \cup {TpNone}
    PROVE  TpAgrees'
<1> DEFINE set == tpCaller[c].set
           Waits(d) == tpCaller[d].lead = c /\ tpCaller[d].at = "wait"
<1>0. TpTyped /\ CallerAgrees(c) /\ set \in TpSets /\ tpGen[set] = c /\ c # TpNone
    BY DEF TpAgrees, CallerAgrees, Leading, Writing
<1>1. IsCaller(tpCaller'[c]) /\ tpCaller'[c].at = "withdraw" /\ tpCaller'[c].set = set /\ tpCaller'[c].result = result
    BY <1>0 DEF AnswerTiles, CallerAgrees, IsCaller
<1>2. ASSUME NEW d \in TpCallers, d # c, Waits(d)
      PROVE  IsCaller(tpCaller'[d]) /\ tpCaller'[d].at = "out" /\ tpCaller'[d].set = set /\ tpCaller'[d].result = result
    BY <1>2 DEF AnswerTiles, TpOut, IsCaller
<1>3. ASSUME NEW d \in TpCallers, d # c, ~Waits(d) PROVE tpCaller'[d] = tpCaller[d]
    BY <1>3 DEF AnswerTiles
<1>4. TpTyped'
    BY <1>0 DEF TpTyped, AnswerTiles
<1>5. ASSUME NEW d \in TpCallers PROVE CallerAgrees(d)'
    <2>1. CASE d = c
        BY <1>0, <1>1, <2>1 DEF CallerAgrees, Places, Leading, Writing
    <2>2. CASE d # c /\ Waits(d)
        BY <1>0, <1>2, <2>2 DEF CallerAgrees, Places, Leading, Writing
    <2>3. CASE d # c /\ ~Waits(d)
        <3>1. CallerAgrees(d) /\ tpCaller'[d] = tpCaller[d]
            BY <1>3, <2>3 DEF TpAgrees
        <3>2. tpCaller[d].at \in Leading => tpCaller[d].set # set
            BY <1>0, <2>3, <3>1 DEF CallerAgrees
        <3>3. ASSUME tpCaller[d].at = "wait"
              PROVE  /\ tpCaller'[tpCaller[d].lead].set = tpCaller[d].set
                     /\ tpCaller'[tpCaller[d].lead].at \in Leading \ {"withdraw"}
            <4>1. tpCaller[d].lead \in TpCallers /\ tpCaller[tpCaller[d].lead].at \in Leading \ {"withdraw"} /\ tpCaller[d].lead # c
                BY <2>3, <3>1, <3>3 DEF CallerAgrees
            <4>2. ~Waits(tpCaller[d].lead)
                BY <4>1 DEF Leading, Writing
            <4> QED
                BY <1>3, <3>1, <3>3, <4>1, <4>2 DEF CallerAgrees
        <3> HIDE DEF set
        <3> QED
            BY <3>1, <3>2, <3>3 DEF CallerAgrees, Leading, Writing, set
    <2> QED
        BY <2>1, <2>2, <2>3
<1>6. ASSUME NEW s \in TpSets PROVE SetAgrees(s)'
    <2>1. SetAgrees(s)
        BY DEF TpAgrees
    <2>2. CASE s = set
        BY <1>0, <1>1, <2>1, <2>2 DEF SetAgrees, Leading
    <2>3. CASE s # set
        <3>1. tpGen[s] # TpNone => tpGen[s] \in TpCallers /\ tpGen[s] # c /\ ~Waits(tpGen[s])
            BY <1>0, <2>1, <2>3 DEF SetAgrees, Leading, Writing
        <3>2. tpGen[s] # TpNone => tpCaller'[tpGen[s]] = tpCaller[tpGen[s]]
            BY <1>3, <3>1
        <3> QED
            BY <1>0, <2>1, <2>3, <3>1, <3>2 DEF SetAgrees
    <2> QED
        BY <2>2, <2>3
<1> QED
    BY <1>4, <1>5, <1>6 DEF TpAgrees

(* A caller that leads nothing moves: it calls, joins, or goes away. *)
LEMMA IdleStep ==
    ASSUME TpAgrees, NEW c \in TpCallers, NEW k, IsCaller(k), tpCaller' = [tpCaller EXCEPT ![c] = k],
           tpCaller[c].at \notin Leading, k.at \in {"out", "ensure", "wait"},
           k.at # "out" => k.set \in TpSets,
           k.at = "wait" => /\ k.lead \in TpCallers \ {c} /\ tpCaller[k.lead].set = k.set
                            /\ tpCaller[k.lead].at \in Leading \ {"withdraw"},
           k.result = "served" => k.set \in tpMarked,
           UNCHANGED <<tpFiles, tpGen, tpPool>>
    PROVE  TpAgrees'
<1>0. TpTyped
    BY DEF TpAgrees
<1>1. tpCaller'[c] = k /\ \A d \in TpCallers : d # c => tpCaller'[d] = tpCaller[d]
    BY <1>0 DEF TpTyped
<1>2. TpTyped'
    BY <1>0 DEF TpTyped, tpFiles, tpPool
<1>3. ASSUME NEW d \in TpCallers PROVE CallerAgrees(d)'
    <2>1. CASE d = c
        BY <1>1, <2>1 DEF CallerAgrees, Places, Leading, Writing, tpFiles
    <2>2. CASE d # c
        <3>1. CallerAgrees(d) /\ tpCaller'[d] = tpCaller[d]
            BY <1>1, <2>2 DEF TpAgrees
        <3>2. tpCaller[d].at = "wait" => tpCaller'[tpCaller[d].lead] = tpCaller[tpCaller[d].lead]
            BY <1>1, <3>1 DEF CallerAgrees
        <3> QED
            BY <3>1, <3>2 DEF CallerAgrees, tpFiles, tpPool
    <2> QED
        BY <2>1, <2>2
<1>4. ASSUME NEW s \in TpSets PROVE SetAgrees(s)'
    <2>1. SetAgrees(s)
        BY DEF TpAgrees
    <2>2. tpGen[s] # TpNone => tpCaller'[tpGen[s]] = tpCaller[tpGen[s]]
        BY <1>1, <2>1 DEF SetAgrees
    <2> QED
        BY <2>1, <2>2 DEF SetAgrees, tpFiles, tpPool
<1> QED
    BY <1>2, <1>3, <1>4 DEF TpAgrees

-----------------------------------------------------------------------------
(* One step.                                                               *)

LEMMA AgreesAfterwards == TpAgrees /\ [TpNext]_tpVars => TpAgrees'
<1> SUFFICES ASSUME TpAgrees, [TpNext]_tpVars PROVE TpAgrees'
    OBVIOUS
<1>0. TpTyped /\ (\A c \in TpCallers : CallerAgrees(c)) /\ \A s \in TpSets : SetAgrees(s)
    BY DEF TpAgrees
<1>1. CASE UNCHANGED tpVars
    BY <1>1 DEF tpVars, tpFiles, tpPool, TpAgrees, TpTyped, CallerAgrees, SetAgrees
<1>2. ASSUME NEW c \in TpCallers, NEW s \in TpSets, Tile(c, s) PROVE TpAgrees'
    <2> DEFINE k == IF Complete(s) THEN [TpOut EXCEPT !.set = s, !.result = "served"] ELSE [TpOut EXCEPT !.at = "ensure", !.set = s]
    <2>1. IsCaller(k) /\ k.at \in {"out", "ensure"} /\ k.set = s /\ (k.result = "served" => s \in tpMarked)
        BY DEF IsCaller, TpOut, Complete
    <2>2. tpCaller' = [tpCaller EXCEPT ![c] = k] /\ tpCaller[c].at = "out" /\ UNCHANGED <<tpFiles, tpGen, tpPool>>
        BY <1>2 DEF Tile
    <2> HIDE DEF k
    <2> QED
        BY <2>1, <2>2, IdleStep DEF Leading, Writing
<1>3. ASSUME NEW c \in TpCallers, EnsureTiles(c) PROVE TpAgrees'
    <2> DEFINE s == tpCaller[c].set
               lead == tpGen[s]
    <2>1. CallerAgrees(c) /\ s \in TpSets /\ SetAgrees(s) /\ tpCaller[c].at = "ensure" /\ UNCHANGED <<tpFiles, tpPool>>
        BY <1>0, <1>3 DEF EnsureTiles, CallerAgrees
    <2>2. CASE lead # TpNone
        <3> DEFINE k == IF tpCaller[lead].at = "withdraw" THEN [TpOut EXCEPT !.set = s, !.result = tpCaller[lead].result]
                        ELSE [tpCaller[c] EXCEPT !.at = "wait", !.lead = lead]
        <3>1. lead \in TpCallers \ {c} /\ tpCaller[lead].at \in Leading /\ tpCaller[lead].set = s /\ CallerAgrees(lead)
            BY <1>0, <2>1, <2>2 DEF SetAgrees, Leading, Writing
        <3>2. IsCaller(k) /\ k.set = s /\ k.at \in {"out", "wait"} /\ (k.result = "served" => s \in tpMarked)
            BY <2>1, <3>1 DEF IsCaller, TpOut, CallerAgrees
        <3>3. k.at = "wait" => k.lead = lead /\ tpCaller[lead].at # "withdraw"
            BY <2>1 DEF TpOut, IsCaller, CallerAgrees
        <3>4. tpCaller' = [tpCaller EXCEPT ![c] = k] /\ UNCHANGED tpGen
            BY <1>3, <2>2 DEF EnsureTiles
        <3>5. tpCaller[c].at \notin Leading
            BY <2>1 DEF Leading, Writing
        <3> HIDE DEF k, lead, s
        <3> QED
            BY <2>1, <3>1, <3>2, <3>3, <3>4, <3>5, IdleStep DEF s
    <2>3. CASE lead = TpNone
        <3> DEFINE k == [tpCaller[c] EXCEPT !.at = "lock"]
        <3>1. tpCaller' = [tpCaller EXCEPT ![c] = k] /\ tpGen' = [tpGen EXCEPT ![s] = c]
            BY <1>3, <2>3 DEF EnsureTiles, TpTo
        <3>2. IsCaller(k) /\ k.at = "lock" /\ k.set = s /\ k.result = tpCaller[c].result
            BY <2>1 DEF IsCaller, CallerAgrees
        <3> HIDE DEF k
        <3>3. tpCaller'[c] = k /\ (\A d \in TpCallers : d # c => tpCaller'[d] = tpCaller[d])
              /\ tpGen'[s] = c /\ \A r \in TpSets : r # s => tpGen'[r] = tpGen[r]
            BY <1>0, <2>1, <3>1 DEF TpTyped
        <3>4. TpTyped'
            BY <1>0, <2>1, <3>1 DEF TpTyped, tpFiles, tpPool
        <3>5. ASSUME NEW d \in TpCallers PROVE CallerAgrees(d)'
            <4>1. CASE d = c
                BY <2>1, <3>2, <3>3, <4>1 DEF CallerAgrees, Places, Leading, Writing, tpFiles
            <4>2. CASE d # c
                <5>1. CallerAgrees(d) /\ tpCaller'[d] = tpCaller[d]
                    BY <1>0, <3>3, <4>2
                <5>2. tpCaller[d].at \in Leading => tpCaller[d].set \in TpSets /\ tpCaller[d].set # s
                    BY <2>3, <5>1 DEF CallerAgrees, Leading, Writing
                <5>3. tpCaller[d].at = "wait" => tpCaller'[tpCaller[d].lead] = tpCaller[tpCaller[d].lead]
                    BY <2>1, <3>3, <5>1 DEF CallerAgrees, Leading, Writing
                <5> HIDE DEF s
                <5> QED
                    BY <2>1, <3>3, <5>1, <5>2, <5>3 DEF CallerAgrees, tpFiles, tpPool
            <4> QED
                BY <4>1, <4>2
        <3>6. ASSUME NEW r \in TpSets PROVE SetAgrees(r)'
            <4>1. SetAgrees(r)
                BY <1>0
            <4>2. CASE r = s
                BY <2>1, <2>3, <3>2, <3>3, <4>2 DEF SetAgrees, Leading, tpFiles, tpPool
            <4>3. CASE r # s
                <5>1. tpGen'[r] = tpGen[r] /\ (tpGen[r] # TpNone => tpGen[r] # c /\ tpGen[r] \in TpCallers)
                    BY <2>1, <3>3, <4>1, <4>3 DEF SetAgrees, Leading, Writing
                <5> QED
                    BY <2>1, <3>3, <4>1, <5>1 DEF SetAgrees, tpFiles, tpPool
            <4> QED
                BY <4>2, <4>3
        <3> QED
            BY <3>4, <3>5, <3>6 DEF TpAgrees
    <2> QED
        BY <2>2, <2>3
<1>4. ASSUME NEW c \in TpCallers, tpCaller[c].at \in Leading
      PROVE  /\ CallerAgrees(c) /\ tpCaller[c].set \in TpSets /\ IsCaller(tpCaller[c])
             /\ (tpCaller[c].set \in tpLeases <=> tpCaller[c].at \in {"run", "release"})
             /\ (tpCaller[c].set \in tpMarked => tpDisk[tpCaller[c].set] = TpSize[tpCaller[c].set])
             /\ (tpCaller[c].at \in Writing => tpCaller[c].set \notin tpMarked)
             /\ (tpCaller[c].result = "served" => tpCaller[c].set \in tpMarked)
    BY <1>0, <1>4 DEF CallerAgrees, SetAgrees, Leading, Writing
<1>5. ASSUME NEW c \in TpCallers, GenerateTiles(c) PROVE TpAgrees'
    <2>1. tpCaller[c].at = "lock" /\ tpCaller[c].at \in Leading /\ UNCHANGED <<tpDisk, tpMarked, tpGen, tpLeases, tpMutex>>
        BY <1>5 DEF GenerateTiles, Leading, tpFiles, tpPool
    <2>2. ASSUME NEW result \in {"served", "busy"}, AnswerTiles(c, result), result = "served" => tpCaller[c].set \in tpMarked
          PROVE  TpAgrees'
        BY <1>0, <1>4, <2>1, <2>2, AnswerStep DEF TpTyped
    <2>3. CASE ~Complete(tpCaller[c].set) /\ TpTo(c, "recover")
        <3> DEFINE k == [tpCaller[c] EXCEPT !.at = "recover"]
        <3>1. tpCaller' = [tpCaller EXCEPT ![c] = k] /\ tpCaller[c].set \notin tpMarked
            BY <2>3 DEF TpTo, Complete
        <3>0. IsCaller(tpCaller[c])
            BY <1>4, <2>1
        <3>2. IsCaller(k) /\ k.at = "recover" /\ k.set = tpCaller[c].set /\ k.result = tpCaller[c].result
            BY <3>0 DEF IsCaller
        <3> HIDE DEF k
        <3> QED
            BY <1>0, <1>4, <2>1, <3>1, <3>2, OwnStep DEF Leading, Writing, TpTyped
    <2> QED
        BY <1>5, <2>2, <2>3 DEF GenerateTiles, Complete
<1>6. ASSUME NEW c \in TpCallers, RecoverIncomplete(c) PROVE TpAgrees'
    <2> DEFINE k == [tpCaller[c] EXCEPT !.at = "reserve"]
    <2>1. /\ tpCaller[c].at = "recover" /\ tpCaller[c].at \in Leading /\ tpCaller[c].at \in Writing
          /\ UNCHANGED <<tpMarked, tpGen, tpLeases, tpMutex>>
          /\ tpCaller' = [tpCaller EXCEPT ![c] = k] /\ tpDisk' = [tpDisk EXCEPT ![tpCaller[c].set] = 0]
        BY <1>6 DEF RecoverIncomplete, Leading, Writing, tpPool, TpTo
    <2>0. IsCaller(tpCaller[c])
        BY <1>4, <2>1
    <2>2. IsCaller(k) /\ k.at = "reserve" /\ k.set = tpCaller[c].set /\ k.result = tpCaller[c].result
        BY <2>0 DEF IsCaller
    <2> HIDE DEF k
    <2>3. tpDisk' \in [TpSets -> Nat] /\ \A s \in TpSets \ {k.set} : tpDisk'[s] = tpDisk[s]
        BY <1>0, <2>1, <2>2 DEF TpTyped
    <2> QED
        BY <1>0, <1>4, <2>1, <2>2, <2>3, OwnStep DEF Leading, Writing, TpTyped
<1>7. ASSUME NEW c \in TpCallers, AcquireLease(c) PROVE TpAgrees'
    <2> DEFINE h == [tpCaller[c] EXCEPT !.at = "measure"]
               j == [h EXCEPT !.used = TreeSize]
               k == [j EXCEPT !.left = tpLeases]
    <2>1. /\ tpCaller[c].at = "reserve" /\ tpCaller[c].at \in Leading /\ tpCaller[c].at \in Writing
          /\ UNCHANGED <<tpDisk, tpMarked, tpGen, tpLeases>> /\ tpMutex' = c
        BY <1>7 DEF AcquireLease, Leading, Writing, tpFiles
    <2>2. tpCaller' = [tpCaller EXCEPT ![c] = k]
        BY <1>0, <1>7 DEF AcquireLease, TpTyped
    <2>0. IsCaller(tpCaller[c])
        BY <1>4, <2>1
    <2>4. IsCaller(h) /\ h.at = "measure" /\ h.set = tpCaller[c].set /\ h.result = tpCaller[c].result
        BY <2>0 DEF IsCaller
    <2> HIDE DEF h
    <2>5. IsCaller(j) /\ j.at = "measure" /\ j.set = tpCaller[c].set /\ j.result = tpCaller[c].result
        BY <2>4 DEF IsCaller
    <2> HIDE DEF j
    <2>3. IsCaller(k) /\ k.at = "measure" /\ k.set = tpCaller[c].set /\ k.result = tpCaller[c].result
        BY <2>5 DEF IsCaller
    <2> HIDE DEF k
    <2> QED
        BY <1>0, <1>4, <2>1, <2>2, <2>3, OwnStep DEF Leading, Writing, TpTyped
<1>8. ASSUME NEW c \in TpCallers, MeasureLease(c) PROVE TpAgrees'
    <2>1. /\ tpCaller[c].at = "measure" /\ tpCaller[c].at \in Leading /\ tpCaller[c].at \in Writing
          /\ UNCHANGED <<tpDisk, tpMarked, tpGen, tpLeases, tpMutex>>
        BY <1>8 DEF MeasureLease, Leading, Writing, tpFiles, tpPool
    <2>2. PICK s \in tpCaller[c].left :
             tpCaller' = [tpCaller EXCEPT ![c].left = @ \ {s}, ![c].used = @ - TpCapped[s]]
        BY <1>8 DEF MeasureLease
    <2> DEFINE j == [tpCaller[c] EXCEPT !.left = tpCaller[c].left \ {s}]
               k == [j EXCEPT !.used = tpCaller[c].used - TpCapped[s]]
    <2>3. tpCaller' = [tpCaller EXCEPT ![c] = k]
        BY <1>0, <2>2 DEF TpTyped
    <2>0. IsCaller(tpCaller[c])
        BY <1>4, <2>1
    <2>5. IsCaller(j) /\ j.at = "measure" /\ j.set = tpCaller[c].set /\ j.result = tpCaller[c].result
        BY <2>0, <2>1 DEF IsCaller
    <2> HIDE DEF j
    <2>4. IsCaller(k) /\ k.at = "measure" /\ k.set = tpCaller[c].set /\ k.result = tpCaller[c].result
        BY <2>5 DEF IsCaller
    <2> HIDE DEF k
    <2> QED
        BY <1>0, <1>4, <2>1, <2>3, <2>4, OwnStep DEF Leading, Writing, TpTyped
<1>9. ASSUME NEW c \in TpCallers, AdmitLease(c) PROVE TpAgrees'
    <2>1. /\ tpCaller[c].at = "measure" /\ tpCaller[c].at \in Leading /\ tpCaller[c].at \in Writing
          /\ UNCHANGED <<tpDisk, tpMarked, tpGen>> /\ tpMutex' = TpNone
        BY <1>9 DEF AdmitLease, Leading, Writing, tpFiles
    <2>2. CASE AnswerTiles(c, "limit") /\ tpLeases' = tpLeases
        BY <1>0, <1>4, <2>1, <2>2, AnswerStep DEF TpTyped
    <2>3. CASE tpLeases' = tpLeases \cup {tpCaller[c].set} /\ TpTo(c, "run")
        <3> DEFINE k == [tpCaller[c] EXCEPT !.at = "run"]
        <3>1. tpCaller' = [tpCaller EXCEPT ![c] = k]
            BY <2>3 DEF TpTo
        <3>0. IsCaller(tpCaller[c])
            BY <1>4, <2>1
        <3>2. IsCaller(k) /\ k.at = "run" /\ k.set = tpCaller[c].set /\ k.result = tpCaller[c].result
            BY <3>0 DEF IsCaller
        <3> HIDE DEF k
        <3> QED
            BY <1>0, <1>4, <2>1, <2>3, <3>1, <3>2, OwnStep DEF Leading, Writing, TpTyped
    <2> QED
        BY <1>9, <2>2, <2>3 DEF AdmitLease
<1>10. ASSUME NEW c \in TpCallers, SheetGrows(c) PROVE TpAgrees'
    <2> DEFINE k == tpCaller[c]
    <2>1. /\ k.at = "run" /\ k.at \in Leading /\ k.at \in Writing
          /\ UNCHANGED <<tpMarked, tpGen, tpCaller, tpLeases, tpMutex>>
          /\ tpDisk' = [tpDisk EXCEPT ![k.set] = @ + 1]
        BY <1>10 DEF SheetGrows, Leading, Writing, tpPool
    <2>2. tpCaller' = [tpCaller EXCEPT ![c] = k]
        BY <1>0, <2>1 DEF TpTyped
    <2>3. tpDisk' \in [TpSets -> Nat] /\ \A s \in TpSets \ {k.set} : tpDisk'[s] = tpDisk[s]
        BY <1>0, <1>4, <2>1 DEF TpTyped
    <2> QED
        BY <1>0, <1>4, <2>1, <2>2, <2>3, OwnStep DEF Leading, Writing, TpTyped
<1>11. ASSUME NEW c \in TpCallers, MarkComplete(c) PROVE TpAgrees'
    <2> DEFINE j == [tpCaller[c] EXCEPT !.at = "release"]
               k == [j EXCEPT !.result = "served"]
    <2>1. /\ tpCaller[c].at = "run" /\ tpCaller[c].at \in Leading /\ tpCaller[c].at \in Writing
          /\ UNCHANGED <<tpDisk, tpGen, tpLeases, tpMutex>>
          /\ tpMarked' = tpMarked \cup {tpCaller[c].set} /\ tpDisk[tpCaller[c].set] = TpSize[tpCaller[c].set]
        BY <1>11 DEF MarkComplete, Leading, Writing, tpPool
    <2>2. tpCaller' = [tpCaller EXCEPT ![c] = k]
        BY <1>0, <1>11 DEF MarkComplete, Settle, TpTyped
    <2>0. IsCaller(tpCaller[c])
        BY <1>4, <2>1
    <2>5. IsCaller(j) /\ j.at = "release" /\ j.set = tpCaller[c].set
        BY <2>0 DEF IsCaller
    <2> HIDE DEF j
    <2>3. IsCaller(k) /\ k.at = "release" /\ k.set = tpCaller[c].set /\ k.result = "served"
        BY <2>5 DEF IsCaller
    <2> HIDE DEF k
    <2> QED
        BY <1>0, <1>4, <2>1, <2>2, <2>3, OwnStep DEF Leading, Writing, TpTyped
<1>12. ASSUME NEW c \in TpCallers, GenerateFails(c) PROVE TpAgrees'
    <2> DEFINE j == [tpCaller[c] EXCEPT !.at = "release"]
               k == [j EXCEPT !.result = "failed"]
    <2>1. /\ tpCaller[c].at = "run" /\ tpCaller[c].at \in Leading /\ tpCaller[c].at \in Writing
          /\ UNCHANGED <<tpMarked, tpGen, tpLeases, tpMutex>> /\ tpDisk' = [tpDisk EXCEPT ![tpCaller[c].set] = 0]
        BY <1>12 DEF GenerateFails, Leading, Writing, tpPool
    <2>2. tpCaller' = [tpCaller EXCEPT ![c] = k]
        BY <1>0, <1>12 DEF GenerateFails, Settle, TpTyped
    <2>0. IsCaller(tpCaller[c])
        BY <1>4, <2>1
    <2>5. IsCaller(j) /\ j.at = "release" /\ j.set = tpCaller[c].set
        BY <2>0 DEF IsCaller
    <2> HIDE DEF j
    <2>3. IsCaller(k) /\ k.at = "release" /\ k.set = tpCaller[c].set /\ k.result = "failed"
        BY <2>5 DEF IsCaller
    <2> HIDE DEF k
    <2>4. tpDisk' \in [TpSets -> Nat] /\ \A s \in TpSets \ {k.set} : tpDisk'[s] = tpDisk[s]
        BY <1>0, <2>1, <2>3 DEF TpTyped
    <2> QED
        BY <1>0, <1>4, <2>1, <2>2, <2>3, <2>4, OwnStep DEF Leading, Writing, TpTyped
<1>13. ASSUME NEW c \in TpCallers, ReleaseLease(c) PROVE TpAgrees'
    <2>1. /\ tpCaller[c].at = "release" /\ tpCaller[c].at \in Leading
          /\ UNCHANGED <<tpDisk, tpMarked, tpGen, tpMutex>> /\ tpLeases' = tpLeases \ {tpCaller[c].set}
          /\ AnswerTiles(c, tpCaller[c].result)
        BY <1>13 DEF ReleaseLease, Leading, tpFiles
    <2> QED
        BY <1>0, <1>4, <2>1, AnswerStep DEF TpTyped
<1>14. ASSUME NEW c \in TpCallers, WithdrawTiles(c) PROVE TpAgrees'
    <2> DEFINE k == [TpOut EXCEPT !.set = tpCaller[c].set, !.result = tpCaller[c].result]
               s == tpCaller[c].set
    <2>1. /\ tpCaller[c].at = "withdraw" /\ tpCaller[c].at \in Leading /\ c # TpNone
          /\ tpGen' = [r \in TpSets |-> IF tpGen[r] = c THEN TpNone ELSE tpGen[r]]
          /\ tpCaller' = [tpCaller EXCEPT ![c] = k]
          /\ UNCHANGED <<tpDisk, tpMarked, tpMutex, tpLeases>>
        BY <1>14 DEF WithdrawTiles, Leading, tpFiles, tpPool
    <2>2. IsCaller(k) /\ k.at = "out" /\ k.set = s /\ k.result = tpCaller[c].result
        <3> DEFINE j == [TpOut EXCEPT !.set = s]
        <3>1. IsCaller(j) /\ j.at = "out" /\ j.set = s
            BY DEF IsCaller, TpOut
        <3>2. k = [j EXCEPT !.result = tpCaller[c].result]
            OBVIOUS
        <3> HIDE DEF j, k
        <3> QED
            BY <3>1, <3>2 DEF IsCaller
    <2> HIDE DEF k
    <2>3. tpCaller'[c] = k /\ \A d \in TpCallers : d # c => tpCaller'[d] = tpCaller[d]
        BY <1>0, <2>1 DEF TpTyped
    <2>4. TpTyped'
        BY <1>0, <2>1 DEF TpTyped
    <2>5. ASSUME NEW d \in TpCallers PROVE CallerAgrees(d)'
        <3>1. CASE d = c
            BY <1>4, <2>1, <2>2, <2>3, <3>1 DEF CallerAgrees, Places, Leading, Writing
        <3>2. CASE d # c
            <4>1. CallerAgrees(d) /\ tpCaller'[d] = tpCaller[d]
                BY <1>0, <2>3, <3>2
            <4>2. tpCaller[d].at \in Leading => tpGen'[tpCaller[d].set] = d
                BY <2>1, <3>2, <4>1 DEF CallerAgrees, Leading, Writing
            <4>3. tpCaller[d].at = "wait" => tpCaller'[tpCaller[d].lead] = tpCaller[tpCaller[d].lead]
                BY <2>1, <2>3, <4>1 DEF CallerAgrees
            <4> QED
                BY <2>1, <4>1, <4>2, <4>3 DEF CallerAgrees
        <3> QED
            BY <3>1, <3>2
    <2>6. ASSUME NEW r \in TpSets PROVE SetAgrees(r)'
        <3>1. SetAgrees(r)
            BY <1>0
        <3>2. CASE tpGen[r] = c
            BY <2>1, <3>1, <3>2 DEF SetAgrees
        <3>3. CASE tpGen[r] # c
            BY <2>1, <2>3, <3>1, <3>3 DEF SetAgrees
        <3> QED
            BY <3>2, <3>3
    <2> QED
        BY <2>4, <2>5, <2>6 DEF TpAgrees
<1>15. ASSUME NEW c \in TpCallers, StopWaitingForTiles(c) PROVE TpAgrees'
    <2>1. tpCaller[c].at = "wait" /\ tpCaller' = [tpCaller EXCEPT ![c] = TpOut] /\ UNCHANGED <<tpFiles, tpGen, tpPool>>
        BY <1>15 DEF StopWaitingForTiles
    <2> QED
        BY <2>1, IdleStep, OutIsCaller DEF Leading, Writing
<1>16. CASE TpCrash
    <2>1. /\ UNCHANGED <<tpDisk, tpMarked>> /\ tpGen' = [s \in TpSets |-> TpNone] /\ tpCaller' = [c \in TpCallers |-> TpOut]
          /\ tpMutex' = TpNone /\ tpLeases' = {}
        BY <1>16 DEF TpCrash, tpFiles
    <2>2. TpTyped'
        BY <1>0, <2>1 DEF TpTyped
    <2>3. ASSUME NEW c \in TpCallers PROVE CallerAgrees(c)'
        BY <2>1, OutIsCaller DEF CallerAgrees, Places, Leading, Writing
    <2>4. ASSUME NEW s \in TpSets PROVE SetAgrees(s)'
        BY <1>0, <2>1 DEF SetAgrees
    <2> QED
        BY <2>2, <2>3, <2>4 DEF TpAgrees
<1> QED
    BY <1>1, <1>2, <1>3, <1>5, <1>6, <1>7, <1>8, <1>9, <1>10, <1>11, <1>12, <1>13, <1>14, <1>15, <1>16 DEF TpNext

LEMMA AgreesAlways == TpSpec => []TpAgrees
    BY AgreesAtFirst, AgreesAfterwards, PTL DEF TpSpec

(* For every number of callers, sets and crashes and every size of the tiles: what is served is whole, and one caller at
   a time writes the directory of a set, under a lease. *)
THEOREM ServedSetsAreWhole == TpSpec => []SetsAreWhole
<1>1. TpAgrees => SetsAreWhole
    <2> SUFFICES ASSUME TpAgrees PROVE SetsAreWhole
        OBVIOUS
    <2>1. ServedIsWhole
        BY DEF TpAgrees, TpTyped, CallerAgrees, SetAgrees, ServedIsWhole
    <2>2. ASSUME NEW c \in TpCallers, InTileSlot(c) PROVE tpGen[tpCaller[c].set] = c
        BY <2>2 DEF TpAgrees, CallerAgrees, InTileSlot, Leading, Writing
    <2>3. ASSUME NEW c \in TpCallers, tpCaller[c].at = "run" PROVE tpCaller[c].set \in tpLeases
        BY <2>3 DEF TpAgrees, CallerAgrees
    <2> QED
        BY <2>1, <2>2, <2>3 DEF SetsAreWhole, OneGenerationPerSet
<1> QED
    BY <1>1, AgreesAlways, PTL

-----------------------------------------------------------------------------
(* The sum of the pool.                                                    *)

SumAgrees == IsFiniteSet(tpLeases) /\ tpReserved = TpLimit * Cardinality(tpLeases)

LEMMA SumAfterwards == TpAgrees /\ SumAgrees /\ [TpNext]_tpVars => SumAgrees'
<1> SUFFICES ASSUME TpAgrees, SumAgrees, [TpNext]_tpVars PROVE SumAgrees'
    OBVIOUS
<1> TpLimit \in Nat /\ Cardinality(tpLeases) \in Nat
    BY FS_CardinalityType DEF TpLimit, SumAgrees
<1>1. CASE UNCHANGED <<tpLeases, tpReserved>>
    BY <1>1 DEF SumAgrees, TpLimit
<1>2. ASSUME NEW c \in TpCallers, AdmitLease(c), tpReserved' # tpReserved \/ tpLeases' # tpLeases PROVE SumAgrees'
    <2>1. tpReserved' = tpReserved + TpLimit /\ tpLeases' = tpLeases \cup {tpCaller[c].set} /\ tpCaller[c].at = "measure"
        BY <1>2 DEF AdmitLease
    <2>2. tpCaller[c].set \notin tpLeases
        BY <2>1 DEF TpAgrees, CallerAgrees, SetAgrees, Leading, Writing
    <2>3. IsFiniteSet(tpLeases') /\ Cardinality(tpLeases') = Cardinality(tpLeases) + 1
        BY <2>1, <2>2, FS_AddElement DEF SumAgrees
    <2> QED
        <3>1. tpReserved' = TpLimit * Cardinality(tpLeases) + TpLimit /\ TpLimit' = TpLimit
            BY <2>1 DEF SumAgrees, TpLimit
        <3> QED
            BY <2>3, <3>1 DEF SumAgrees
<1>3. ASSUME NEW c \in TpCallers, ReleaseLease(c) PROVE SumAgrees'
    <2>1. tpReserved' = tpReserved - TpLimit /\ tpLeases' = tpLeases \ {tpCaller[c].set} /\ tpCaller[c].at = "release"
        BY <1>3 DEF ReleaseLease
    <2>2. tpCaller[c].set \in tpLeases
        BY <2>1 DEF TpAgrees, CallerAgrees
    <2>3. IsFiniteSet(tpLeases') /\ Cardinality(tpLeases') = Cardinality(tpLeases) - 1
        BY <2>1, <2>2, FS_RemoveElement DEF SumAgrees
    <2> QED
        BY <2>1, <2>3 DEF SumAgrees, TpLimit
<1>4. CASE TpCrash
    BY <1>4, FS_EmptySet DEF TpCrash, SumAgrees, TpLimit
<1> QED
    BY <1>1, <1>2, <1>3, <1>4 DEF TpNext, tpVars, tpPool, Tile, EnsureTiles, GenerateTiles, RecoverIncomplete, AcquireLease, MeasureLease,
       SheetGrows, MarkComplete, GenerateFails, WithdrawTiles, StopWaitingForTiles

(* Every variable keeps its type, and what the pool has reserved is what its leases reserve, through refusals, failures
   and crashes. *)
THEOREM PoolAddsUp == TpSpec => []TpTypeOK
<1>1. TpInit => SumAgrees
    BY FS_EmptySet DEF TpInit, SumAgrees, TpLimit
<1>2. TpAgrees /\ SumAgrees => TpTypeOK
    BY DEF TpAgrees, TpTyped, SumAgrees, TpTypeOK
<1> QED
    BY <1>1, <1>2, SumAfterwards, AgreesAlways, PTL DEF TpSpec

-----------------------------------------------------------------------------
(* The space of the pool.                                                  *)

Slotted == {d \in TpCallers : InTileSlot(d)}

\* What lies on disk outside the leases, each set counted up to one job.
Unleased == SumFunctionOnSet(TpCapped, TpSets \ tpLeases)

\* Who measures has the mutex, and counted no less than what lies outside the
\* leases but for one job for each lease it has measured already.
MeasuringAgrees(c) ==
    tpCaller[c].at = "measure" =>
        /\ tpMutex = c
        /\ tpCaller[c].left \subseteq tpLeases /\ tpCaller[c].used \in Int
        /\ Unleased <= tpCaller[c].used + TpLimit * Cardinality(tpLeases \ tpCaller[c].left)

PoolAgrees ==
    /\ Cardinality(Slotted) <= TpSlots
    /\ \A c \in TpCallers : MeasuringAgrees(c)
    /\ SpaceIsBounded

LEMMA CappedType ==
    ASSUME TpTyped
    PROVE  /\ TpLimit \in Nat /\ TpTotal \in Nat
           /\ \A s \in TpSets : /\ TpCapped[s] \in Nat /\ TpCapped[s] <= TpLimit
                                /\ TpCapped[s] <= tpDisk[s] /\ tpDisk[s] \in Nat
           /\ IsFiniteSet(tpLeases) /\ IsFiniteSet(TpSets \ tpLeases)
           /\ Cardinality(tpLeases) \in Nat
           /\ Unleased \in Nat
<1>1. TpLimit \in Nat /\ TpTotal \in Nat
    BY DEF TpLimit
<1>2. ASSUME NEW s \in TpSets
      PROVE  /\ TpCapped[s] \in Nat /\ TpCapped[s] <= TpLimit
             /\ TpCapped[s] <= tpDisk[s] /\ tpDisk[s] \in Nat
    BY <1>1 DEF TpCapped, TpTyped
<1>3. IsFiniteSet(tpLeases) /\ IsFiniteSet(TpSets \ tpLeases)
    BY FS_Subset DEF TpTyped
<1>4. Cardinality(tpLeases) \in Nat
    BY <1>3, FS_CardinalityType
<1>5. Unleased \in Nat
    BY <1>2, <1>3, SumNat DEF Unleased
<1> QED
    BY <1>1, <1>2, <1>3, <1>4, <1>5

LEMMA ReservedType == ASSUME TpTyped, SumAgrees PROVE tpReserved \in Nat
<1>1. TpLimit \in Nat /\ Cardinality(tpLeases) \in Nat
    BY CappedType
<1> QED
    BY <1>1 DEF SumAgrees

\* A lease is of a caller that runs or releases, so that one slot is left for
\* the caller that measures.
LEMMA LeasesLeaveSlot ==
    ASSUME TpAgrees, PoolAgrees, NEW c \in TpCallers, tpCaller[c].at = "measure"
    PROVE  Cardinality(tpLeases) <= TpSlots - 1
<1> DEFINE Others == Slotted \ {c}
           f == [s \in tpLeases |-> tpGen[s]]
<1>1. IsFiniteSet(Slotted) /\ c \in Slotted
    BY FS_Subset DEF Slotted, InTileSlot
<1>2. IsFiniteSet(Others) /\ Cardinality(Others) = Cardinality(Slotted) - 1
    BY <1>1, FS_RemoveElement
<1>3. ASSUME NEW s \in tpLeases PROVE tpGen[s] \in Others /\ tpCaller[tpGen[s]].set = s
    BY DEF TpAgrees, TpTyped, SetAgrees, Slotted, InTileSlot
<1>4. f \in Injection(tpLeases, Others)
    <2>1. f \in [tpLeases -> Others]
        BY <1>3
    <2>2. \A s, r \in tpLeases : f[s] = f[r] => s = r
        BY <1>3
    <2> HIDE DEF f, Others
    <2> QED
        BY <2>1, <2>2 DEF Injection, IsInjective
<1>5. Cardinality(tpLeases) <= Cardinality(Others)
    <2> HIDE DEF f, Others
    <2> QED
        BY <1>2, <1>4, FS_Injection
<1>6. Cardinality(tpLeases) \in Nat /\ Cardinality(Slotted) \in Nat
    BY <1>1, CappedType, FS_CardinalityType DEF TpAgrees
<1> QED
    BY <1>2, <1>5, <1>6 DEF PoolAgrees, TpSlots

\* d takes no slot and measures on only as it did.
Keeps(d) ==
    /\ InTileSlot(d)' => InTileSlot(d)
    /\ tpCaller'[d].at = "measure" => tpCaller'[d] = tpCaller[d]

LEMMA SlotsKeep ==
    ASSUME PoolAgrees, \A d \in TpCallers : InTileSlot(d)' => InTileSlot(d)
    PROVE  Cardinality(Slotted') <= TpSlots
<1>1. IsFiniteSet(Slotted) /\ Slotted' \in SUBSET Slotted
    BY FS_Subset DEF Slotted
<1>2. IsFiniteSet(Slotted') /\ Cardinality(Slotted') <= Cardinality(Slotted)
    BY <1>1, FS_Subset
<1>3. Cardinality(Slotted) \in Nat /\ Cardinality(Slotted') \in Nat
    BY <1>1, <1>2, FS_CardinalityType
<1> QED
    BY <1>2, <1>3 DEF PoolAgrees, TpSlots

\* Nothing grows outside the leases.
LEMMA ApartShrinks ==
    ASSUME TpTyped, TpTyped', UNCHANGED tpLeases,
           \A s \in TpSets \ tpLeases : tpDisk'[s] <= tpDisk[s]
    PROVE  Unleased' <= Unleased /\ Unleased' \in Nat
<1> DEFINE S == TpSets \ tpLeases
           v == TpCapped
           w == TpCapped'
<1>1. IsFiniteSet(S)
    BY CappedType
<1>2. \A s \in S : v[s] \in Nat /\ w[s] \in Nat /\ w[s] <= v[s]
    BY DEF TpCapped, TpTyped, TpLimit
<1>3. Unleased = SumFunctionOnSet(v, S) /\ Unleased' = SumFunctionOnSet(w, S)
    BY DEF Unleased
<1> HIDE DEF S, v, w
<1> QED
    BY <1>1, <1>2, <1>3, SumMonotone, SumNat

\* A step that leaves the pool alone.
LEMMA PoolStill ==
    ASSUME TpAgrees, TpAgrees', SumAgrees, PoolAgrees, UNCHANGED tpPool,
           Cardinality(Slotted') <= TpSlots,
           \A d \in TpCallers : tpCaller'[d].at = "measure" => tpCaller'[d] = tpCaller[d],
           \A s \in TpSets \ tpLeases : tpDisk'[s] <= tpDisk[s]
    PROVE  PoolAgrees'
<1>1. Unleased' <= Unleased /\ Unleased' \in Nat /\ Unleased \in Nat
    BY ApartShrinks, CappedType DEF TpAgrees, tpPool
<1>2. TpLimit \in Nat /\ TpTotal \in Nat /\ tpReserved \in Nat
    BY ReservedType, CappedType DEF TpAgrees
<1>3. ASSUME NEW c \in TpCallers PROVE MeasuringAgrees(c)'
    <2> SUFFICES ASSUME tpCaller'[c].at = "measure" PROVE MeasuringAgrees(c)'
        BY DEF MeasuringAgrees
    <2> DEFINE Measured == TpLimit * Cardinality(tpLeases \ tpCaller[c].left)
    <2>1. tpCaller'[c] = tpCaller[c] /\ MeasuringAgrees(c)
        BY DEF PoolAgrees
    <2>2. Measured \in Nat
        <3>1. IsFiniteSet(tpLeases \ tpCaller[c].left)
            BY CappedType, FS_Subset DEF TpAgrees
        <3>2. Cardinality(tpLeases \ tpCaller[c].left) \in Nat
            BY <3>1, FS_CardinalityType
        <3> QED
            BY <1>2, <3>2
    <2>3. /\ tpMutex = c /\ tpCaller[c].left \subseteq tpLeases
          /\ tpCaller[c].used \in Int /\ Unleased <= tpCaller[c].used + Measured
        BY <2>1 DEF MeasuringAgrees
    <2>4. Measured' = Measured
        BY <2>1 DEF tpPool, TpLimit
    <2> HIDE DEF Measured
    <2>5. Unleased' <= tpCaller[c].used + Measured'
        BY <1>1, <2>2, <2>3, <2>4
    <2> QED
        BY <2>1, <2>3, <2>5 DEF MeasuringAgrees, tpPool, Measured
<1>4. SpaceIsBounded'
    <2> SUFFICES ASSUME TpTotal > 0 PROVE Unleased' + tpReserved' <= TpTotal + TpLimit * (TpSlots - 1)
        BY DEF SpaceIsBounded, Unleased, TpLimit
    <2>1. Unleased + tpReserved <= TpTotal + TpLimit * (TpSlots - 1)
        BY DEF PoolAgrees, SpaceIsBounded, Unleased
    <2>2. tpReserved' = tpReserved /\ TpLimit * (TpSlots - 1) \in Nat
        BY <1>2 DEF tpPool, TpSlots
    <2> QED
        BY <1>1, <1>2, <2>1, <2>2
<1> QED
    BY <1>3, <1>4 DEF PoolAgrees

LEMMA OutStays == ASSUME NEW s, NEW r PROVE [TpOut EXCEPT !.set = s, !.result = r].at = "out"
<1>1. [TpOut EXCEPT !.set = s].at = "out" /\ IsCaller([TpOut EXCEPT !.set = s])
    BY DEF IsCaller, TpOut
<1>2. [TpOut EXCEPT !.set = s, !.result = r] = [[TpOut EXCEPT !.set = s] EXCEPT !.result = r]
    OBVIOUS
<1> QED
    BY <1>1, <1>2 DEF IsCaller

\* Of what a caller does to itself, the pool sees where it is.
LEMMA OneKeeps ==
    ASSUME NEW c \in TpCallers, \A d \in TpCallers \ {c} : tpCaller'[d] = tpCaller[d],
           tpCaller'[c].at # "measure", InTileSlot(c)' => InTileSlot(c)
    PROVE  \A d \in TpCallers : Keeps(d)
<1> SUFFICES ASSUME NEW d \in TpCallers PROVE Keeps(d)
    OBVIOUS
<1>1. CASE d = c
    BY <1>1 DEF Keeps
<1>2. CASE d # c
    BY <1>2 DEF Keeps, InTileSlot
<1> QED
    BY <1>1, <1>2

LEMMA AnswerKeeps ==
    ASSUME TpAgrees, NEW c \in TpCallers, NEW result, AnswerTiles(c, result)
    PROVE  /\ \A d \in TpCallers : Keeps(d)
           /\ \A d \in TpCallers : tpCaller'[d].at = "measure" => d # c
<1>1. tpCaller'[c].at = "withdraw"
    <2>1. IsCaller(tpCaller[c])
        BY DEF TpAgrees, CallerAgrees
    <2> QED
        BY <2>1 DEF AnswerTiles, IsCaller
<1> SUFFICES ASSUME NEW d \in TpCallers PROVE Keeps(d) /\ (tpCaller'[d].at = "measure" => d # c)
    OBVIOUS
<1>2. CASE d = c
    BY <1>1, <1>2 DEF Keeps, InTileSlot
<1>3. CASE d # c /\ tpCaller'[d] # tpCaller[d]
    <2>1. tpCaller'[d].at = "out"
        BY <1>3 DEF AnswerTiles, TpOut
    <2> QED
        BY <1>3, <2>1 DEF Keeps, InTileSlot
<1>4. CASE d # c /\ tpCaller'[d] = tpCaller[d]
    BY <1>4 DEF Keeps, InTileSlot
<1> QED
    BY <1>2, <1>3, <1>4

\* What the actions do that neither take a slot nor use the pool.
PoolSpared(c) ==
    \/ \E s \in TpSets : Tile(c, s)
    \/ EnsureTiles(c) \/ RecoverIncomplete(c) \/ SheetGrows(c) \/ MarkComplete(c)
    \/ GenerateFails(c) \/ WithdrawTiles(c) \/ StopWaitingForTiles(c)

LEMMA SparedKeeps ==
    ASSUME TpAgrees, NEW c \in TpCallers, PoolSpared(c)
    PROVE  /\ UNCHANGED tpPool
           /\ \A d \in TpCallers : Keeps(d)
           /\ \A s \in TpSets \ tpLeases : tpDisk'[s] <= tpDisk[s]
<1>0. /\ TpTyped /\ CallerAgrees(c) /\ IsCaller(tpCaller[c])
      /\ \A s \in TpSets : tpDisk[s] \in Nat
    BY DEF TpAgrees, TpTyped, CallerAgrees
<1>1. UNCHANGED tpPool
    BY DEF PoolSpared, Tile, EnsureTiles, RecoverIncomplete, SheetGrows, MarkComplete,
           GenerateFails, WithdrawTiles, StopWaitingForTiles
<1>2. \A d \in TpCallers \ {c} : tpCaller'[d] = tpCaller[d]
    BY <1>0 DEF PoolSpared, TpTyped, Tile, EnsureTiles, RecoverIncomplete, SheetGrows,
           MarkComplete, GenerateFails, WithdrawTiles, StopWaitingForTiles, TpTo, Settle
<1>3. tpCaller'[c].at # "measure" /\ (InTileSlot(c)' => InTileSlot(c))
    <2>1. CASE \E s \in TpSets : Tile(c, s)
        BY <1>0, <2>1 DEF Tile, TpTyped, TpOut, InTileSlot
    <2>2. CASE EnsureTiles(c)
        <3> DEFINE lead == tpGen[tpCaller[c].set]
                   k == [tpCaller[c] EXCEPT !.at = "wait", !.lead = lead]
        <3>1. k.at = "wait"
            <4>1. [tpCaller[c] EXCEPT !.at = "wait"].at = "wait" /\ IsCaller([tpCaller[c] EXCEPT !.at = "wait"])
                BY <1>0 DEF IsCaller
            <4>2. k = [[tpCaller[c] EXCEPT !.at = "wait"] EXCEPT !.lead = lead]
                OBVIOUS
            <4> QED
                BY <4>1, <4>2 DEF IsCaller
        <3>2. CASE lead = TpNone
            <4>1. tpCaller'[c].at = "lock"
                BY <1>0, <2>2, <3>2 DEF EnsureTiles, TpTyped, TpTo, IsCaller
            <4> QED
                BY <4>1 DEF InTileSlot
        <3>3. CASE lead # TpNone
            <4> DEFINE away == [TpOut EXCEPT !.set = tpCaller[c].set, !.result = tpCaller[lead].result]
            <4>0. away.at = "out"
                BY OutStays
            <4>1. tpCaller'[c] = k \/ tpCaller'[c] = away
                BY <1>0, <2>2, <3>3 DEF EnsureTiles, TpTyped
            <4> HIDE DEF k, away
            <4>2. tpCaller'[c].at \in {"wait", "out"}
                BY <3>1, <4>0, <4>1
            <4> QED
                BY <4>2 DEF InTileSlot
        <3> QED
            BY <3>2, <3>3
    <2>3. CASE RecoverIncomplete(c)
        BY <1>0, <2>3 DEF RecoverIncomplete, TpTyped, TpTo, IsCaller, InTileSlot
    <2>4. CASE SheetGrows(c)
        BY <2>4 DEF SheetGrows, InTileSlot
    <2>5. CASE MarkComplete(c) \/ GenerateFails(c)
        BY <1>0, <2>5 DEF MarkComplete, GenerateFails, Settle, TpTyped, IsCaller, InTileSlot
    <2>6. CASE WithdrawTiles(c) \/ StopWaitingForTiles(c)
        <3> DEFINE away == [TpOut EXCEPT !.set = tpCaller[c].set, !.result = tpCaller[c].result]
        <3>0. away.at = "out" /\ TpOut.at = "out"
            BY OutStays, OutIsCaller
        <3>2. tpCaller'[c] \in {away, TpOut}
            BY <1>0, <2>6 DEF WithdrawTiles, StopWaitingForTiles, TpTyped
        <3> HIDE DEF away
        <3>1. tpCaller'[c].at = "out"
            BY <3>0, <3>2
        <3> QED
            BY <3>1 DEF InTileSlot
    <2> QED
        BY <2>1, <2>2, <2>3, <2>4, <2>5, <2>6 DEF PoolSpared
<1>4. \A s \in TpSets \ tpLeases : tpDisk'[s] <= tpDisk[s]
    <2>1. CASE UNCHANGED tpDisk
        BY <1>0, <2>1
    <2>2. CASE RecoverIncomplete(c) \/ GenerateFails(c)
        BY <1>0, <2>2 DEF RecoverIncomplete, GenerateFails, TpTyped
    <2>3. CASE SheetGrows(c)
        <3>1. tpCaller[c].set \in tpLeases
            BY <1>0, <2>3 DEF SheetGrows, CallerAgrees
        <3> QED
            BY <1>0, <2>3, <3>1 DEF SheetGrows, TpTyped
    <2> QED
        BY <2>1, <2>2, <2>3 DEF PoolSpared, tpFiles, Tile, EnsureTiles, MarkComplete,
               WithdrawTiles, StopWaitingForTiles
<1> QED
    BY <1>1, <1>2, <1>3, <1>4, OneKeeps

LEMMA SparedPool ==
    ASSUME TpAgrees, TpAgrees', SumAgrees, PoolAgrees, NEW c \in TpCallers, PoolSpared(c)
    PROVE  PoolAgrees'
    BY SparedKeeps, SlotsKeep, PoolStill DEF Keeps

LEMMA GenerateTilesPool ==
    ASSUME TpAgrees, TpAgrees', SumAgrees, PoolAgrees, NEW c \in TpCallers, GenerateTiles(c)
    PROVE  PoolAgrees'
<1>0. /\ TpTyped /\ IsCaller(tpCaller[c]) /\ UNCHANGED tpPool
      /\ \A s \in TpSets \ tpLeases : tpDisk'[s] <= tpDisk[s]
    BY DEF TpAgrees, TpTyped, CallerAgrees, GenerateTiles, tpFiles
<1>1. ASSUME NEW result, AnswerTiles(c, result) PROVE PoolAgrees'
    BY <1>0, <1>1, AnswerKeeps, SlotsKeep, PoolStill DEF Keeps
<1>2. CASE Cardinality(Slotted) < TpSlots /\ TpTo(c, "recover")
    <2>1. tpCaller'[c].at = "recover" /\ \A d \in TpCallers \ {c} : tpCaller'[d] = tpCaller[d]
        BY <1>0, <1>2 DEF TpTo, TpTyped, IsCaller
    <2>2. IsFiniteSet(Slotted) /\ Slotted' \in SUBSET (Slotted \cup {c})
        BY <2>1, FS_Subset DEF Slotted, InTileSlot
    <2>3. /\ IsFiniteSet(Slotted \cup {c})
          /\ Cardinality(Slotted \cup {c}) <= Cardinality(Slotted) + 1
          /\ Cardinality(Slotted) \in Nat
        <3>1. Cardinality(Slotted) \in Nat
            BY <2>2, FS_CardinalityType
        <3>2. /\ IsFiniteSet(Slotted \cup {c})
              /\ Cardinality(Slotted \cup {c}) \in {Cardinality(Slotted), Cardinality(Slotted) + 1}
            BY <2>2, FS_AddElement
        <3> QED
            BY <3>1, <3>2
    <2>4. /\ IsFiniteSet(Slotted') /\ Cardinality(Slotted') <= Cardinality(Slotted \cup {c})
        BY <2>2, <2>3, FS_Subset
    <2>5. Cardinality(Slotted') <= TpSlots
        <3>1. Cardinality(Slotted \cup {c}) \in Nat /\ Cardinality(Slotted') \in Nat
            BY <2>3, <2>4, FS_CardinalityType
        <3> QED
            BY <1>2, <2>3, <2>4, <3>1 DEF TpSlots
    <2>6. \A d \in TpCallers : tpCaller'[d].at = "measure" => tpCaller'[d] = tpCaller[d]
        BY <2>1
    <2> QED
        BY <1>0, <2>5, <2>6, PoolStill
<1> QED
    BY <1>1, <1>2 DEF GenerateTiles, Slotted

\* What is counted first is the whole tree.
LEMMA AcquirePool ==
    ASSUME TpAgrees, TpAgrees', SumAgrees, PoolAgrees, NEW c \in TpCallers, AcquireLease(c)
    PROVE  PoolAgrees'
<1>0. /\ TpTyped /\ IsCaller(tpCaller[c])
      /\ tpCaller[c].at = "reserve" /\ tpMutex = TpNone /\ tpMutex' = c
      /\ UNCHANGED <<tpDisk, tpReserved, tpLeases>>
    BY DEF TpAgrees, CallerAgrees, AcquireLease, tpFiles
<1>1. /\ tpCaller'[c].at = "measure" /\ tpCaller'[c].used = TreeSize /\ tpCaller'[c].left = tpLeases
      /\ \A d \in TpCallers \ {c} : tpCaller'[d] = tpCaller[d]
    BY <1>0 DEF AcquireLease, TpTyped, IsCaller
<1>2. Unleased' = Unleased /\ TpCapped' = TpCapped
    BY <1>0 DEF Unleased, TpCapped, TpLimit
<1>3. TreeSize \in Int /\ Unleased <= TreeSize
    <2> DEFINE v == TpCapped
               All == SumFunctionOnSet(v, TpSets)
    <2>1. \A s \in TpSets : v[s] \in Nat /\ v[s] <= TpLimit /\ v[s] <= tpDisk[s] /\ tpDisk[s] \in Nat
        BY <1>0, CappedType
    <2>2. TpLimit \in Nat /\ Unleased \in Nat /\ tpLeases \in SUBSET TpSets
        BY <1>0, CappedType DEF TpTyped
    <2> HIDE DEF v
    <2>3. SumFunctionOnSet(v, TpSets \ tpLeases) <= All
        BY <2>1, <2>2, SumWithout
    <2>4. All <= TreeSize
        BY <2>1, SumMonotone DEF TreeSize
    <2>5. All \in Int /\ TreeSize \in Int
        BY <2>1, SumType DEF TreeSize
    <2>6. Unleased = SumFunctionOnSet(v, TpSets \ tpLeases)
        BY DEF Unleased, v
    <2> HIDE DEF All
    <2> QED
        BY <2>2, <2>3, <2>4, <2>5, <2>6
<1>4. ASSUME NEW d \in TpCallers PROVE MeasuringAgrees(d)'
    <2>1. CASE d = c
        <3>1. tpLeases' \ tpCaller'[c].left = {}
            BY <1>0, <1>1
        <3>2. TpLimit * Cardinality(tpLeases' \ tpCaller'[c].left) = 0
            <4>1. TpLimit * 0 = 0 /\ Cardinality({}) = 0
                BY <1>0, CappedType, FS_EmptySet
            <4> QED
                BY <3>1, <4>1
        <3>3. Unleased' <= tpCaller'[c].used + TpLimit * Cardinality(tpLeases' \ tpCaller'[c].left)
            BY <1>1, <1>2, <1>3, <3>2
        <3> QED
            BY <1>0, <1>1, <1>3, <2>1, <3>3 DEF MeasuringAgrees, TpLimit
    <2>2. CASE d # c
        <3>1. tpCaller[d].at # "measure"
            BY <1>0 DEF PoolAgrees, MeasuringAgrees
        <3> QED
            BY <1>1, <2>2, <3>1 DEF MeasuringAgrees
    <2> QED
        BY <2>1, <2>2
<1>5. Cardinality(Slotted') <= TpSlots
    <2>1. ASSUME NEW d \in TpCallers PROVE InTileSlot(d)' => InTileSlot(d)
        BY <1>0, <1>1 DEF InTileSlot
    <2> QED
        BY <2>1, SlotsKeep
<1>6. SpaceIsBounded'
    BY <1>0, <1>2 DEF PoolAgrees, SpaceIsBounded, TpLimit
<1> QED
    BY <1>4, <1>5, <1>6 DEF PoolAgrees

\* A lease that has been measured took off no more than one job.
LEMMA MeasurePool ==
    ASSUME TpAgrees, TpAgrees', SumAgrees, PoolAgrees, NEW c \in TpCallers, MeasureLease(c)
    PROVE  PoolAgrees'
<1>0. /\ TpTyped /\ IsCaller(tpCaller[c]) /\ tpCaller[c].at = "measure"
      /\ UNCHANGED <<tpDisk, tpMutex, tpReserved, tpLeases>>
    BY DEF TpAgrees, CallerAgrees, MeasureLease, tpFiles, tpPool
<1>1. PICK s \in tpCaller[c].left :
          tpCaller' = [tpCaller EXCEPT ![c].left = @ \ {s}, ![c].used = @ - TpCapped[s]]
    BY DEF MeasureLease
<1> DEFINE Left == tpCaller[c].left
<1>2. /\ tpCaller'[c].at = "measure" /\ tpCaller'[c].left = Left \ {s}
      /\ tpCaller'[c].used = tpCaller[c].used - TpCapped[s]
      /\ \A d \in TpCallers \ {c} : tpCaller'[d] = tpCaller[d]
    BY <1>0, <1>1 DEF TpTyped, IsCaller
<1>3. Unleased' = Unleased /\ Unleased \in Nat /\ TpLimit \in Nat
    BY <1>0, CappedType DEF Unleased, TpCapped, TpLimit
<1>4. /\ tpMutex = c /\ Left \subseteq tpLeases /\ tpCaller[c].used \in Int
      /\ Unleased <= tpCaller[c].used + TpLimit * Cardinality(tpLeases \ Left)
    BY <1>0 DEF PoolAgrees, MeasuringAgrees
<1>5. TpCapped[s] \in Nat /\ TpCapped[s] <= TpLimit
    BY <1>0, <1>4, CappedType DEF TpTyped
<1>6. /\ Cardinality(tpLeases \ Left) \in Nat
      /\ Cardinality(tpLeases \ (Left \ {s})) = Cardinality(tpLeases \ Left) + 1
    <2>1. tpLeases \ (Left \ {s}) = (tpLeases \ Left) \cup {s} /\ s \notin tpLeases \ Left
        BY <1>4
    <2>2. IsFiniteSet(tpLeases \ Left)
        BY <1>0, CappedType, FS_Subset
    <2> QED
        BY <2>1, <2>2, FS_AddElement, FS_CardinalityType
<1>7. ASSUME NEW d \in TpCallers PROVE MeasuringAgrees(d)'
    <2>1. CASE d = c
        <3> DEFINE n == Cardinality(tpLeases \ Left)
        <3>1. Cardinality(tpLeases' \ tpCaller'[c].left) = n + 1
            BY <1>0, <1>2, <1>6
        <3>2. TpLimit * (n + 1) = TpLimit * n + TpLimit /\ TpLimit * n \in Nat
            BY <1>3, <1>6
        <3>3. Unleased <= tpCaller[c].used - TpCapped[s] + (TpLimit * n + TpLimit)
            BY <1>3, <1>4, <1>5, <3>2
        <3>4. Unleased' <= tpCaller'[c].used + TpLimit * Cardinality(tpLeases' \ tpCaller'[c].left)
            BY <1>2, <1>3, <3>1, <3>2, <3>3
        <3>5. tpMutex' = c /\ tpCaller'[c].left \subseteq tpLeases'
            BY <1>0, <1>2, <1>4
        <3>6. tpCaller'[c].used \in Int
            BY <1>2, <1>4, <1>5
        <3> QED
            BY <2>1, <3>4, <3>5, <3>6 DEF MeasuringAgrees, TpLimit
    <2>2. CASE d # c
        <3>1. tpCaller[d].at # "measure"
            BY <1>4, <2>2 DEF PoolAgrees, MeasuringAgrees
        <3> QED
            BY <1>2, <2>2, <3>1 DEF MeasuringAgrees
    <2> QED
        BY <2>1, <2>2
<1>8. Cardinality(Slotted') <= TpSlots
    <2>1. ASSUME NEW d \in TpCallers PROVE InTileSlot(d)' => InTileSlot(d)
        BY <1>0, <1>2 DEF InTileSlot
    <2> QED
        BY <2>1, SlotsKeep
<1>9. SpaceIsBounded'
    <2>1. TpCapped' = TpCapped
        BY <1>0 DEF TpCapped, TpLimit
    <2> QED
        BY <1>0, <2>1 DEF PoolAgrees, SpaceIsBounded, TpLimit
<1> QED
    BY <1>7, <1>8, <1>9 DEF PoolAgrees

\* What was counted leaves room for one more job.
LEMMA AdmitPool ==
    ASSUME TpAgrees, TpAgrees', SumAgrees, PoolAgrees, NEW c \in TpCallers, AdmitLease(c)
    PROVE  PoolAgrees'
<1> DEFINE used == IF tpCaller[c].used < 0 THEN 0 ELSE tpCaller[c].used
           set == tpCaller[c].set
<1>0. /\ TpTyped /\ IsCaller(tpCaller[c]) /\ tpCaller[c].at = "measure" /\ tpCaller[c].left = {}
      /\ tpMutex' = TpNone /\ UNCHANGED tpDisk /\ set \in TpSets /\ set \notin tpLeases
    BY DEF TpAgrees, CallerAgrees, SetAgrees, AdmitLease, tpFiles, Leading, Writing
<1>1. /\ tpMutex = c /\ tpCaller[c].used \in Int
      /\ Unleased <= tpCaller[c].used + TpLimit * Cardinality(tpLeases)
    <2>1. tpLeases \ {} = tpLeases
        OBVIOUS
    <2> QED
        BY <1>0, <2>1 DEF PoolAgrees, MeasuringAgrees
<1>2. \A d \in TpCallers : tpCaller[d].at = "measure" => d = c
    BY <1>1 DEF PoolAgrees, MeasuringAgrees
<1>3. TpLimit \in Nat /\ TpTotal \in Nat /\ Cardinality(tpLeases) \in Nat /\ Unleased \in Nat /\ tpReserved \in Nat
    BY <1>0, CappedType, ReservedType
<1>4. CASE AnswerTiles(c, "limit") /\ UNCHANGED <<tpReserved, tpLeases>>
    <2>1. ASSUME NEW d \in TpCallers
          PROVE  Keeps(d) /\ tpCaller'[d].at # "measure"
        BY <1>2, <1>4, AnswerKeeps DEF Keeps
    <2>2. Cardinality(Slotted') <= TpSlots
        BY <2>1, SlotsKeep DEF Keeps
    <2>3. \A d \in TpCallers : MeasuringAgrees(d)'
        BY <2>1 DEF MeasuringAgrees
    <2>4. SpaceIsBounded'
        <3>1. TpCapped' = TpCapped
            BY <1>0 DEF TpCapped, TpLimit
        <3> QED
            BY <1>4, <3>1 DEF PoolAgrees, SpaceIsBounded, TpLimit
    <2> QED
        BY <2>2, <2>3, <2>4 DEF PoolAgrees
<1>5. CASE /\ TpTotal = 0 \/ TpFits(used)
           /\ tpReserved' = tpReserved + TpLimit /\ tpLeases' = tpLeases \cup {set}
           /\ TpTo(c, "run")
    <2>1. tpCaller'[c].at = "run" /\ \A d \in TpCallers \ {c} : tpCaller'[d] = tpCaller[d]
        BY <1>0, <1>5 DEF TpTo, TpTyped, IsCaller
    <2>2. \A d \in TpCallers : Keeps(d) /\ tpCaller'[d].at # "measure"
        BY <1>0, <1>2, <2>1, OneKeeps DEF InTileSlot
    <2>3. Cardinality(Slotted') <= TpSlots
        BY <2>2, SlotsKeep DEF Keeps
    <2>4. \A d \in TpCallers : MeasuringAgrees(d)'
        BY <2>2 DEF MeasuringAgrees
    <2>5. SpaceIsBounded'
        <3> SUFFICES ASSUME TpTotal > 0 PROVE SpaceIsBounded'
            BY DEF SpaceIsBounded
        <3> DEFINE v == TpCapped
                   S == TpSets \ tpLeases
        <3>1. Unleased' <= Unleased /\ Unleased' \in Nat
            <4>1. Unleased = SumFunctionOnSet(v, S) /\ Unleased' = SumFunctionOnSet(v, S \ {set})
                <5>1. TpCapped' = TpCapped
                    BY <1>0 DEF TpCapped, TpLimit
                <5>2. TpSets \ tpLeases' = S \ {set}
                    BY <1>5
                <5> QED
                    BY <5>1, <5>2 DEF Unleased
            <4>2. IsFiniteSet(S) /\ (\A x \in S : v[x] \in Nat) /\ set \in S
                BY <1>0, CappedType
            <4>3. IsFiniteSet(S \ {set}) /\ \A x \in S \ {set} : v[x] \in Nat
                BY <4>2, FS_RemoveElement
            <4> HIDE DEF v, S, set
            <4>4. SumFunctionOnSet(v, S) = v[set] + SumFunctionOnSet(v, S \ {set})
                BY <4>2, SumRemove
            <4>5. SumFunctionOnSet(v, S \ {set}) \in Nat
                BY <4>3, SumNat
            <4> QED
                BY <4>1, <4>2, <4>4, <4>5
        <3>2. TpFits(used) /\ used \in Nat /\ tpCaller[c].used <= used
            BY <1>1, <1>3, <1>5
        <3> HIDE DEF used, set, S, v
        <3>3. used + tpReserved + TpLimit <= TpTotal
            BY <1>3, <3>2 DEF TpFits
        <3>4. TpLimit * Cardinality(tpLeases) <= TpLimit * (TpSlots - 1) /\ TpLimit * Cardinality(tpLeases) \in Nat
            <4>1. Cardinality(tpLeases) \in {0, 1}
                BY <1>0, <1>3, LeasesLeaveSlot DEF TpSlots
            <4>2. TpLimit * 0 = 0 /\ TpLimit * 1 = TpLimit /\ TpSlots - 1 = 1
                BY <1>3 DEF TpSlots
            <4> QED
                BY <1>3, <4>1, <4>2
        <3>5. TpLimit * (TpSlots - 1) \in Nat
            BY <1>3 DEF TpSlots
        <3>6. Unleased' + tpReserved' <= TpTotal + TpLimit * (TpSlots - 1)
            BY <1>1, <1>3, <1>5, <3>1, <3>2, <3>3, <3>4, <3>5
        <3> QED
            BY <3>6 DEF SpaceIsBounded, Unleased, TpLimit
    <2> QED
        BY <2>3, <2>4, <2>5 DEF PoolAgrees
<1> QED
    BY <1>4, <1>5 DEF AdmitLease

\* What a lease held is no more than what was reserved for it.
LEMMA ReleasePool ==
    ASSUME TpAgrees, TpAgrees', SumAgrees, PoolAgrees, NEW c \in TpCallers, ReleaseLease(c)
    PROVE  PoolAgrees'
<1> DEFINE set == tpCaller[c].set
           v == TpCapped
           S == TpSets \ tpLeases
<1>0. /\ TpTyped /\ tpCaller[c].at = "release" /\ tpMutex = TpNone /\ set \in tpLeases /\ set \in TpSets
      /\ tpReserved' = tpReserved - TpLimit /\ tpLeases' = tpLeases \ {set}
      /\ UNCHANGED tpDisk /\ AnswerTiles(c, tpCaller[c].result)
    BY DEF TpAgrees, CallerAgrees, ReleaseLease, tpFiles
<1>1. ASSUME NEW d \in TpCallers PROVE Keeps(d) /\ tpCaller'[d].at # "measure"
    <2>1. Keeps(d)
        BY <1>0, AnswerKeeps
    <2>2. tpCaller[d].at # "measure"
        BY <1>0 DEF PoolAgrees, MeasuringAgrees
    <2> QED
        BY <2>1, <2>2 DEF Keeps
<1>2. Cardinality(Slotted') <= TpSlots
    BY <1>1, SlotsKeep DEF Keeps
<1>3. \A d \in TpCallers : MeasuringAgrees(d)'
    BY <1>1 DEF MeasuringAgrees
<1>4. SpaceIsBounded'
    <2> SUFFICES ASSUME TpTotal > 0 PROVE SpaceIsBounded'
        BY DEF SpaceIsBounded
    <2>1. TpLimit \in Nat /\ TpTotal \in Nat /\ Unleased \in Nat /\ tpReserved \in Nat
        BY <1>0, CappedType, ReservedType
    <2>2. IsFiniteSet(S) /\ (\A x \in S : v[x] \in Nat) /\ v[set] \in Nat /\ v[set] <= TpLimit /\ set \notin S
        BY <1>0, CappedType
    <2>3. Unleased = SumFunctionOnSet(v, S) /\ Unleased' = SumFunctionOnSet(v, S \cup {set})
        <3>1. TpCapped' = TpCapped
            BY <1>0 DEF TpCapped, TpLimit
        <3>2. TpSets \ tpLeases' = S \cup {set}
            BY <1>0
        <3> QED
            BY <3>1, <3>2 DEF Unleased
    <2> HIDE DEF v, S, set
    <2>4. Unleased' = v[set] + Unleased
        BY <2>2, <2>3, SumAdd
    <2>5. Unleased + tpReserved <= TpTotal + TpLimit * (TpSlots - 1) /\ TpLimit * (TpSlots - 1) \in Nat
        BY <2>1 DEF PoolAgrees, SpaceIsBounded, Unleased, TpSlots
    <2>6. Unleased' + tpReserved' <= TpTotal + TpLimit * (TpSlots - 1)
        BY <1>0, <2>1, <2>2, <2>4, <2>5
    <2> QED
        BY <2>6 DEF SpaceIsBounded, Unleased, TpLimit
<1> QED
    BY <1>2, <1>3, <1>4 DEF PoolAgrees

\* A crash turns what the leases held, at most what was reserved, into finished space.
LEMMA CrashPool ==
    ASSUME TpAgrees, TpAgrees', SumAgrees, PoolAgrees, TpCrash
    PROVE  PoolAgrees'
<1>0. /\ TpTyped /\ tpReserved' = 0 /\ tpLeases' = {} /\ UNCHANGED tpDisk
      /\ tpReserved = TpLimit * Cardinality(tpLeases)
      /\ \A d \in TpCallers : tpCaller'[d].at = "out"
    BY DEF TpAgrees, SumAgrees, TpCrash, tpFiles, TpOut
<1>1. Cardinality(Slotted') <= TpSlots
    BY <1>0, SlotsKeep DEF InTileSlot
<1>2. \A d \in TpCallers : MeasuringAgrees(d)'
    BY <1>0 DEF MeasuringAgrees
<1>3. SpaceIsBounded'
    <2> SUFFICES ASSUME TpTotal > 0 PROVE SpaceIsBounded'
        BY DEF SpaceIsBounded
    <2> DEFINE v == TpCapped
    <2>1. /\ TpLimit \in Nat /\ TpTotal \in Nat /\ Unleased \in Nat /\ tpReserved \in Nat
          /\ \A s \in TpSets : v[s] \in Nat /\ v[s] <= TpLimit
          /\ tpLeases \in SUBSET TpSets
        BY <1>0, CappedType, ReservedType DEF TpTyped
    <2>2. Unleased = SumFunctionOnSet(v, TpSets \ tpLeases) /\ Unleased' = SumFunctionOnSet(v, TpSets)
        <3>1. TpCapped' = TpCapped
            BY <1>0 DEF TpCapped, TpLimit
        <3>2. TpSets \ tpLeases' = TpSets
            BY <1>0
        <3> QED
            BY <3>1, <3>2 DEF Unleased
    <2> HIDE DEF v
    <2>3. SumFunctionOnSet(v, TpSets) <= SumFunctionOnSet(v, TpSets \ tpLeases) + TpLimit * Cardinality(tpLeases)
        BY <2>1, SumWithout
    <2>4. Unleased' <= Unleased + tpReserved /\ Unleased' \in Nat
        BY <1>0, <2>1, <2>2, <2>3, SumNat
    <2>5. Unleased + tpReserved <= TpTotal + TpLimit * (TpSlots - 1)
        BY DEF PoolAgrees, SpaceIsBounded, Unleased
    <2>6. TpLimit * (TpSlots - 1) \in Nat
        BY <2>1 DEF TpSlots
    <2>7. Unleased' + tpReserved' <= TpTotal + TpLimit * (TpSlots - 1)
        BY <1>0, <2>1, <2>4, <2>5, <2>6
    <2> QED
        BY <2>7 DEF SpaceIsBounded, Unleased, TpLimit
<1> QED
    BY <1>1, <1>2, <1>3 DEF PoolAgrees

LEMMA PoolAfterwards ==
    TpAgrees /\ SumAgrees /\ PoolAgrees /\ TpAgrees' /\ [TpNext]_tpVars => PoolAgrees'
<1> SUFFICES ASSUME TpAgrees, SumAgrees, PoolAgrees, TpAgrees', [TpNext]_tpVars PROVE PoolAgrees'
    OBVIOUS
<1>1. CASE UNCHANGED tpVars
    <2>1. UNCHANGED tpPool /\ \A d \in TpCallers : Keeps(d)
        BY <1>1 DEF tpVars, Keeps, InTileSlot
    <2>2. \A s \in TpSets \ tpLeases : tpDisk'[s] <= tpDisk[s]
        BY <1>1 DEF tpVars, tpFiles, TpAgrees, TpTyped
    <2> QED
        BY <2>1, <2>2, SlotsKeep, PoolStill DEF Keeps
<1>2. ASSUME NEW c \in TpCallers, PoolSpared(c) PROVE PoolAgrees'
    BY <1>2, SparedPool
<1>3. ASSUME NEW c \in TpCallers, GenerateTiles(c) PROVE PoolAgrees'
    BY <1>3, GenerateTilesPool
<1>4. ASSUME NEW c \in TpCallers, AcquireLease(c) PROVE PoolAgrees'
    BY <1>4, AcquirePool
<1>5. ASSUME NEW c \in TpCallers, MeasureLease(c) PROVE PoolAgrees'
    BY <1>5, MeasurePool
<1>6. ASSUME NEW c \in TpCallers, AdmitLease(c) PROVE PoolAgrees'
    BY <1>6, AdmitPool
<1>7. ASSUME NEW c \in TpCallers, ReleaseLease(c) PROVE PoolAgrees'
    BY <1>7, ReleasePool
<1>8. CASE TpCrash
    BY <1>8, CrashPool
<1> QED
    BY <1>1, <1>2, <1>3, <1>4, <1>5, <1>6, <1>7, <1>8 DEF TpNext, PoolSpared

LEMMA PoolAtFirst == TpInit => PoolAgrees
<1> SUFFICES ASSUME TpInit PROVE PoolAgrees
    OBVIOUS
<1>1. /\ Slotted = {} /\ \A c \in TpCallers : MeasuringAgrees(c)
    BY DEF TpInit, Slotted, InTileSlot, MeasuringAgrees, TpOut
<1>2. Cardinality(Slotted) <= TpSlots
    BY <1>1, FS_EmptySet DEF TpSlots
<1>3. SpaceIsBounded
    <2> DEFINE S == TpSets \ tpLeases
               v == TpCapped
    <2>1. TpLimit \in Nat /\ TpTotal \in Nat /\ tpReserved = 0
        BY DEF TpInit, TpLimit
    <2>2. IsFiniteSet(S) /\ \A s \in S : v[s] = 0
        <3>1. IsFiniteSet(S)
            BY FS_Subset
        <3>2. \A s \in S : v[s] = 0
            BY <2>1 DEF TpInit, TpCapped
        <3> QED
            BY <3>1, <3>2
    <2> HIDE DEF S, v
    <2>3. SumFunctionOnSet(v, S) = 0
        BY <2>2, SumZero
    <2> QED
        BY <2>1, <2>3 DEF SpaceIsBounded, TpSlots, S, v
<1> QED
    BY <1>1, <1>2, <1>3 DEF PoolAgrees

\* What finished sets take and leases may still write exceeds the total by at
\* most one job for each other slot, however callers, growing output, failures
\* and crashes interleave with the measuring.
THEOREM PoolStaysBounded == TpSpec => []SpaceIsBounded
<1>1. TpInit => SumAgrees
    BY FS_EmptySet DEF TpInit, SumAgrees, TpLimit
<1>2. TpAgrees /\ SumAgrees /\ PoolAgrees /\ [TpNext]_tpVars => SumAgrees' /\ PoolAgrees'
    BY SumAfterwards, AgreesAfterwards, PoolAfterwards
<1>3. PoolAgrees => SpaceIsBounded
    BY DEF PoolAgrees
<1> QED
    BY <1>1, <1>2, <1>3, PoolAtFirst, AgreesAlways, PTL DEF TpSpec

===============================================================================
