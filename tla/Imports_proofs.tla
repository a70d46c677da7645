---------------------------- MODULE Imports_proofs ----------------------------
(***************************************************************************)
(* Proofs about the scanner of libraries and the importers next to it.     *)
(***************************************************************************)
EXTENDS Imports, SumTheorems, SequenceTheorems, TLAPS

-----------------------------------------------------------------------------
(* Types.                                                                  *)

Last == Cardinality(LsPaths)
Content == LsContents \cup {LsNone}
Edition == [key : Keys, work : LsPaths]
Row == [ed : Nat, sha : Content, stat : Content, hash : BOOLEAN, missing : BOOLEAN]
Library ==
    [kind : {BooksLibrary, AudioLibrary, VideoLibrary, MusicLibrary, GamesLibrary}, folder : [LsPaths -> LsPaths],
     items : SUBSET LsPaths, changes : Int, scans : Int, imports : Int]
Scan ==
    [at : {"idle", "walk", "gone", "mark", "next", "store"}, found : [LsPaths -> Content], todo : SUBSET LsPaths,
     digest : [LsPaths -> Content], taken : SUBSET LsPaths, gone : SUBSET LsPaths, errors : BOOLEAN, quiet : BOOLEAN,
     whole : BOOLEAN]

\* Rows are of editions up to the n-th, and a path without an edition has no row.
RowsTyped(rows, n) ==
    /\ rows \in [LsPaths -> Row]
    /\ \A p \in LsPaths : rows[p].ed \in 0..n /\ (rows[p].ed = 0 => rows[p] = NoRow)

LibTyped == lsLib \in Library /\ (lsLib.items # {} => Kind.keyed) /\ lsDisk \in [LsPaths -> Content]

\* What a transaction reads and writes.
Tx == [rows : [LsPaths -> Row], editions : Seq(Edition), alias : [Keys -> Nat], digest : [LsPaths -> Content],
       work : LsPaths \cup {0}, edition : Nat, refused : BOOLEAN]
TxTyped(tx) ==
    /\ tx \in Tx /\ RowsTyped(tx.rows, Len(tx.editions))
    /\ tx.alias \in [Keys -> 0..Len(tx.editions)]

\* The paths are the numbers from 1 to the last one.
LEMMA PathFacts ==
    /\ Last \in Nat \ {0} /\ LsPaths = 1..Last /\ LsPaths \subseteq Nat /\ IsFiniteSet(LsPaths)
    /\ LsPaths \subseteq Keys /\ \A p \in LsPaths : 0 - p \in Keys /\ OfProvider(0 - p) /\ ~OfProvider(p)
    /\ Keys \subseteq Int
<1>1. IsFiniteSet(LsPaths) /\ LsPaths # {} /\ LsPaths = 1..Last
    BY LsAssumption DEF Last
<1>2. Last \in Nat \ {0}
    BY <1>1, FS_CardinalityType, FS_EmptySet DEF Last
<1> QED
    BY <1>1, <1>2 DEF Keys, OfProvider

LEMMA MinIn == ASSUME NEW paths \in SUBSET LsPaths, paths # {} PROVE Min(paths) \in paths /\ \A p \in paths : Min(paths) <= p
<1>1. PICK m \in paths : \A p \in paths : m <= p
    BY LeastNatural, PathFacts
<1> QED
    BY <1>1 DEF Min

\* The least of a few paths, the others, and the empty row.
LEMMA NoRowTyped == NoRow \in Row /\ NoRow.ed = 0 /\ ~NoRow.missing
    BY DEF NoRow, Row, Content

\* A kind of library is one of five records, and gives each path a source and a folder.
LEMMA KindFacts ==
    ASSUME LibTyped
    PROVE  /\ Kind.whole \in BOOLEAN /\ Kind.keyed \in BOOLEAN /\ Kind.grouped \in BOOLEAN /\ Kind.aborts \in BOOLEAN
           /\ Kind.whole => Kind.grouped /\ Kind.keyed
           /\ \A p \in LsPaths : Folder(p) \in LsPaths /\ SourceKey(p) \in LsPaths /\ Title(p) \in LsPaths
           /\ \A p \in LsPaths : Kind.whole => SourceKey(p) = Folder(p)
<1>1. Kind \in {BooksLibrary, AudioLibrary, VideoLibrary, MusicLibrary, GamesLibrary}
    BY DEF LibTyped, Library, Kind
<1>2. lsLib.folder \in [LsPaths -> LsPaths]
    BY DEF LibTyped, Library
<1>3. /\ Kind.whole \in BOOLEAN /\ Kind.keyed \in BOOLEAN /\ Kind.grouped \in BOOLEAN /\ Kind.aborts \in BOOLEAN
      /\ Kind.whole => Kind.grouped /\ Kind.keyed
    <2> DEFINE k == Kind
    <2>1. k \in {BooksLibrary, AudioLibrary, VideoLibrary, MusicLibrary, GamesLibrary}
        BY <1>1
    <2> HIDE DEF k
    <2>2. /\ k.whole = (k = AudioLibrary) /\ k.keyed = (k # GamesLibrary) /\ k.aborts = (k # AudioLibrary)
          /\ k.grouped = (k \notin {BooksLibrary, GamesLibrary})
        <3>1. CASE k = BooksLibrary BY <3>1 DEF BooksLibrary, AudioLibrary, GamesLibrary
        <3>2. CASE k = AudioLibrary BY <3>2 DEF BooksLibrary, AudioLibrary, GamesLibrary
        <3>3. CASE k = VideoLibrary BY <3>3 DEF BooksLibrary, AudioLibrary, VideoLibrary, GamesLibrary
        <3>4. CASE k = MusicLibrary BY <3>4 DEF BooksLibrary, AudioLibrary, MusicLibrary, GamesLibrary
        <3>5. CASE k = GamesLibrary BY <3>5 DEF BooksLibrary, AudioLibrary, GamesLibrary
        <3> QED BY <2>1, <3>1, <3>2, <3>3, <3>4, <3>5
    <2>3. AudioLibrary \notin {BooksLibrary, GamesLibrary}
        BY DEF BooksLibrary, AudioLibrary, GamesLibrary
    <2>4. /\ k.whole \in BOOLEAN /\ k.keyed \in BOOLEAN /\ k.grouped \in BOOLEAN /\ k.aborts \in BOOLEAN
          /\ k.whole => k.grouped /\ k.keyed
        BY <2>2, <2>3
    <2> QED
        BY <2>4 DEF k
<1> QED
    BY <1>2, <1>3 DEF Folder, SourceKey, Title

\* A set that is neither empty nor has two members has the member that is chosen.
LEMMA TheOnlyOne ==
    ASSUME NEW S, IsFiniteSet(S), S # {}, ~(Cardinality(S) > 1)
    PROVE  S = {CHOOSE e \in S : TRUE}
<1>1. Cardinality(S) \in Nat /\ Cardinality(S) # 0
    BY FS_CardinalityType, FS_EmptySet
<1>2. Cardinality(S) = 1
    BY <1>1
<1>3. PICK x : S = {x}
    BY <1>2, FS_Singleton
<1> QED
    BY <1>3

\* Known editions are editions of rows, and so are those of files that are gone.
LEMMA KnownFacts ==
    ASSUME NEW tx, TxTyped(tx), NEW paths \in SUBSET LsPaths
    PROVE  /\ KnownIn(tx, paths) \subseteq 1..Len(tx.editions) /\ IsFiniteSet(KnownIn(tx, paths))
           /\ MovedIn(tx, paths) \subseteq 1..Len(tx.editions) /\ IsFiniteSet(MovedIn(tx, paths))
           /\ \A p \in paths : tx.rows[p].ed = 0 \/ tx.rows[p].ed \in KnownIn(tx, paths)
<1>1. Len(tx.editions) \in Nat
    BY DEF TxTyped, Tx
<1>2. \A p \in LsPaths : tx.rows[p].ed \in 0..Len(tx.editions) /\ (tx.rows[p].ed = 0 => ~tx.rows[p].missing)
    BY NoRowTyped DEF TxTyped, RowsTyped
<1>3. KnownIn(tx, paths) \subseteq 1..Len(tx.editions)
    BY <1>1, <1>2 DEF KnownIn
<1>4. MovedIn(tx, paths) \subseteq 1..Len(tx.editions)
    BY <1>1, <1>2 DEF MovedIn
<1>5. IsFiniteSet(1..Len(tx.editions))
    BY <1>1, FS_Interval
<1>6. IsFiniteSet(KnownIn(tx, paths)) /\ IsFiniteSet(MovedIn(tx, paths))
    BY <1>3, <1>4, <1>5, FS_Subset
<1>7. \A p \in paths : tx.rows[p].ed = 0 \/ tx.rows[p].ed \in KnownIn(tx, paths)
    BY DEF KnownIn
<1> QED
    BY <1>3, <1>4, <1>6, <1>7

-----------------------------------------------------------------------------
(* What the operators of a transaction do.                                 *)

LEMMA ConflictIsLarge == IsFiniteSet(LsPaths \cup {0}) /\ Cardinality(LsPaths \cup {0}) > 1
<1>1. 0 \notin LsPaths
    BY PathFacts
<1>2. Cardinality(LsPaths \cup {0}) = Last + 1 /\ IsFiniteSet(LsPaths \cup {0})
    BY <1>1, PathFacts, FS_AddElement DEF Last
<1> QED
    BY <1>2, PathFacts

\* The rows of an edition that a source may take over are as many as the files, and all of them when it has another key.
Takes(tx, key, paths, ed) ==
    tx.editions[ed].key # key =>
        /\ Cardinality(RowsOf(tx.rows, ed)) = Cardinality(paths)
        /\ \A p \in paths : tx.rows[p].ed = ed

\* A source is a conflict, or the edition of its alias, of its files, or of the files that have gone.
LEMMA BySourceFinds ==
    ASSUME NEW tx, TxTyped(tx), NEW key \in Keys, NEW paths \in SUBSET LsPaths
    PROVE  /\ IsFiniteSet(BySource(tx, key, paths))
           /\ \/ Cardinality(BySource(tx, key, paths)) > 1
              \/ /\ tx.alias[key] # 0 /\ BySource(tx, key, paths) = {tx.alias[key]}
                 /\ OfProvider(key) => RowsOf(tx.rows, tx.alias[key]) = paths
              \/ /\ tx.alias[key] = 0 /\ KnownIn(tx, paths) # {} /\ BySource(tx, key, paths) = KnownIn(tx, paths)
                 /\ \A ed \in KnownIn(tx, paths) : Takes(tx, key, paths, ed)
              \/ /\ tx.alias[key] = 0 /\ KnownIn(tx, paths) = {} /\ BySource(tx, key, paths) = MovedIn(tx, paths)
<1> DEFINE known == KnownIn(tx, paths)
           moved == MovedIn(tx, paths)
           C == LsPaths \cup {0}
           eds == BySource(tx, key, paths)
           by == {tx.alias[key]}
           Proven(ed) == \A p \in paths : tx.rows[p].ed = ed /\ tx.rows[p].sha \in {tx.digest[p], LsNone}
           Fits(ed) == /\ Cardinality(RowsOf(tx.rows, ed)) <= Cardinality(paths)
                       /\ tx.editions[ed].key # key => Cardinality(RowsOf(tx.rows, ed)) = Cardinality(paths)
           allKnown == \A ed \in known : Fits(ed) /\ (tx.editions[ed].key # key => Proven(ed))
           allMoved == \A ed \in moved : Fits(ed)
           proven == OfProvider(key) => RowsOf(tx.rows, tx.alias[key]) = paths
<1>1. IsFiniteSet(known) /\ IsFiniteSet(moved) /\ IsFiniteSet(by) /\ Cardinality(by) = 1 /\ IsFiniteSet(C) /\ Cardinality(C) > 1
    BY KnownFacts, FS_Singleton, ConflictIsLarge
<1>2. eds = IF tx.alias[key] # 0 THEN (IF Cardinality(by) = 1 /\ ~proven THEN C ELSE by)
            ELSE IF known # {} THEN (IF Cardinality(known) = 1 /\ ~allKnown THEN C ELSE known)
            ELSE (IF Cardinality(moved) = 1 /\ ~allMoved THEN C ELSE moved)
    BY DEF BySource
<1>3. allKnown => \A ed \in known : Takes(tx, key, paths, ed)
    BY DEF Takes
<1>4. Cardinality(known) \in Nat /\ (known # {} => Cardinality(known) # 0)
    BY <1>1, FS_CardinalityType, FS_EmptySet
<1> HIDE DEF known, moved, C, eds, by, allKnown, allMoved, proven
<1>5. /\ IsFiniteSet(eds)
      /\ \/ Cardinality(eds) > 1
         \/ tx.alias[key] # 0 /\ eds = by /\ proven
         \/ tx.alias[key] = 0 /\ known # {} /\ eds = known /\ \A ed \in known : Takes(tx, key, paths, ed)
         \/ tx.alias[key] = 0 /\ known = {} /\ eds = moved
    <2>1. CASE tx.alias[key] # 0
        BY <1>1, <1>2, <2>1
    <2>2. CASE tx.alias[key] = 0 /\ known # {}
        BY <1>1, <1>2, <1>3, <1>4, <2>2
    <2>3. CASE tx.alias[key] = 0 /\ known = {}
        BY <1>1, <1>2, <2>3
    <2> QED
        BY <2>1, <2>2, <2>3
<1> QED
    BY <1>5 DEF known, moved, eds, by, proven

\* An upsert of an edition is refused, or finds or adds one: it changes no row, no other alias and no provider's key.
Placed(tx, t, key, paths) ==
    /\ ~tx.refused /\ t.edition \in 1..Len(t.editions)
    /\ \/ t.edition = Len(tx.editions) + 1 /\ Len(t.editions) = Len(tx.editions) + 1
       \/ t.edition \in 1..Len(tx.editions) /\ Len(t.editions) = Len(tx.editions)
    /\ \A e \in 1..Len(tx.editions) :
        \/ t.editions[e] = tx.editions[e]
        \/ e = t.edition /\ Kind.keyed /\ ~OfProvider(tx.editions[e].key) /\ ~OfProvider(key) /\ t.editions[e].key = key
    /\ t.editions[t.edition].key = key \/ t.edition \in 1..Len(tx.editions)
    /\ \A k \in Keys : k # key \/ tx.alias[k] # 0 => t.alias[k] = tx.alias[k]
    /\ Kind.keyed => t.alias[key] = t.edition
    /\ ~Kind.keyed => t.alias = tx.alias
    /\ ~Kind.keyed \/ tx.alias[key] = 0 => \A p \in paths : tx.rows[p].ed \in {0, t.edition}
    /\ Kind.keyed =>
        \/ tx.alias[key] # 0 /\ (OfProvider(key) => RowsOf(tx.rows, t.edition) = paths)
        \/ tx.alias[key] = 0 /\ KnownIn(tx, paths) = {t.edition} /\ Takes(tx, key, paths, t.edition)
        \/ tx.alias[key] = 0 /\ KnownIn(tx, paths) = {} /\ MovedIn(tx, paths) = {t.edition}
        \/ tx.alias[key] = 0 /\ KnownIn(tx, paths) = {} /\ MovedIn(tx, paths) = {} /\ t.edition = Len(tx.editions) + 1

LEMMA UpsertEditionPlaces ==
    ASSUME LibTyped, NEW tx, TxTyped(tx), tx.work \in LsPaths, NEW key \in Keys, NEW paths \in SUBSET LsPaths,
           NEW t, t = UpsertEdition(tx, key, paths)
    PROVE  /\ TxTyped(t) /\ t.rows = tx.rows /\ t.digest = tx.digest /\ t.work = tx.work
           /\ t.refused \/ Placed(tx, t, key, paths)
<1> DEFINE eds == IF Kind.keyed THEN BySource(tx, key, paths) ELSE ByGame(tx, paths)
           n == Len(tx.editions)
           ed == IF eds = {} THEN n + 1 ELSE CHOOSE e \in eds : TRUE
           rekeyed == Kind.keyed /\ ~OfProvider(tx.editions[ed].key) /\ ~OfProvider(key)
           added == Append(tx.editions, [key |-> key, work |-> tx.work])
           editions == IF eds = {} THEN added
                       ELSE IF rekeyed THEN [tx.editions EXCEPT ![ed] = [key |-> key, work |-> tx.editions[ed].work]]
                       ELSE tx.editions
           one == IF Kind.keyed /\ tx.alias[key] = 0 THEN ed ELSE tx.alias[key]
           alias == [tx.alias EXCEPT ![key] = one]
<1>1. n \in Nat /\ tx \in Tx /\ RowsTyped(tx.rows, n) /\ tx.alias \in [Keys -> 0..n] /\ tx.editions \in Seq(Edition)
    BY DEF TxTyped, Tx
<1>2. /\ IsFiniteSet(eds)
      /\ \/ Cardinality(eds) > 1
         \/ /\ eds \subseteq 1..n
            /\ ~Kind.keyed \/ tx.alias[key] = 0 => KnownIn(tx, paths) \subseteq eds
            /\ Kind.keyed =>
                \/ tx.alias[key] # 0 /\ eds = {tx.alias[key]} /\ (OfProvider(key) => RowsOf(tx.rows, tx.alias[key]) = paths)
                \/ /\ tx.alias[key] = 0 /\ KnownIn(tx, paths) # {} /\ eds = KnownIn(tx, paths)
                   /\ \A e \in KnownIn(tx, paths) : Takes(tx, key, paths, e)
                \/ tx.alias[key] = 0 /\ KnownIn(tx, paths) = {} /\ eds = MovedIn(tx, paths)
    <2>1. CASE Kind.keyed
        <3>1. tx.alias[key] # 0 => {tx.alias[key]} \subseteq 1..n
            BY <1>1
        <3> QED
            BY <2>1, <3>1, BySourceFinds, KnownFacts
    <2>2. CASE ~Kind.keyed
        <3>1. eds = ByGame(tx, paths)
            BY <2>2
        <3>2. ByGame(tx, paths) \subseteq 1..n /\ KnownIn(tx, paths) \subseteq ByGame(tx, paths)
            BY <1>1, KnownFacts DEF ByGame
        <3>3. IsFiniteSet(ByGame(tx, paths))
            <4> DEFINE g == ByGame(tx, paths)
            <4>1. IsFiniteSet(1..n)
                BY <1>1, FS_Interval
            <4>2. g \in SUBSET (1..n)
                BY <3>2
            <4> HIDE DEF g, n
            <4>3. IsFiniteSet(g)
                BY <4>1, <4>2, FS_Subset
            <4> QED
                BY <4>3 DEF g
        <3> QED
            BY <2>2, <3>1, <3>2, <3>3
    <2> QED
        BY <2>1, <2>2
<1>3. t = IF tx.refused \/ Cardinality(eds) > 1 THEN [tx EXCEPT !.refused = TRUE]
          ELSE [tx EXCEPT !.editions = editions, !.alias = alias, !.edition = ed]
    <2>1. tx.editions \in Seq(Edition) /\ tx.alias \in [Keys -> 0..n]
        BY <1>1
    <2>2. eds # {} /\ ~(Cardinality(eds) > 1) => ed \in 1..n
        BY <1>2
    <2>3. ~(Cardinality(eds) > 1) /\ eds # {} => [tx.editions EXCEPT ![ed].key = key] = [tx.editions EXCEPT ![ed] = [key |-> key, work |-> tx.editions[ed].work]]
        <3>1. SUFFICES ASSUME ~(Cardinality(eds) > 1), eds # {}
                       PROVE  [tx.editions EXCEPT ![ed].key = key] = [tx.editions EXCEPT ![ed] = [key |-> key, work |-> tx.editions[ed].work]]
            OBVIOUS
        <3>2. tx.editions[ed] \in Edition
            BY <2>1, <2>2, <3>1
        <3>3. [tx.editions[ed] EXCEPT !.key = key] = [key |-> key, work |-> tx.editions[ed].work]
            <4> DEFINE x == tx.editions[ed]
            <4>1. x \in [key : Keys, work : LsPaths]
                BY <3>2 DEF Edition
            <4> HIDE DEF x
            <4>2. [x EXCEPT !.key = key] = [key |-> key, work |-> x.work]
                BY <4>1
            <4> QED
                BY <4>2 DEF x
        <3> QED
            BY <3>3
    <2> QED
        BY <2>3 DEF UpsertEdition
<1> HIDE DEF eds
<1>4. CASE tx.refused \/ Cardinality(eds) > 1
    <2>1. t = [tx EXCEPT !.refused = TRUE]
        BY <1>3, <1>4
    <2> QED
        BY <1>1, <2>1 DEF TxTyped, Tx
<1>5. CASE ~tx.refused /\ ~(Cardinality(eds) > 1)
    <2>1. /\ eds = {} => ed = n + 1
          /\ eds # {} => ed \in 1..n /\ eds = {ed}
        BY <1>2, <1>5, TheOnlyOne
    <2>2. /\ editions \in Seq(Edition)
          /\ eds = {} => Len(editions) = n + 1 /\ editions[n + 1].key = key /\ \A e \in 1..n : editions[e] = tx.editions[e]
          /\ eds # {} => Len(editions) = n
          /\ eds # {} => \A e \in 1..n :
                \/ editions[e] = tx.editions[e]
                \/ e = ed /\ Kind.keyed /\ ~OfProvider(tx.editions[e].key) /\ ~OfProvider(key) /\ editions[e].key = key
        <3>1. CASE eds = {}
            <4>1. [key |-> key, work |-> tx.work] \in Edition
                BY DEF Edition
            <4>2. editions = added
                BY <3>1
            <4> QED
                BY <1>1, <3>1, <4>1, <4>2
        <3>2. CASE eds # {} /\ rekeyed
            <4> DEFINE x == [key |-> key, work |-> tx.editions[ed].work]
            <4>1. ed \in 1..Len(tx.editions) /\ tx.editions[ed] \in Edition
                BY <1>1, <2>1, <3>2
            <4>2. x \in Edition /\ x.key = key
                BY <4>1 DEF Edition
            <4>3. editions = [tx.editions EXCEPT ![ed] = x]
                BY <3>2
            <4> HIDE DEF x, ed
            <4>4. /\ [tx.editions EXCEPT ![ed] = x] \in Seq(Edition)
                  /\ Len([tx.editions EXCEPT ![ed] = x]) = Len(tx.editions)
                  /\ \A j \in 1..Len(tx.editions) : [tx.editions EXCEPT ![ed] = x][j] = IF j = ed THEN x ELSE tx.editions[j]
                BY <1>1, <4>1, <4>2, ExceptSeq
            <4>5. Kind.keyed /\ ~OfProvider(tx.editions[ed].key) /\ ~OfProvider(key)
                BY <3>2
            <4> HIDE DEF editions, rekeyed
            <4>6. Len(editions) = n /\ editions \in Seq(Edition)
                BY <4>3, <4>4
            <4>7. ASSUME NEW e \in 1..n
                  PROVE  \/ editions[e] = tx.editions[e]
                         \/ e = ed /\ Kind.keyed /\ ~OfProvider(tx.editions[e].key) /\ ~OfProvider(key) /\ editions[e].key = key
                <5>1. CASE e = ed
                    BY <4>2, <4>3, <4>4, <4>5, <5>1
                <5>2. CASE e # ed
                    BY <4>3, <4>4, <5>2
                <5> QED
                    BY <5>1, <5>2
            <4> QED
                BY <3>2, <4>6, <4>7
        <3>3. CASE eds # {} /\ ~rekeyed
            <4>1. editions = tx.editions
                BY <3>3
            <4> QED
                BY <1>1, <3>3, <4>1
        <3> QED
            BY <3>1, <3>2, <3>3
    <2>3. t = [tx EXCEPT !.editions = editions, !.alias = alias, !.edition = ed]
        BY <1>3, <1>5
    <2>4. /\ ed \in 1..Len(editions) /\ Len(editions) \in Nat /\ Len(editions) >= n
        BY <1>1, <2>1, <2>2
    <2> HIDE DEF editions, ed
    <2>5. one \in 0..Len(editions)
        BY <1>1, <2>4
    <2>6. /\ alias \in [Keys -> 0..Len(editions)]
          /\ alias[key] = one /\ \A k \in Keys : k # key => alias[k] = tx.alias[k]
        <3> HIDE DEF one
        <3> QED
            BY <1>1, <2>4, <2>5
    <2>7. ~Kind.keyed => alias = tx.alias
        <3>1. SUFFICES ASSUME ~Kind.keyed PROVE alias = tx.alias
            OBVIOUS
        <3>2. one = tx.alias[key]
            BY <3>1
        <3> QED
            BY <1>1, <3>2
    <2> HIDE DEF alias
    <2>8. /\ t.rows = tx.rows /\ t.digest = tx.digest /\ t.work = tx.work /\ t.editions = editions /\ t.alias = alias
          /\ t.edition = ed /\ t.refused = tx.refused
          /\ t \in Tx
        <3>1. alias \in [Keys -> Nat] /\ ed \in Nat
            BY <2>4, <2>6
        <3>2. tx \in [rows : [LsPaths -> Row], editions : Seq(Edition), alias : [Keys -> Nat], digest : [LsPaths -> Content],
                      work : LsPaths \cup {0}, edition : Nat, refused : BOOLEAN]
            BY <1>1 DEF Tx
        <3> QED
            BY <2>2, <2>3, <3>1, <3>2 DEF Tx
    <2>9. RowsTyped(t.rows, Len(t.editions))
        BY <1>1, <2>4, <2>8 DEF RowsTyped
    <2>10. TxTyped(t)
        BY <2>6, <2>8, <2>9 DEF TxTyped
    <2>11. Kind.keyed => alias[key] = ed /\ (tx.alias[key] # 0 => alias[key] = tx.alias[key])
        <3>1. tx.alias[key] # 0 /\ Kind.keyed => ed = tx.alias[key]
            BY <1>2, <1>5, <2>1
        <3> QED
            BY <2>6, <3>1
    <2>12. \A k \in Keys : k # key \/ tx.alias[k] # 0 => alias[k] = tx.alias[k]
        BY <2>6, <2>7, <2>11
    <2>13. ~Kind.keyed \/ tx.alias[key] = 0 => \A p \in paths : tx.rows[p].ed \in {0, ed}
        <3>1. SUFFICES ASSUME ~Kind.keyed \/ tx.alias[key] = 0, NEW p \in paths PROVE tx.rows[p].ed \in {0, ed}
            OBVIOUS
        <3>2. KnownIn(tx, paths) \subseteq eds
            BY <1>2, <1>5, <3>1
        <3>3. tx.rows[p].ed = 0 \/ tx.rows[p].ed \in KnownIn(tx, paths)
            BY KnownFacts
        <3> QED
            BY <2>1, <3>2, <3>3
    <2>14. Kind.keyed =>
            \/ tx.alias[key] # 0 /\ (OfProvider(key) => RowsOf(tx.rows, ed) = paths)
            \/ tx.alias[key] = 0 /\ KnownIn(tx, paths) = {ed} /\ Takes(tx, key, paths, ed)
            \/ tx.alias[key] = 0 /\ KnownIn(tx, paths) = {} /\ MovedIn(tx, paths) = {ed}
            \/ tx.alias[key] = 0 /\ KnownIn(tx, paths) = {} /\ MovedIn(tx, paths) = {} /\ ed = n + 1
        BY <1>2, <1>5, <2>1
    <2>15. Placed(tx, t, key, paths)
        BY <1>1, <1>5, <2>1, <2>2, <2>4, <2>8, <2>11, <2>12, <2>7, <2>13, <2>14 DEF Placed
    <2> QED
        BY <2>8, <2>10, <2>15
<1> QED
    BY <1>4, <1>5

\* The alias of an edition's own key is the edition.
Aliased(editions, alias) == Kind.keyed => \A e \in 1..Len(editions) : alias[editions[e].key] = e

LEMMA PlacedKeepsAliased ==
    ASSUME NEW tx, TxTyped(tx), NEW t, TxTyped(t), NEW key \in Keys, NEW paths, Placed(tx, t, key, paths),
           Aliased(tx.editions, tx.alias)
    PROVE  Aliased(t.editions, t.alias)
<1>1. SUFFICES ASSUME Kind.keyed, NEW e \in 1..Len(t.editions) PROVE t.alias[t.editions[e].key] = e
    BY DEF Aliased
<1>2. Len(tx.editions) \in Nat /\ Len(t.editions) \in Nat /\ tx.editions \in Seq(Edition)
    BY DEF TxTyped, Tx
<1>3. t.alias[key] = t.edition
    BY <1>1 DEF Placed
<1>4. CASE e \in 1..Len(tx.editions)
    <2>1. tx.editions[e].key \in Keys /\ tx.alias[tx.editions[e].key] = e /\ e # 0
        <3>1. tx.editions[e] \in Edition
            BY <1>2, <1>4
        <3> QED
            BY <1>1, <1>2, <1>4, <3>1 DEF Aliased, Edition
    <2>2. t.alias[tx.editions[e].key] = e
        BY <2>1 DEF Placed
    <2>3. t.editions[e] = tx.editions[e] \/ (e = t.edition /\ t.editions[e].key = key)
        BY <1>4 DEF Placed
    <2> QED
        BY <1>3, <2>2, <2>3
<1>5. CASE e \notin 1..Len(tx.editions)
    <2>1. e = Len(tx.editions) + 1 /\ e = t.edition /\ t.edition \notin 1..Len(tx.editions)
        BY <1>1, <1>2, <1>5 DEF Placed
    <2>2. t.editions[e].key = key
        BY <2>1 DEF Placed
    <2> QED
        BY <1>3, <2>1, <2>2
<1> QED
    BY <1>4, <1>5
\* A row is stored under the edition of the transaction; the only other row that may go is one of that edition whose file
\* has gone, with the content of the one that is stored.
Filed(tx, t, p) ==
    /\ t.rows[p].ed = tx.edition /\ t.rows[p].sha = tx.digest[p] /\ ~t.rows[p].missing
    /\ \A q \in LsPaths : q # p =>
        \/ t.rows[q] = tx.rows[q]
        \/ /\ t.rows[q] = NoRow /\ tx.rows[q].ed = tx.edition /\ tx.rows[q].missing /\ lsDisk[q] = LsNone
           /\ tx.rows[q].sha = tx.digest[p]

\* The rest of a transaction, which storing a file leaves alone.
SameRest(tx, t) ==
    /\ t.editions = tx.editions /\ t.alias = tx.alias /\ t.digest = tx.digest /\ t.work = tx.work /\ t.edition = tx.edition
    /\ t.refused = tx.refused

LEMMA UpsertFileFiles ==
    ASSUME LibTyped, NEW tx, TxTyped(tx), NEW p \in LsPaths, NEW stat \in Content, NEW hash \in BOOLEAN,
           tx.refused \/ tx.edition \in 1..Len(tx.editions), NEW t, t = UpsertFile(tx, p, stat, hash)
    PROVE  /\ TxTyped(t) /\ SameRest(tx, t)
           /\ tx.refused => t = tx
           /\ ~tx.refused => Filed(tx, t, p)
           /\ ~tx.refused /\ ~hash => \A q \in LsPaths : q # p => t.rows[q] = tx.rows[q]
<1> DEFINE n == Len(tx.editions)
           row == [ed |-> tx.edition, sha |-> tx.digest[p], stat |-> stat, hash |-> hash, missing |-> FALSE]
           gone == IF hash THEN Relinkable(tx, p) ELSE {}
           rows == [q \in LsPaths |-> IF q = p THEN row
                                      ELSE IF tx.rows[p].ed = 0 /\ gone = {q} THEN NoRow ELSE tx.rows[q]]
<1>1. n \in Nat /\ tx \in Tx /\ RowsTyped(tx.rows, n) /\ tx.alias \in [Keys -> 0..n]
    BY DEF TxTyped, Tx
<1>2. t = IF tx.refused THEN tx ELSE [tx EXCEPT !.rows = rows]
    BY DEF UpsertFile
<1>3. CASE tx.refused
    BY <1>2, <1>3 DEF SameRest
<1>4. CASE ~tx.refused
    <2>1. row \in Row
        BY <1>1, <1>4 DEF Row, Tx
    <2>2. \A q \in gone : tx.rows[q].ed = tx.edition /\ tx.rows[q].missing /\ lsDisk[q] = LsNone /\ tx.rows[q].sha = tx.digest[p]
        BY DEF Relinkable
    <2>3. /\ rows \in [LsPaths -> Row] /\ rows[p] = row
          /\ \A q \in LsPaths : q # p =>
                \/ rows[q] = tx.rows[q]
                \/ /\ rows[q] = NoRow /\ tx.rows[q].ed = tx.edition /\ tx.rows[q].missing /\ lsDisk[q] = LsNone
                   /\ tx.rows[q].sha = tx.digest[p]
          /\ ~hash => \A q \in LsPaths : q # p => rows[q] = tx.rows[q]
        <3>1. NoRow \in Row
            BY NoRowTyped
        <3>2. \A q \in LsPaths : tx.rows[q] \in Row
            BY <1>1 DEF RowsTyped
        <3> HIDE DEF row, gone
        <3>3. rows \in [LsPaths -> Row] /\ rows[p] = row
            BY <2>1, <3>1, <3>2
        <3>4. \A q \in LsPaths : q # p => rows[q] = tx.rows[q] \/ (rows[q] = NoRow /\ q \in gone)
            OBVIOUS
        <3>5. ~hash => gone = {}
            BY DEF gone
        <3> QED
            BY <2>2, <3>3, <3>4, <3>5
    <2>4. row.ed = tx.edition /\ row.sha = tx.digest[p] /\ ~row.missing /\ tx.edition \in 1..n
        BY <1>4
    <2>5. t = [tx EXCEPT !.rows = rows]
        BY <1>2, <1>4
    <2> HIDE DEF rows, row
    <2>6. t \in Tx /\ t.rows = rows /\ SameRest(tx, t)
        <3>1. tx \in [rows : [LsPaths -> Row], editions : Seq(Edition), alias : [Keys -> Nat], digest : [LsPaths -> Content],
                      work : LsPaths \cup {0}, edition : Nat, refused : BOOLEAN]
            BY <1>1 DEF Tx
        <3> QED
            BY <2>3, <2>5, <3>1 DEF Tx, SameRest
    <2>7. RowsTyped(t.rows, Len(t.editions))
        <3>1. \A q \in LsPaths : rows[q].ed \in 0..n /\ (rows[q].ed = 0 => rows[q] = NoRow)
            <4>1. TAKE q \in LsPaths
            <4>2. CASE q = p
                BY <2>3, <2>4, <4>2
            <4>3. CASE q # p
                BY <1>1, <2>3, <4>3, NoRowTyped DEF RowsTyped
            <4> QED
                BY <4>2, <4>3
        <3> QED
            BY <2>3, <2>6, <3>1 DEF RowsTyped, SameRest
    <2>8. TxTyped(t)
        BY <1>1, <2>6, <2>7 DEF TxTyped, SameRest
    <2>9. Filed(tx, t, p)
        BY <2>3, <2>4, <2>6 DEF Filed
    <2> QED
        BY <1>4, <2>3, <2>6, <2>8, <2>9
<1> QED
    BY <1>3, <1>4

\* An upsert of an edition in the work of the transaction, which is the title's or that of known editions.
LEMMA InWorkTyped ==
    ASSUME NEW tx, TxTyped(tx), NEW works \in SUBSET LsPaths, NEW title \in LsPaths, NEW t, t = InWork(tx, works, title)
    PROVE  /\ TxTyped(t) /\ t.work \in LsPaths /\ t.rows = tx.rows /\ t.editions = tx.editions /\ t.alias = tx.alias
           /\ t.digest = tx.digest /\ (~t.refused => ~tx.refused)
<1> DEFINE w == IF works = {} THEN title ELSE Min(works)
           r == tx.refused \/ Cardinality(works) > 1
<1>1. w \in LsPaths
    BY MinIn
<1>2. r \in BOOLEAN
    BY DEF TxTyped, Tx
<1>3. t = [tx EXCEPT !.refused = r, !.work = w]
    BY DEF InWork
<1>4. ~r => ~tx.refused
    OBVIOUS
<1> HIDE DEF w, r
<1>5. tx \in [rows : [LsPaths -> Row], editions : Seq(Edition), alias : [Keys -> Nat], digest : [LsPaths -> Content],
              work : LsPaths \cup {0}, edition : Nat, refused : BOOLEAN]
    BY DEF TxTyped, Tx
<1>6. /\ t \in Tx /\ t.work = w /\ t.rows = tx.rows /\ t.editions = tx.editions /\ t.alias = tx.alias
      /\ t.digest = tx.digest /\ t.refused = r
    BY <1>1, <1>2, <1>3, <1>5 DEF Tx
<1> QED
    BY <1>1, <1>4, <1>6 DEF TxTyped

\* The works of editions are works.
LEMMA WorksTyped ==
    ASSUME NEW tx, TxTyped(tx), NEW paths \in SUBSET LsPaths
    PROVE  KnownWorks(tx, paths) \subseteq LsPaths /\ SourceWorks(tx, paths) \subseteq LsPaths
<1>1. \A e \in 1..Len(tx.editions) : tx.editions[e].work \in LsPaths
    <2>1. tx.editions \in Seq(Edition)
        BY DEF TxTyped, Tx
    <2>2. \A e \in 1..Len(tx.editions) : tx.editions[e] \in Edition
        BY <2>1
    <2> QED
        BY <2>2 DEF Edition
<1>2. KnownWorks(tx, paths) \subseteq LsPaths
    BY <1>1, KnownFacts DEF KnownWorks
<1> QED
    BY <1>1, <1>2, KnownFacts DEF SourceWorks

-----------------------------------------------------------------------------
(* The transaction of a folder.                                            *)

\* An edition is at home where a source that is its own has a file of it.
HasHome(rows, alias, e) == \E q \in LsPaths : rows[q].ed = e /\ (Kind.keyed => alias[SourceKey(q)] = e)
Homes(rows, editions, alias) == \A e \in 1..Len(editions) : OfProvider(editions[e].key) \/ HasHome(rows, alias, e)

\* A row that is stored, or one that was there before unless its file has gone.
IsStored(row, p) == row.ed # 0 /\ ~row.missing /\ row.sha = lsScan.digest[p]
IsKept(row, p) == row = lsRows[p] \/ (row = NoRow /\ lsRows[p].missing /\ lsDisk[p] = LsNone)

\* A scan adds no edition of a provider.
NoneOfProviders(editions) ==
    \A e \in 1..Len(editions) : OfProvider(editions[e].key) => e \in 1..Len(lsEditions) /\ OfProvider(lsEditions[e].key)

\* What holds of the transaction when the files up to p are stored.
StoredUpTo(tx, p) ==
    /\ TxTyped(tx) /\ tx.work \in LsPaths /\ tx.digest = lsScan.digest
    /\ ~tx.refused =>
        /\ Len(lsEditions) <= Len(tx.editions)
        /\ Homes(tx.rows, tx.editions, tx.alias) /\ Aliased(tx.editions, tx.alias)
        /\ NoneOfProviders(tx.editions)
        /\ Kind.whole /\ (\E q \in lsScan.taken : q <= p) =>
            tx.edition \in 1..Len(tx.editions) /\ \A q \in lsScan.taken : tx.alias[SourceKey(q)] = tx.edition
        /\ \A q \in LsPaths : IF q \in lsScan.taken /\ q <= p THEN IsStored(tx.rows[q], q) ELSE IsKept(tx.rows[q], q)

\* What the rows, editions and aliases are between transactions.
Shelved ==
    /\ TxTyped(Opened([p \in LsPaths |-> LsNone]))
    /\ Homes(lsRows, lsEditions, lsAlias) /\ Aliased(lsEditions, lsAlias)

LEMMA OpenedTyped ==
    ASSUME Shelved, NEW digest \in [LsPaths -> Content]
    PROVE  /\ TxTyped(Opened(digest)) /\ ~Opened(digest).refused /\ Opened(digest).rows = lsRows /\ Opened(digest).alias = lsAlias
           /\ Opened(digest).editions = lsEditions /\ Opened(digest).digest = digest
    BY DEF Shelved, TxTyped, Tx, Opened

\* A scan stores what it has taken, of one source when the folder is one edition.
ReadyToStore ==
    /\ LibTyped /\ Shelved
    /\ lsScan.taken \in SUBSET LsPaths /\ lsScan.taken # {}
    /\ lsScan.found \in [LsPaths -> Content] /\ lsScan.digest \in [LsPaths -> Content]
    /\ Kind.whole => \A p, q \in lsScan.taken : SourceKey(p) = SourceKey(q)

LEMMA StoreFileStores ==
    ASSUME ReadyToStore, NEW p \in lsScan.taken, NEW tx, StoredUpTo(tx, p - 1), NEW t, t = StoreFile(tx, p)
    PROVE  StoredUpTo(t, p)
<1> DEFINE key == SourceKey(p)
           unit == Unit(p)
           mid == IF p = Min(unit) THEN UpsertEdition(tx, key, unit) ELSE tx
<1>1. /\ LibTyped /\ p \in LsPaths /\ key \in Keys /\ ~OfProvider(key) /\ unit \in SUBSET LsPaths /\ p \in unit
      /\ Kind.whole \in BOOLEAN /\ Kind.keyed \in BOOLEAN /\ (Kind.whole => Kind.keyed)
      /\ p \in Nat /\ p - 1 \in Int
    <2>1. LibTyped /\ lsScan.taken \in SUBSET LsPaths
        BY DEF ReadyToStore
    <2>2. p \in LsPaths /\ p \in Nat
        BY <2>1, PathFacts
    <2>3. /\ Kind.whole \in BOOLEAN /\ Kind.keyed \in BOOLEAN /\ (Kind.whole => Kind.keyed) /\ key \in LsPaths
        BY <2>1, <2>2, KindFacts
    <2>4. unit \in SUBSET LsPaths /\ p \in unit
        BY <2>1, <2>2 DEF Unit
    <2>5. key \in Keys /\ ~OfProvider(key)
        BY <2>3, PathFacts
    <2> QED
        BY <2>1, <2>2, <2>3, <2>4, <2>5
<1>2. /\ Kind.whole => unit = lsScan.taken /\ \A q \in lsScan.taken : SourceKey(q) = key
      /\ ~Kind.whole => unit = {p} /\ Min(unit) = p
    <2>1. Min({p}) = p
        BY <1>1, MinIn
    <2> QED
        BY <1>1, <2>1 DEF ReadyToStore, Unit
<1>3. /\ TxTyped(mid) /\ mid.rows = tx.rows /\ mid.digest = lsScan.digest /\ mid.work \in LsPaths
      /\ ~mid.refused =>
          /\ ~tx.refused /\ mid.edition \in 1..Len(mid.editions) /\ Len(tx.editions) <= Len(mid.editions)
          /\ Kind.keyed => mid.alias[key] = mid.edition
          /\ ~Kind.keyed => tx.rows[p].ed \in {0, mid.edition}
          /\ \A k \in Keys : tx.alias[k] # 0 => mid.alias[k] = tx.alias[k]
          /\ Aliased(mid.editions, mid.alias)
          /\ \A e \in 1..Len(mid.editions) : e # mid.edition \/ OfProvider(mid.editions[e].key) =>
                e \in 1..Len(tx.editions) /\ mid.editions[e] = tx.editions[e]
    <2>0. TxTyped(tx) /\ tx.work \in LsPaths /\ tx.digest = lsScan.digest /\ Len(tx.editions) \in Nat
        BY DEF StoredUpTo, TxTyped, Tx
    <2>1. CASE p = Min(unit)
        <3> DEFINE u == UpsertEdition(tx, key, unit)
        <3>1. mid = u
            BY <2>1
        <3> HIDE DEF u, mid, key, unit
        <3>2. /\ TxTyped(u) /\ u.rows = tx.rows /\ u.digest = tx.digest /\ u.work = tx.work
              /\ u.refused \/ Placed(tx, u, key, unit)
            BY <1>1, <2>0, UpsertEditionPlaces DEF u
        <3>3. CASE u.refused
            BY <2>0, <3>1, <3>2, <3>3
        <3>4. CASE ~u.refused
            <4>1. Placed(tx, u, key, unit)
                BY <3>2, <3>4
            <4>2. /\ ~tx.refused /\ u.edition \in 1..Len(u.editions) /\ Len(tx.editions) <= Len(u.editions)
                  /\ Kind.keyed => u.alias[key] = u.edition
                  /\ ~Kind.keyed => tx.rows[p].ed \in {0, u.edition}
                  /\ \A k \in Keys : tx.alias[k] # 0 => u.alias[k] = tx.alias[k]
                BY <1>1, <2>0, <4>1 DEF Placed
            <4>3. ASSUME NEW e \in 1..Len(u.editions), e # u.edition \/ OfProvider(u.editions[e].key)
                  PROVE  e \in 1..Len(tx.editions) /\ u.editions[e] = tx.editions[e]
                <5>1. CASE e \in 1..Len(tx.editions)
                    BY <1>1, <4>1, <4>3, <5>1 DEF Placed
                <5>2. CASE e \notin 1..Len(tx.editions)
                    <6>1. e = u.edition /\ u.edition \notin 1..Len(tx.editions)
                        BY <2>0, <4>1, <4>3, <5>2 DEF Placed
                    <6>2. u.editions[u.edition].key = key
                        BY <4>1, <6>1 DEF Placed
                    <6> QED
                        BY <1>1, <4>3, <6>1, <6>2
                <5> QED
                    BY <5>1, <5>2
            <4>4. Aliased(u.editions, u.alias)
                BY <1>1, <2>0, <3>2, <4>1, <4>2, PlacedKeepsAliased DEF StoredUpTo
            <4> QED
                BY <2>0, <3>1, <3>2, <4>2, <4>3, <4>4
        <3> QED
            BY <3>3, <3>4
    <2>2. CASE p # Min(unit)
        <3>1. mid = tx
            BY <2>2
        <3>2. Kind.whole /\ Min(unit) \in lsScan.taken /\ Min(unit) <= p - 1
            <4>1. Kind.whole
                BY <1>1, <1>2, <2>2
            <4>2. Min(unit) \in unit /\ Min(unit) <= p
                BY <1>1, MinIn
            <4> QED
                BY <1>1, <1>2, <2>2, <4>1, <4>2, PathFacts
        <3>3. ~tx.refused =>
                tx.edition \in 1..Len(tx.editions) /\ tx.alias[key] = tx.edition /\ Aliased(tx.editions, tx.alias)
            BY <1>2, <3>2 DEF StoredUpTo
        <3> HIDE DEF mid, key, unit
        <3> QED
            BY <1>1, <2>0, <3>1, <3>2, <3>3
    <2> QED
        BY <2>1, <2>2
<1>4. /\ TxTyped(t) /\ SameRest(mid, t)
      /\ mid.refused => t = mid
      /\ ~mid.refused => Filed(mid, t, p)
    <2>1. t = UpsertFile(mid, p, lsScan.found[p], TRUE)
        BY DEF StoreFile
    <2> DEFINE stat == lsScan.found[p]
               hash == TRUE
    <2>2. stat \in Content /\ hash \in BOOLEAN
        BY <1>1 DEF ReadyToStore
    <2>3. mid.refused \/ mid.edition \in 1..Len(mid.editions)
        BY <1>3
    <2>4. t = UpsertFile(mid, p, stat, hash)
        BY <2>1
    <2>5. TxTyped(mid)
        BY <1>3
    <2> HIDE DEF mid, stat, hash
    <2>6. LibTyped /\ p \in LsPaths
        BY <1>1
    <2> QED
        BY <2>2, <2>3, <2>4, <2>5, <2>6, UpsertFileFiles
<1> HIDE DEF mid
<1>5. TxTyped(t) /\ t.work \in LsPaths /\ t.digest = lsScan.digest /\ t.refused = mid.refused
    BY <1>3, <1>4 DEF SameRest
<1>6. SUFFICES ASSUME ~t.refused
               PROVE  /\ Len(lsEditions) <= Len(t.editions)
                      /\ Homes(t.rows, t.editions, t.alias) /\ Aliased(t.editions, t.alias)
                      /\ NoneOfProviders(t.editions)
                      /\ Kind.whole =>
                          t.edition \in 1..Len(t.editions) /\ \A q \in lsScan.taken : t.alias[SourceKey(q)] = t.edition
                      /\ \A q \in LsPaths : IF q \in lsScan.taken /\ q <= p THEN IsStored(t.rows[q], q) ELSE IsKept(t.rows[q], q)
    BY <1>5 DEF StoredUpTo
<1>7. ~mid.refused /\ ~tx.refused
    BY <1>3, <1>5, <1>6
<1>8. Len(lsEditions) <= Len(t.editions)
    <2>1. Len(lsEditions) <= Len(tx.editions)
        BY <1>7 DEF StoredUpTo
    <2>2. Len(tx.editions) <= Len(mid.editions) /\ t.editions = mid.editions
        BY <1>3, <1>4, <1>7 DEF SameRest
    <2>3. Len(lsEditions) \in Nat /\ Len(tx.editions) \in Nat /\ Len(mid.editions) \in Nat
        BY <1>3 DEF ReadyToStore, Shelved, StoredUpTo, TxTyped, Tx, Opened
    <2> QED
        BY <2>1, <2>2, <2>3
<1>9. Homes(t.rows, t.editions, t.alias)
    <2>1. SUFFICES ASSUME NEW e \in 1..Len(t.editions) PROVE OfProvider(t.editions[e].key) \/ HasHome(t.rows, t.alias, e)
        BY DEF Homes
    <2>2. t.alias = mid.alias /\ t.edition = mid.edition /\ t.editions = mid.editions /\ Filed(mid, t, p) /\ mid.rows = tx.rows
        BY <1>3, <1>4, <1>7 DEF SameRest
    <2>3. CASE e = mid.edition
        <3>1. t.rows[p].ed = e /\ (Kind.keyed => t.alias[SourceKey(p)] = e)
            BY <1>3, <1>7, <2>2, <2>3 DEF Filed
        <3> QED
            BY <1>1, <3>1 DEF HasHome
    <2>4. CASE e # mid.edition
        <3>1. e \in 1..Len(tx.editions) /\ t.editions[e] = tx.editions[e]
            BY <1>3, <1>7, <2>2, <2>4
        <3>2. OfProvider(tx.editions[e].key) \/ HasHome(tx.rows, tx.alias, e)
            BY <1>7, <3>1 DEF StoredUpTo, Homes
        <3>3. ASSUME HasHome(tx.rows, tx.alias, e) PROVE HasHome(t.rows, t.alias, e)
            <4>1. PICK q \in LsPaths : tx.rows[q].ed = e /\ (Kind.keyed => tx.alias[SourceKey(q)] = e)
                BY <3>3 DEF HasHome
            <4>2. SourceKey(q) \in Keys /\ e \in Nat /\ e # 0
                <5>1. SourceKey(q) \in LsPaths
                    BY <1>1, KindFacts
                <5>2. Len(tx.editions) \in Nat
                    BY DEF StoredUpTo, TxTyped, Tx
                <5> QED
                    BY <3>1, <5>1, <5>2, PathFacts
            <4>3. Kind.keyed => t.alias[SourceKey(q)] = e
                BY <1>3, <1>7, <2>2, <4>1, <4>2
            <4>4. q # p
                <5>1. CASE Kind.keyed
                    BY <1>3, <1>7, <2>2, <2>4, <4>3, <5>1
                <5>2. CASE ~Kind.keyed
                    BY <1>3, <1>7, <2>4, <4>1, <4>2, <5>2
                <5> QED
                    BY <5>1, <5>2
            <4>5. t.rows[q] = tx.rows[q]
                BY <2>2, <2>4, <4>1, <4>4 DEF Filed
            <4> QED
                BY <4>1, <4>3, <4>5 DEF HasHome
        <3> QED
            BY <3>1, <3>2, <3>3
    <2> QED
        BY <2>3, <2>4
<1>9a. Aliased(t.editions, t.alias)
    BY <1>3, <1>4, <1>7 DEF SameRest
<1>9b. NoneOfProviders(t.editions)
    <2>1. NoneOfProviders(tx.editions) /\ t.editions = mid.editions
        BY <1>4, <1>7 DEF StoredUpTo, SameRest
    <2> QED
        BY <1>3, <1>7, <2>1 DEF NoneOfProviders
<1>10. ASSUME Kind.whole
       PROVE  t.edition \in 1..Len(t.editions) /\ \A q \in lsScan.taken : t.alias[SourceKey(q)] = t.edition
    BY <1>1, <1>2, <1>3, <1>4, <1>7, <1>10 DEF SameRest
<1>11. ASSUME NEW q \in LsPaths
       PROVE  IF q \in lsScan.taken /\ q <= p THEN IsStored(t.rows[q], q) ELSE IsKept(t.rows[q], q)
    <2>1. Filed(mid, t, p) /\ mid.rows = tx.rows /\ mid.digest = lsScan.digest /\ mid.edition # 0
        <3>1. mid.edition \in 1..Len(mid.editions)
            BY <1>3, <1>7
        <3> QED
            BY <1>3, <1>4, <1>7, <3>1
    <2>2. IF q \in lsScan.taken /\ q <= p - 1 THEN IsStored(tx.rows[q], q) ELSE IsKept(tx.rows[q], q)
        BY <1>7 DEF StoredUpTo
    <2>3. CASE q = p
        <3>1. IsStored(t.rows[p], p)
            BY <2>1 DEF Filed, IsStored
        <3> QED
            BY <1>1, <2>3, <3>1
    <2>4. CASE q # p
        <3>1. q <= p <=> q <= p - 1
            BY <1>1, <2>4, PathFacts
        <3>2. \/ t.rows[q] = tx.rows[q]
              \/ t.rows[q] = NoRow /\ tx.rows[q].missing /\ lsDisk[q] = LsNone
            BY <2>1, <2>4 DEF Filed
        <3>3. CASE t.rows[q] = tx.rows[q]
            BY <2>2, <3>1, <3>3
        <3>4. CASE t.rows[q] = NoRow /\ tx.rows[q].missing /\ lsDisk[q] = LsNone
            BY <2>2, <3>1, <3>4, NoRowTyped DEF IsStored, IsKept
        <3> QED
            BY <3>2, <3>3, <3>4
    <2> QED
        BY <2>3, <2>4
<1> QED
    BY <1>8, <1>9, <1>9a, <1>9b, <1>10, <1>11


\* A step after the other: a recursive function on 0..n exists.
StepsOf(n, S) == [1..n -> [S -> S]]
Steps(g, n, S, start, step) ==
    g \in [0..n -> S] /\ g[0] = start /\ \A p \in 1..n : g[p] = step[p][g[p - 1]]

LEMMA StepsExist ==
    ASSUME NEW n \in Nat, NEW S, NEW start \in S, NEW step \in StepsOf(n, S)
    PROVE  \E g : Steps(g, n, S, start, step)
<1> DEFINE UpTo(g, k) == g[0] = start /\ \A p \in 1..k : g[p] = step[p][g[p - 1]]
           T == {k \in Nat : k <= n => \E g \in [0..n -> S] : UpTo(g, k)}
<1>1. 0 \in T
    <2> DEFINE g == [p \in 0..n |-> start]
    <2>1. g \in [0..n -> S] /\ g[0] = start
        OBVIOUS
    <2>2. UpTo(g, 0)
        BY <2>1
    <2> QED
        BY <2>1, <2>2
<1>2. ASSUME NEW k \in Nat, k \in T PROVE k + 1 \in T
    <2>1. SUFFICES ASSUME k + 1 <= n PROVE \E g \in [0..n -> S] : UpTo(g, k + 1)
        OBVIOUS
    <2>2. PICK g \in [0..n -> S] : UpTo(g, k)
        BY <1>2, <2>1
    <2> DEFINE x == step[k + 1][g[k]]
               h == [g EXCEPT ![k + 1] = x]
    <2>3. k + 1 \in 1..n /\ k \in 0..n /\ step \in [1..n -> [S -> S]]
        BY <2>1 DEF StepsOf
    <2>4. x \in S
        <3>1. step[k + 1] \in [S -> S] /\ g[k] \in S
            BY <2>3
        <3> QED
            BY <3>1
    <2> HIDE DEF x
    <2>5. h \in [0..n -> S] /\ h[k + 1] = x /\ \A p \in 0..n : p # k + 1 => h[p] = g[p]
        BY <2>3, <2>4
    <2> HIDE DEF h
    <2>6. h[0] = start
        BY <2>2, <2>3, <2>5
    <2>7. ASSUME NEW p \in 1..(k + 1) PROVE h[p] = step[p][h[p - 1]]
        <3>1. CASE p = k + 1
            <4>1. h[k] = g[k] /\ p - 1 = k
                BY <2>3, <2>5, <3>1
            <4> QED
                BY <2>5, <3>1, <4>1 DEF x
        <3>2. CASE p # k + 1
            <4>1. p \in 1..k /\ p \in 0..n /\ p - 1 \in 0..n /\ p - 1 # k + 1
                BY <2>3, <3>2
            <4> QED
                BY <2>2, <2>5, <3>2, <4>1
        <3> QED
            BY <3>1, <3>2
    <2> QED
        BY <2>5, <2>6, <2>7
<1>3. Nat \subseteq T
    <2> HIDE DEF T
    <2> QED
        BY <1>1, <1>2, NaturalsByInduction
<1>4. PICK g \in [0..n -> S] : UpTo(g, n)
    BY <1>3
<1> QED
    BY <1>4 DEF Steps

\* What the transaction of a folder has stored up to p, from what it has up to the path before.
Storing(stored, p) ==
    IF p = 0 THEN InItsWork(Opened(lsScan.digest), Min(lsScan.taken))
    ELSE IF p \in lsScan.taken THEN StoreFile(stored[p - 1], p) ELSE stored[p - 1]

LEMMA TransactionIsChosen ==
    Transaction = (CHOOSE stored : stored = [p \in 0..Last |-> Storing(stored, p)])[Last]
    BY DEF Transaction, Storing, Last

LEMMA StoringStarts ==
    ASSUME ReadyToStore PROVE StoredUpTo(InItsWork(Opened(lsScan.digest), Min(lsScan.taken)), 0)
<1> DEFINE tx == Opened(lsScan.digest)
           first == Min(lsScan.taken)
           works == SourceWorks(tx, Unit(first))
           title == Title(first)
           t == InWork(tx, works, title)
<1>1. LibTyped /\ Shelved /\ lsScan.taken \in SUBSET LsPaths /\ lsScan.taken # {} /\ lsScan.digest \in [LsPaths -> Content]
    BY DEF ReadyToStore
<1>2. first \in lsScan.taken /\ first \in LsPaths
    BY <1>1, MinIn
<1>3. Unit(first) \in SUBSET LsPaths
    BY <1>1, <1>2 DEF Unit
<1>4. /\ TxTyped(tx) /\ tx.rows = lsRows /\ tx.alias = lsAlias /\ tx.editions = lsEditions
      /\ tx.digest = lsScan.digest
    BY <1>1, OpenedTyped
<1> HIDE DEF tx
<1>5. works \in SUBSET LsPaths
    BY <1>3, <1>4, WorksTyped
<1>6. title \in LsPaths
    BY <1>1, <1>2, KindFacts
<1> HIDE DEF works, title
<1>7. /\ TxTyped(t) /\ t.work \in LsPaths /\ t.rows = tx.rows /\ t.editions = tx.editions /\ t.alias = tx.alias
      /\ t.digest = tx.digest
    BY <1>4, <1>5, <1>6, InWorkTyped
<1>8. t = InItsWork(Opened(lsScan.digest), Min(lsScan.taken))
    BY DEF InItsWork, tx, works, title
<1> HIDE DEF t
<1>9. Homes(t.rows, t.editions, t.alias) /\ Aliased(t.editions, t.alias) /\ Len(t.editions) \in Nat /\ t.editions = lsEditions
    BY <1>1, <1>4, <1>7 DEF Shelved, TxTyped, Tx
<1>9a. NoneOfProviders(t.editions)
    BY <1>9 DEF NoneOfProviders
<1>10. \A q \in lsScan.taken : ~(q <= 0)
    BY <1>1, PathFacts
<1>11. \A q \in LsPaths : IsKept(t.rows[q], q)
    BY <1>4, <1>7 DEF IsKept
<1>12. StoredUpTo(t, 0)
    BY <1>4, <1>7, <1>9, <1>9a, <1>10, <1>11 DEF StoredUpTo
<1> QED
    BY <1>8, <1>12

\* The induction over the files, for any function that is the recursion where the recursion has the type of a transaction.
LEMMA StoringStores ==
    ASSUME ReadyToStore, NEW g, g[0] = Storing(g, 0),
           \A p \in 1..Last : TxTyped(Storing(g, p)) => g[p] = Storing(g, p)
    PROVE  \A p \in 0..Last : StoredUpTo(g[p], p) /\ g[p] = Storing(g, p)
<1> DEFINE Good(p) == StoredUpTo(g[p], p) /\ g[p] = Storing(g, p)
           T == {p \in Nat : p <= Last => Good(p)}
<1>1. 0 \in T
    BY StoringStarts DEF Storing
<1>2. ASSUME NEW k \in Nat, k \in T PROVE k + 1 \in T
    <2>1. SUFFICES ASSUME k + 1 <= Last PROVE Good(k + 1)
        OBVIOUS
    <2> DEFINE p == k + 1
               tx == g[k]
               t == Storing(g, p)
    <2>2. p \in 1..Last /\ p # 0 /\ p - 1 = k /\ p \in LsPaths
        BY <2>1, PathFacts
    <2>3. StoredUpTo(tx, k)
        BY <1>2, <2>1, PathFacts
    <2>4. StoredUpTo(t, p)
        <3>1. CASE p \in lsScan.taken
            <4>1. t = StoreFile(tx, p)
                BY <2>2, <3>1 DEF Storing
            <4> HIDE DEF t, tx, p
            <4> QED
                BY <2>2, <2>3, <3>1, <4>1, StoreFileStores
        <3>2. CASE p \notin lsScan.taken
            <4>1. t = tx
                BY <2>2, <3>2 DEF Storing
            <4>2. \A q \in lsScan.taken : q <= p <=> q <= k
                <5>1. \A q \in lsScan.taken : q \in Nat /\ q # p
                    BY <3>2, PathFacts DEF ReadyToStore
                <5> QED
                    BY <5>1
            <4>3. StoredUpTo(tx, p)
                <5> HIDE DEF tx, p
                <5> QED
                    BY <2>3, <4>2 DEF StoredUpTo
            <4> QED
                BY <4>1, <4>3
        <3> QED
            BY <3>1, <3>2
    <2>5. TxTyped(t)
        BY <2>4 DEF StoredUpTo
    <2>6. g[p] = t
        BY <2>2, <2>5
    <2> QED
        BY <2>4, <2>6
<1>3. Nat \subseteq T
    <2> HIDE DEF T
    <2> QED
        BY <1>1, <1>2, NaturalsByInduction
<1> QED
    BY <1>3, PathFacts

\* The transaction is the last of the steps that store the files.
Stored(f) == \A p \in 0..Last : StoredUpTo(f[p], p) /\ f[p] = Storing(f, p)
LEMMA TransactionSteps == ASSUME ReadyToStore PROVE \E f : Stored(f) /\ Transaction = f[Last]
<1> DEFINE S == {tx \in Tx : TxTyped(tx)}
           next(tx, p) == IF p \in lsScan.taken THEN StoreFile(tx, p) ELSE tx
           step == [p \in 1..Last |-> [tx \in S |-> IF next(tx, p) \in S THEN next(tx, p) ELSE tx]]
           start == InItsWork(Opened(lsScan.digest), Min(lsScan.taken))
           Is(stored) == stored = [p \in 0..Last |-> Storing(stored, p)]
<1>1. Last \in Nat
    BY PathFacts
<1>2. start \in S
    <2>1. TxTyped(start)
        BY StoringStarts DEF StoredUpTo
    <2> QED
        BY <2>1 DEF TxTyped
<1>3. step \in [1..Last -> [S -> S]]
    <2> HIDE DEF S, next
    <2> QED
        OBVIOUS
<1>4. PICK g : Steps(g, Last, S, start, step)
    <2>1. step \in StepsOf(Last, S)
        BY <1>3 DEF StepsOf
    <2> HIDE DEF S, step, start
    <2> QED
        BY <1>1, <1>2, <2>1, StepsExist
<1>4f. g \in [0..Last -> S] /\ g[0] = start /\ \A p \in 1..Last : g[p] = step[p][g[p - 1]]
    <2> HIDE DEF S, step, start
    <2> QED
        BY <1>4 DEF Steps
<1>5. \A p \in 1..Last : g[p - 1] \in S /\ p # 0
    <2> HIDE DEF S
    <2> QED
        BY <1>1, <1>4f
<1>6. g[0] = Storing(g, 0)
    BY <1>4f DEF Storing
<1>7. ASSUME NEW p \in 1..Last, TxTyped(Storing(g, p)) PROVE g[p] = Storing(g, p)
    <2>1. Storing(g, p) = next(g[p - 1], p)
        BY <1>5 DEF Storing
    <2>2. Storing(g, p) \in S
        BY <1>7 DEF TxTyped
    <2> HIDE DEF S, next
    <2>3. g[p] = IF next(g[p - 1], p) \in S THEN next(g[p - 1], p) ELSE g[p - 1]
        BY <1>4f, <1>5
    <2> QED
        BY <2>1, <2>2, <2>3
<1>8. \A p \in 0..Last : g[p] = Storing(g, p)
    BY <1>6, <1>7, StoringStores
<1>9. Is(g)
    <2> HIDE DEF S, step, start
    <2> QED
        BY <1>4f, <1>8
<1> DEFINE f == CHOOSE stored : Is(stored)
<1>10. Is(f)
    <2> HIDE DEF Is
    <2> QED
        BY <1>9
<1>11. Transaction = f[Last]
    BY TransactionIsChosen
<1> HIDE DEF f
<1>12. \A p \in 0..Last : f[p] = Storing(f, p)
    BY <1>10
<1>13. 0 \in 0..Last /\ Last \in 0..Last /\ \A p \in 1..Last : p \in 0..Last
    BY <1>1
<1>14. \A p \in 0..Last : StoredUpTo(f[p], p)
    <2> HIDE DEF Is
    <2> QED
        BY <1>12, <1>13, StoringStores
<1>15. Stored(f)
    BY <1>12, <1>14 DEF Stored
<1> QED
    BY <1>11, <1>15

\* The transaction has stored every file that was taken.
LEMMA TransactionStores == ASSUME ReadyToStore PROVE StoredUpTo(Transaction, Last)
<1>1. PICK f : Stored(f) /\ Transaction = f[Last]
    BY TransactionSteps
<1>2. Last \in 0..Last
    BY PathFacts
<1> QED
    BY <1>1, <1>2 DEF Stored

-----------------------------------------------------------------------------
(* The inductive invariant of the scanner.                                 *)

\* What a scan under which the disk was still has to show: no live row is without its file, and every file but those of S
\* has a live row with its content.
NoneGone == \A p \in LsPaths : Live(p) => lsDisk[p] # LsNone
ShownBut(S) == \A p \in LsPaths : lsDisk[p] # LsNone => p \in S \/ (Live(p) /\ lsRows[p].sha = lsDisk[p])

\* What a scan has found and has still to do, phase by phase.
Phases ==
    /\ lsScan.at = "walk" => lsScan.todo # {}
    /\ lsScan.at = "mark" => \A p \in lsScan.gone : lsRows[p].ed # 0
    /\ lsScan.at \in {"next", "store"} => \A p \in lsScan.todo : lsScan.found[p] # LsNone
    /\ lsScan.at = "store" => lsScan.taken # {} /\ lsScan.taken \subseteq Group
    /\ lsScan.at # "idle" => ~lsScan.whole
QuietPhases ==
    /\ lsScan.at = "walk" => \A p \in LsPaths \ lsScan.todo : lsScan.found[p] = lsDisk[p]
    /\ lsScan.at \in {"gone", "mark", "next", "store"} => \A p \in LsPaths : lsScan.found[p] = lsDisk[p]
    /\ lsScan.at = "mark" => \A p \in LsPaths : Live(p) /\ lsDisk[p] = LsNone => p \in lsScan.gone
    /\ lsScan.at \in {"next", "store"} => NoneGone
    /\ lsScan.at = "next" /\ ~lsScan.errors => ShownBut(lsScan.todo)
    /\ lsScan.at = "store" /\ ~lsScan.errors =>
        ShownBut((lsScan.todo \ Group) \cup lsScan.taken) /\ \A p \in lsScan.taken : lsScan.digest[p] = lsDisk[p]
    /\ lsScan.at = "idle" /\ lsScan.whole /\ ~lsScan.errors => NoneGone /\ ShownBut({})

LsInv == LibTyped /\ Shelved /\ lsScan \in Scan /\ Phases /\ (lsScan.quiet => QuietPhases)

\* Nothing but the rows, editions and aliases, and what a source is, decides whether they are in order.
SameLibrary == lsLib'.kind = lsLib.kind /\ lsLib'.folder = lsLib.folder /\ lsLib'.items = lsLib.items
LEMMA ShelvedStays ==
    ASSUME Shelved, SameLibrary, UNCHANGED <<lsRows, lsEditions, lsAlias>> PROVE Shelved'
<1> DEFINE none == [p \in LsPaths |-> LsNone]
<1>1. TxTyped(Opened(none)) /\ Homes(lsRows, lsEditions, lsAlias) /\ Aliased(lsEditions, lsAlias)
    BY DEF Shelved
<1>2. TxTyped(Opened(none))'
    BY <1>1 DEF TxTyped, Tx, RowsTyped, Opened
<1>3. Kind' = Kind /\ \A p : SourceKey(p)' = SourceKey(p)
    BY DEF SameLibrary, Kind, SourceKey
<1>4. Homes(lsRows, lsEditions, lsAlias)' /\ Aliased(lsEditions, lsAlias)'
    BY <1>1, <1>3 DEF Homes, HasHome, Aliased
<1> QED
    BY <1>2, <1>4 DEF Shelved

LEMMA LibTypedStays ==
    ASSUME LibTyped, lsLib' \in Library, SameLibrary, lsDisk' \in [LsPaths -> Content] PROVE LibTyped'
    BY DEF LibTyped, SameLibrary, Kind

LEMMA NoScanTyped ==
    /\ NoScan \in Scan /\ NoScan.at = "idle" /\ NoScan.todo = {} /\ NoScan.taken = {} /\ NoScan.gone = {}
    /\ ~NoScan.quiet /\ ~NoScan.whole /\ ~NoScan.errors /\ NoScan.digest \in [LsPaths -> Content]
    /\ NoScan.found = [p \in LsPaths |-> LsNone]
    BY DEF NoScan, Scan, Content

LEMMA LsInitHolds == ASSUME LsInit PROVE LsInv
<1>1. /\ lsLib \in LsLibraries /\ lsDisk \in [LsPaths -> Content] /\ lsEditions = << >> /\ lsRows = [p \in LsPaths |-> NoRow]
      /\ lsAlias = [k \in Keys |-> 0] /\ lsScan = NoScan
    BY DEF LsInit, Content
<1>2. LibTyped
    <2>1. lsLib \in Library
        BY <1>1, LsAssumption DEF Library
    <2>2. lsLib.items # {} => lsLib.kind \in {BooksLibrary, AudioLibrary}
        BY <1>1, LsAssumption
    <2>3. BooksLibrary.keyed /\ AudioLibrary.keyed
        BY DEF BooksLibrary, AudioLibrary
    <2> QED
        BY <1>1, <2>1, <2>2, <2>3 DEF LibTyped, Kind
<1>3. Shelved
    <2> DEFINE none == [p \in LsPaths |-> LsNone]
               tx == Opened(none)
    <2>1. /\ tx = [rows |-> lsRows, editions |-> << >>, alias |-> lsAlias, digest |-> none, work |-> 0, edition |-> 0, refused |-> FALSE]
          /\ Len(<< >>) = 0 /\ << >> \in Seq(Edition)
        BY <1>1 DEF Opened
    <2>2. lsRows \in [LsPaths -> Row] /\ lsAlias \in [Keys -> Nat] /\ lsAlias \in [Keys -> 0..0] /\ none \in [LsPaths -> Content]
        BY <1>1, NoRowTyped DEF Content
    <2>3. RowsTyped(lsRows, 0)
        BY <1>1, <2>2, NoRowTyped DEF RowsTyped
    <2> HIDE DEF none
    <2>4. tx \in Tx
        BY <2>1, <2>2 DEF Tx
    <2>5. TxTyped(tx)
        BY <2>1, <2>2, <2>3, <2>4 DEF TxTyped
    <2>6. Homes(lsRows, lsEditions, lsAlias) /\ Aliased(lsEditions, lsAlias)
        BY <1>1 DEF Homes, Aliased
    <2> QED
        BY <2>5, <2>6 DEF Shelved, none
<1>4. Phases /\ ~lsScan.quiet /\ lsScan \in Scan
    BY <1>1, NoScanTyped DEF Phases
<1> QED
    BY <1>2, <1>3, <1>4 DEF LsInv

LEMMA DiskChangesKeeps ==
    ASSUME LsInv, NEW disk \in [LsPaths -> Content], DiskChanges(disk) PROVE LsInv' /\ SameLibrary
<1>1. lsLib \in Library /\ lsScan \in Scan /\ Phases
    BY DEF LsInv, LibTyped
<1>2. lsLib' = [lsLib EXCEPT !.changes = lsLib.changes - 1] /\ lsDisk' = disk /\ lsScan' = [lsScan EXCEPT !.quiet = FALSE]
      /\ UNCHANGED <<lsRows, lsEditions, lsAlias>>
    BY DEF DiskChanges
<1>3. lsLib' \in Library /\ SameLibrary
    <2>1. lsLib.changes \in Int
        BY <1>1 DEF Library
    <2>2. lsLib.changes - 1 \in Int
        BY <2>1
    <2> QED
        BY <1>1, <1>2, <2>2 DEF Library, SameLibrary
<1>4. LibTyped' /\ Shelved'
    BY <1>2, <1>3, LibTypedStays, ShelvedStays DEF LsInv
<1>5. lsScan' \in Scan /\ ~lsScan'.quiet /\ lsScan'.at = lsScan.at /\ lsScan'.todo = lsScan.todo /\ lsScan'.gone = lsScan.gone /\ lsScan'.found = lsScan.found
      /\ lsScan'.taken = lsScan.taken /\ lsScan'.whole = lsScan.whole
    BY <1>1, <1>2 DEF Scan
<1>6. Group' = Group
    BY <1>2, <1>3, <1>5 DEF Group, Folder, Kind, SameLibrary
<1>7. Phases'
    BY <1>1, <1>2, <1>5, <1>6 DEF Phases
<1> QED
    BY <1>3, <1>4, <1>5, <1>7 DEF LsInv

\* A step of a scan that leaves rows and disk alone has only its own phase to show.
LEMMA ScanStepKeeps ==
    ASSUME LsInv, lsLib' \in Library, SameLibrary, UNCHANGED <<lsDisk, lsRows, lsEditions, lsAlias>>,
           lsScan' \in Scan, Phases', lsScan'.quiet => QuietPhases'
    PROVE  LsInv'
<1>1. LibTyped'
    BY LibTypedStays DEF LsInv, LibTyped
<1>2. Shelved'
    BY ShelvedStays DEF LsInv
<1> QED
    BY <1>1, <1>2 DEF LsInv

LEMMA ScanTyped ==
    ASSUME LsInv
    PROVE  /\ lsScan \in Scan /\ lsScan.todo \in SUBSET LsPaths /\ lsScan.taken \in SUBSET LsPaths /\ lsScan.gone \in SUBSET LsPaths
           /\ lsScan.found \in [LsPaths -> Content] /\ lsScan.digest \in [LsPaths -> Content]
           /\ lsScan.errors \in BOOLEAN /\ lsScan.quiet \in BOOLEAN /\ lsScan.whole \in BOOLEAN
           /\ lsDisk \in [LsPaths -> Content] /\ lsLib \in Library /\ LibTyped /\ Shelved /\ Phases
           /\ lsScan.quiet => QuietPhases
    BY DEF LsInv, Scan, LibTyped

\* The folder that is next is part of what is to do.
LEMMA GroupIsToDo == ASSUME LsInv PROVE Group \subseteq lsScan.todo
    BY DEF Group

LEMMA StartKeeps == ASSUME LsInv, Start PROVE LsInv' /\ SameLibrary
<1>1. lsLib' = [lsLib EXCEPT !.scans = lsLib.scans - 1] /\ lsScan' = [NoScan EXCEPT !.at = "walk", !.todo = LsPaths, !.quiet = TRUE]
      /\ UNCHANGED <<lsDisk, lsRows, lsEditions, lsAlias>>
    BY DEF Start
<1>2. lsLib' \in Library /\ SameLibrary
    <2>1. lsLib \in Library
        BY ScanTyped
    <2>2. lsLib.scans - 1 \in Int
        <3>1. lsLib.scans \in Int
            BY <2>1 DEF Library
        <3> QED
            BY <3>1
    <2> QED
        BY <1>1, <2>1, <2>2 DEF Library, SameLibrary
<1>3. lsScan' \in Scan /\ lsScan'.at = "walk" /\ lsScan'.todo = LsPaths /\ ~lsScan'.whole
    <2>1. NoScan \in Scan /\ ~NoScan.whole
        BY NoScanTyped
    <2> QED
        BY <1>1, <2>1 DEF Scan
<1>4. Phases' /\ QuietPhases'
    BY <1>3, PathFacts DEF Phases, QuietPhases
<1> QED
    BY <1>1, <1>2, <1>3, <1>4, ScanStepKeeps

\* A step that leaves the library alone.
LEMMA LibraryStays == ASSUME LsInv, lsLib' = lsLib PROVE lsLib' \in Library /\ SameLibrary
    BY ScanTyped DEF SameLibrary

LEMMA WalkDirKeeps == ASSUME LsInv, WalkDir PROVE LsInv'
<1> DEFINE p == Min(lsScan.todo)
           at == IF lsScan.todo = {p} THEN "gone" ELSE "walk"
<1>1. /\ lsScan.at = "walk"
      /\ lsScan' = [lsScan EXCEPT !.found = [lsScan.found EXCEPT ![p] = lsDisk[p]], !.todo = lsScan.todo \ {p}, !.at = at]
      /\ UNCHANGED <<lsLib, lsDisk, lsRows, lsEditions, lsAlias>>
    BY DEF WalkDir
<1>2. lsScan.todo # {} /\ p \in lsScan.todo /\ p \in LsPaths /\ lsDisk[p] \in Content
    BY <1>1, ScanTyped, MinIn DEF Phases
<1> HIDE DEF p
<1>3. at \in {"gone", "walk"} /\ (at = "gone" <=> lsScan.todo = {p})
    OBVIOUS
<1> HIDE DEF at
<1>4. /\ lsScan' \in Scan /\ lsScan'.at = at /\ lsScan'.todo = lsScan.todo \ {p} /\ lsScan'.whole = lsScan.whole
      /\ lsScan'.quiet = lsScan.quiet
      /\ lsScan'.found[p] = lsDisk[p] /\ \A q \in LsPaths : q # p => lsScan'.found[q] = lsScan.found[q]
    <2> DEFINE found == [lsScan.found EXCEPT ![p] = lsDisk[p]]
    <2>1. found \in [LsPaths -> Content] /\ found[p] = lsDisk[p] /\ \A q \in LsPaths : q # p => found[q] = lsScan.found[q]
        BY <1>2, ScanTyped
    <2>2. lsScan \in Scan
        BY ScanTyped
    <2> HIDE DEF found
    <2>3. lsScan' = [lsScan EXCEPT !.found = found, !.todo = lsScan.todo \ {p}, !.at = at]
        BY <1>1 DEF found
    <2> QED
        BY <1>3, <2>1, <2>2, <2>3 DEF Scan
<1>5. Phases'
    BY <1>1, <1>2, <1>3, <1>4, ScanTyped DEF Phases
<1>6. ASSUME lsScan.quiet PROVE QuietPhases'
    <2>1. \A q \in LsPaths \ lsScan.todo : lsScan.found[q] = lsDisk[q]
        BY <1>1, <1>6, ScanTyped DEF QuietPhases
    <2>2. \A q \in LsPaths \ lsScan'.todo : lsScan'.found[q] = lsDisk'[q]
        BY <1>1, <1>4, <2>1
    <2>3. lsScan'.at = "gone" => lsScan'.todo = {}
        BY <1>3, <1>4
    <2> QED
        BY <1>3, <1>4, <2>2, <2>3 DEF QuietPhases
<1> QED
    BY <1>1, <1>4, <1>5, <1>6, LibraryStays, ScanStepKeeps

LEMMA StatRowsKeeps == ASSUME LsInv, StatRows PROVE LsInv'
<1>1. /\ lsScan.at = "gone" /\ lsScan' = [lsScan EXCEPT !.at = "mark", !.gone = Gone]
      /\ UNCHANGED <<lsLib, lsDisk, lsRows, lsEditions, lsAlias>>
    BY DEF StatRows
<1>2. Gone \in SUBSET LsPaths
    BY DEF Gone
<1>3. /\ lsScan' \in Scan /\ lsScan'.at = "mark" /\ lsScan'.gone = Gone /\ lsScan'.found = lsScan.found
      /\ lsScan'.whole = lsScan.whole /\ lsScan'.quiet = lsScan.quiet
    BY <1>1, <1>2, ScanTyped DEF Scan
<1>4. Phases'
    BY <1>1, <1>3, ScanTyped DEF Phases, Gone, Live
<1>5. ASSUME lsScan.quiet PROVE QuietPhases'
    BY <1>1, <1>3, <1>5, ScanTyped DEF QuietPhases, Gone, Live
<1> QED
    BY <1>1, <1>3, <1>4, <1>5, LibraryStays, ScanStepKeeps

LEMMA SkipKeeps == ASSUME LsInv, Skip PROVE LsInv'
<1>1. /\ lsScan.at = "next" /\ Changed(Group) = {} /\ lsScan' = [lsScan EXCEPT !.todo = lsScan.todo \ Group]
      /\ UNCHANGED <<lsLib, lsDisk, lsRows, lsEditions, lsAlias>>
    BY DEF Skip
<1>2. /\ lsScan' \in Scan /\ lsScan'.at = "next" /\ lsScan'.todo = lsScan.todo \ Group /\ lsScan'.found = lsScan.found
      /\ lsScan'.whole = lsScan.whole /\ lsScan'.quiet = lsScan.quiet /\ lsScan'.errors = lsScan.errors
    <2> DEFINE todo == lsScan.todo \ Group
    <2>1. todo \in SUBSET LsPaths
        BY ScanTyped
    <2>2. lsScan' = [lsScan EXCEPT !.todo = todo]
        BY <1>1
    <2>3. lsScan'.todo = todo /\ lsScan' \in Scan /\ lsScan'.at = lsScan.at /\ lsScan'.found = lsScan.found
          /\ lsScan'.whole = lsScan.whole /\ lsScan'.quiet = lsScan.quiet /\ lsScan'.errors = lsScan.errors
        <3> HIDE DEF todo
        <3> QED
            BY <2>1, <2>2, ScanTyped DEF Scan
    <2> QED
        BY <1>1, <2>3
<1>3. Phases'
    BY <1>1, <1>2, ScanTyped DEF Phases
<1>4. \A p \in Group : Live(p) /\ lsRows[p].sha = lsDisk[p]
    BY <1>1 DEF Changed, Unchanged
<1>5. ASSUME lsScan.quiet PROVE QuietPhases'
    <2>1. QuietPhases
        BY <1>5, ScanTyped
    <2>2. NoneGone'
        BY <1>1, <2>1 DEF QuietPhases, NoneGone, Live
    <2>3. lsScan.errors \/ ShownBut(lsScan.todo)'
        <3>1. lsScan.errors \/ ShownBut(lsScan.todo)
            BY <1>1, <2>1 DEF QuietPhases
        <3> QED
            BY <1>1, <1>2, <1>4, <3>1 DEF ShownBut, Live
    <2> QED
        BY <1>1, <1>2, <2>1, <2>2, <2>3 DEF QuietPhases
<1> QED
    BY <1>1, <1>2, <1>3, <1>5, LibraryStays, ScanStepKeeps

\* The end of a scan: by itself, by an error, or cancelled.
LEMMA EndKeeps ==
    ASSUME LsInv, lsScan' \in Scan, lsScan'.at = "idle",
           lsScan'.quiet /\ lsScan'.whole /\ ~lsScan'.errors => NoneGone /\ ShownBut({}),
           UNCHANGED <<lsLib, lsDisk, lsRows, lsEditions, lsAlias>>
    PROVE  LsInv'
<1>1. Phases'
    BY DEF Phases
<1>2. ASSUME lsScan'.quiet PROVE QuietPhases'
    <2>1. lsScan'.whole /\ ~lsScan'.errors => NoneGone' /\ ShownBut({})'
        BY <1>2 DEF NoneGone, ShownBut, Live
    <2> QED
        BY <2>1 DEF QuietPhases
<1> QED
    BY <1>1, <1>2, LibraryStays, ScanStepKeeps

LEMMA CancelKeeps == ASSUME LsInv, Cancel PROVE LsInv'
<1>1. lsScan' = [NoScan EXCEPT !.errors = TRUE] /\ UNCHANGED <<lsLib, lsDisk, lsRows, lsEditions, lsAlias>>
    BY DEF Cancel
<1>2. lsScan' \in Scan /\ lsScan'.at = "idle" /\ lsScan'.quiet = NoScan.quiet
    BY <1>1, NoScanTyped DEF Scan
<1> QED
    BY <1>1, <1>2, NoScanTyped, EndKeeps

LEMMA FinishKeeps == ASSUME LsInv, Finish PROVE LsInv'
<1>1. /\ lsScan.at = "next" /\ lsScan.todo = {}
      /\ lsScan' = [NoScan EXCEPT !.errors = lsScan.errors, !.quiet = lsScan.quiet, !.whole = TRUE]
      /\ UNCHANGED <<lsLib, lsDisk, lsRows, lsEditions, lsAlias>>
    BY DEF Finish
<1>2. lsScan.errors \in BOOLEAN /\ lsScan.quiet \in BOOLEAN /\ NoScan \in Scan
    BY ScanTyped, NoScanTyped
<1>3. lsScan' \in Scan /\ lsScan'.at = "idle" /\ lsScan'.quiet = lsScan.quiet /\ lsScan'.errors = lsScan.errors
    BY <1>1, <1>2, NoScanTyped DEF Scan
<1>4. lsScan.quiet /\ ~lsScan.errors => NoneGone /\ ShownBut({})
    BY <1>1, ScanTyped DEF QuietPhases
<1> QED
    BY <1>1, <1>3, <1>4, EndKeeps

\* The rows, editions and aliases that a transaction leaves.
LEMMA ShelvedAnew ==
    ASSUME NEW rows, NEW editions, NEW alias, editions \in Seq(Edition), RowsTyped(rows, Len(editions)),
           alias \in [Keys -> 0..Len(editions)], Homes(rows, editions, alias), Aliased(editions, alias),
           lsRows' = rows, lsEditions' = editions, lsAlias' = alias, SameLibrary
    PROVE  Shelved'
<1> DEFINE none == [p \in LsPaths |-> LsNone]
           tx == [rows |-> rows, editions |-> editions, alias |-> alias, digest |-> none, work |-> 0, edition |-> 0, refused |-> FALSE]
<1>1. Opened(none)' = tx
    BY DEF Opened
<1>2. none \in [LsPaths -> Content] /\ rows \in [LsPaths -> Row] /\ Len(editions) \in Nat
    BY DEF Content, RowsTyped
<1>3. alias \in [Keys -> Nat]
    BY <1>2
<1>4. tx \in Tx
    <2> HIDE DEF none
    <2> QED
        BY <1>2, <1>3 DEF Tx
<1>5. TxTyped(tx)
    BY <1>4 DEF TxTyped
<1>6. TxTyped(Opened(none))'
    <2> HIDE DEF tx
    <2>1. TxTyped(Opened(none)')
        BY <1>1, <1>5
    <2> QED
        BY <2>1 DEF TxTyped, Tx, RowsTyped
<1>7. Kind' = Kind /\ \A p : SourceKey(p)' = SourceKey(p)
    BY DEF SameLibrary, Kind, SourceKey
<1>8. Homes(lsRows, lsEditions, lsAlias)' /\ Aliased(lsEditions, lsAlias)'
    BY <1>7 DEF Homes, HasHome, Aliased
<1> QED
    BY <1>6, <1>8 DEF Shelved

LEMMA ShelvedFacts ==
    ASSUME Shelved
    PROVE  /\ lsEditions \in Seq(Edition) /\ RowsTyped(lsRows, Len(lsEditions)) /\ lsAlias \in [Keys -> 0..Len(lsEditions)]
           /\ lsRows \in [LsPaths -> Row] /\ Len(lsEditions) \in Nat
           /\ Homes(lsRows, lsEditions, lsAlias) /\ Aliased(lsEditions, lsAlias)
    BY DEF Shelved, TxTyped, Tx, RowsTyped, Opened

LEMMA MarkMissingKeeps == ASSUME LsInv, MarkMissing PROVE LsInv'
<1> DEFINE rows == [p \in LsPaths |-> IF p \in lsScan.gone THEN [lsRows[p] EXCEPT !.missing = TRUE] ELSE lsRows[p]]
           todo == {p \in LsPaths : lsScan.found[p] # LsNone}
<1>1. /\ lsScan.at = "mark" /\ lsRows' = rows /\ lsScan' = [lsScan EXCEPT !.at = "next", !.todo = todo]
      /\ UNCHANGED <<lsLib, lsDisk, lsEditions, lsAlias>>
    BY DEF MarkMissing
<1>2. lsRows \in [LsPaths -> Row] /\ RowsTyped(lsRows, Len(lsEditions)) /\ \A p \in lsScan.gone : lsRows[p].ed # 0
    BY <1>1, ScanTyped, ShelvedFacts DEF Phases
<1>3. \A p \in LsPaths : p \in lsScan.gone =>
          /\ rows[p] \in Row /\ rows[p].ed = lsRows[p].ed /\ rows[p].sha = lsRows[p].sha /\ rows[p].missing
    BY <1>2 DEF Row
<1>4. \A p \in LsPaths : p \notin lsScan.gone => rows[p] = lsRows[p]
    OBVIOUS
<1> HIDE DEF rows
<1>5. \A p \in LsPaths : rows[p].ed = lsRows[p].ed
    BY <1>3, <1>4
<1>6. RowsTyped(rows, Len(lsEditions))
    <2>1. rows \in [LsPaths -> Row]
        <3>1. \A p \in LsPaths : rows[p] \in Row
            BY <1>2, <1>3, <1>4
        <3> QED
            BY <3>1 DEF rows
    <2> QED
        BY <1>2, <1>3, <1>4, <1>5, <2>1 DEF RowsTyped
<1>7. Homes(rows, lsEditions, lsAlias)
    BY <1>5, ScanTyped, ShelvedFacts DEF Homes, HasHome
<1>8. SameLibrary /\ LibTyped'
    BY <1>1, ScanTyped, LibraryStays, LibTypedStays
<1>9. Shelved'
    <2> DEFINE editions == lsEditions
               alias == lsAlias
    <2>1. /\ editions \in Seq(Edition) /\ RowsTyped(rows, Len(editions)) /\ alias \in [Keys -> 0..Len(editions)]
          /\ Homes(rows, editions, alias) /\ Aliased(editions, alias)
        BY <1>6, <1>7, ScanTyped, ShelvedFacts
    <2>2. lsRows' = rows /\ lsEditions' = editions /\ lsAlias' = alias
        BY <1>1
    <2> HIDE DEF editions, alias
    <2> QED
        BY <1>8, <2>1, <2>2, ShelvedAnew
<1>10. /\ lsScan' \in Scan /\ lsScan'.at = "next" /\ lsScan'.todo = todo /\ lsScan'.found = lsScan.found
       /\ lsScan'.whole = lsScan.whole /\ lsScan'.quiet = lsScan.quiet /\ lsScan'.errors = lsScan.errors
    <2>1. todo \in SUBSET LsPaths
        OBVIOUS
    <2> HIDE DEF todo
    <2> QED
        BY <1>1, <2>1, ScanTyped DEF Scan
<1>11. Phases'
    BY <1>1, <1>10, ScanTyped DEF Phases
<1>12. ASSUME lsScan.quiet PROVE QuietPhases'
    <2>1. /\ \A p \in LsPaths : lsScan.found[p] = lsDisk[p]
          /\ \A p \in LsPaths : Live(p) /\ lsDisk[p] = LsNone => p \in lsScan.gone
        BY <1>1, <1>12, ScanTyped DEF QuietPhases
    <2>2. NoneGone'
        BY <1>1, <1>3, <1>4, <2>1 DEF NoneGone, Live
    <2>3. ShownBut(todo)'
        BY <1>1, <1>10, <2>1 DEF ShownBut
    <2> QED
        BY <1>1, <1>10, <2>1, <2>2, <2>3 DEF QuietPhases
<1> QED
    BY <1>8, <1>9, <1>10, <1>11, <1>12 DEF LsInv

LEMMA ProbeKeeps == ASSUME LsInv, Probe PROVE LsInv'
<1> DEFINE wanted == IF Kind.whole /\ Changed(Group) # {} THEN Group ELSE Changed(Group)
           there == {p \in wanted : lsDisk[p] # LsNone}
           taken == IF Kind.keyed THEN there ELSE wanted
           digest == [p \in LsPaths |-> IF p \in taken THEN lsDisk[p] ELSE LsNone]
           todo == lsScan.todo \ Group
           errors == lsScan.errors \/ taken # wanted
<1>1. /\ lsScan.at = "next"
      /\ UNCHANGED <<lsLib, lsDisk, lsRows, lsEditions, lsAlias>>
    BY DEF Probe
<1>2. \/ taken # {} /\ lsScan' = [lsScan EXCEPT !.at = "store", !.taken = taken, !.errors = errors, !.digest = digest]
      \/ lsScan' = [lsScan EXCEPT !.todo = todo, !.errors = TRUE]
      \/ lsScan' = [NoScan EXCEPT !.errors = TRUE]
    BY DEF Probe
<1>3. Group \subseteq lsScan.todo /\ Group \subseteq LsPaths
    BY GroupIsToDo, ScanTyped
<1>4. wanted \subseteq Group /\ taken \subseteq wanted /\ errors \in BOOLEAN
    BY DEF Changed
<1>5. \A p \in Group : p \in wanted \/ (Live(p) /\ lsRows[p].sha = lsDisk[p])
    BY DEF Changed, Unchanged
<1>6. digest \in [LsPaths -> Content] /\ \A p \in taken : digest[p] = lsDisk[p]
    <2>1. lsDisk \in [LsPaths -> Content] /\ LsNone \in Content /\ taken \subseteq LsPaths
        BY <1>3, <1>4, ScanTyped DEF Content
    <2> HIDE DEF taken
    <2> QED
        BY <2>1
<1> HIDE DEF taken, wanted, digest
<1>7. CASE taken # {} /\ lsScan' = [lsScan EXCEPT !.at = "store", !.taken = taken, !.errors = errors, !.digest = digest]
    <2>1. /\ lsScan' \in Scan /\ lsScan'.at = "store" /\ lsScan'.todo = lsScan.todo /\ lsScan'.taken = taken
          /\ lsScan'.found = lsScan.found /\ lsScan'.digest = digest
          /\ lsScan'.whole = lsScan.whole /\ lsScan'.quiet = lsScan.quiet /\ lsScan'.errors = errors
        <3>1. taken \in SUBSET LsPaths
            BY <1>3, <1>4
        <3> HIDE DEF errors
        <3> QED
            BY <1>4, <1>6, <1>7, <3>1, ScanTyped DEF Scan
    <2>2. Group' = Group
        BY <1>1, <2>1 DEF Group, Folder, Kind
    <2>3. Phases'
        BY <1>1, <1>4, <1>7, <2>1, <2>2, ScanTyped DEF Phases
    <2>4. ASSUME lsScan.quiet PROVE QuietPhases'
        <3>1. QuietPhases
            BY <2>4, ScanTyped
        <3>2. NoneGone'
            BY <1>1, <3>1 DEF QuietPhases, NoneGone, Live
        <3>3. ASSUME ~errors PROVE ShownBut((lsScan.todo \ Group) \cup lsScan.taken)'
            <4>1. ShownBut(lsScan.todo) /\ taken = wanted
                BY <1>1, <3>1, <3>3 DEF QuietPhases
            <4>2. ShownBut((lsScan.todo \ Group) \cup taken)
                BY <1>5, <4>1 DEF ShownBut
            <4> QED
                BY <1>1, <2>1, <2>2, <4>2 DEF ShownBut, Live
        <3> HIDE DEF errors
        <3> QED
            BY <1>1, <1>6, <2>1, <2>2, <3>1, <3>2, <3>3 DEF QuietPhases
    <2> QED
        BY <1>1, <2>1, <2>3, <2>4, LibraryStays, ScanStepKeeps
<1>8. CASE lsScan' = [lsScan EXCEPT !.todo = todo, !.errors = TRUE]
    <2>1. /\ lsScan' \in Scan /\ lsScan'.at = "next" /\ lsScan'.todo = todo /\ lsScan'.found = lsScan.found
          /\ lsScan'.whole = lsScan.whole /\ lsScan'.quiet = lsScan.quiet /\ lsScan'.errors
        <3>1. todo \in SUBSET LsPaths
            BY ScanTyped
        <3> HIDE DEF todo
        <3> QED
            BY <1>1, <1>8, <3>1, ScanTyped DEF Scan
    <2>2. Phases'
        BY <1>1, <2>1, ScanTyped DEF Phases
    <2>3. ASSUME lsScan.quiet PROVE QuietPhases'
        <3>1. QuietPhases
            BY <2>3, ScanTyped
        <3>2. NoneGone'
            BY <1>1, <3>1 DEF QuietPhases, NoneGone, Live
        <3> QED
            BY <1>1, <2>1, <3>1, <3>2 DEF QuietPhases
    <2> QED
        BY <1>1, <2>1, <2>2, <2>3, LibraryStays, ScanStepKeeps
<1>9. CASE lsScan' = [NoScan EXCEPT !.errors = TRUE]
    <2>1. lsScan' \in Scan /\ lsScan'.at = "idle" /\ lsScan'.quiet = NoScan.quiet
        BY <1>9, NoScanTyped DEF Scan
    <2> QED
        BY <1>1, <2>1, NoScanTyped, EndKeeps
<1> QED
    BY <1>2, <1>7, <1>8, <1>9

LEMMA StoreIsReady == ASSUME LsInv, lsScan.at = "store" PROVE ReadyToStore
<1>1. lsScan.taken # {} /\ lsScan.taken \subseteq Group
    BY ScanTyped DEF Phases
<1>2. ASSUME Kind.whole, NEW p \in lsScan.taken, NEW q \in lsScan.taken PROVE SourceKey(p) = SourceKey(q)
    <2>1. Folder(p) = Folder(q)
        BY <1>1 DEF Group
    <2>2. SourceKey(p) = Folder(p) /\ SourceKey(q) = Folder(q)
        BY <1>2, ScanTyped, KindFacts
    <2> QED
        BY <2>1, <2>2
<1> QED
    BY <1>1, <1>2, ScanTyped DEF ReadyToStore

\* A folder is handled, stored or not.
LEMMA HandledTyped ==
    ASSUME LsInv
    PROVE  /\ Handled \in Scan /\ Handled.at = "next" /\ Handled.todo = lsScan.todo \ Group /\ Handled.found = lsScan.found
           /\ Handled.whole = lsScan.whole /\ Handled.quiet = lsScan.quiet /\ Handled.errors = lsScan.errors
<1> DEFINE todo == lsScan.todo \ Group
           digest == NoScan.digest
<1>1. todo \in SUBSET LsPaths /\ digest \in [LsPaths -> Content] /\ {} \in SUBSET LsPaths
    BY ScanTyped, NoScanTyped
<1>2. Handled = [lsScan EXCEPT !.at = "next", !.todo = todo, !.taken = {}, !.digest = digest]
    BY DEF Handled
<1> HIDE DEF todo, digest
<1>3. /\ Handled \in Scan /\ Handled.at = "next" /\ Handled.todo = todo /\ Handled.found = lsScan.found
      /\ Handled.whole = lsScan.whole /\ Handled.quiet = lsScan.quiet /\ Handled.errors = lsScan.errors
    BY <1>1, <1>2, ScanTyped DEF Scan
<1> QED
    BY <1>3 DEF todo

LEMMA StoreKeeps == ASSUME LsInv, Store PROVE LsInv'
<1>1. lsScan.at = "store" /\ UNCHANGED <<lsLib, lsDisk>>
    BY DEF Store
<1>2. ReadyToStore /\ StoredUpTo(Transaction, Last)
    BY <1>1, StoreIsReady, TransactionStores
<1>3. CASE Transaction.refused /\ Kind.aborts
    <2>1. lsScan' = [NoScan EXCEPT !.errors = TRUE, !.quiet = lsScan.quiet, !.whole = TRUE]
          /\ UNCHANGED <<lsRows, lsEditions, lsAlias>>
        BY <1>3 DEF Store
    <2>2. lsScan.quiet \in BOOLEAN /\ NoScan \in Scan
        BY ScanTyped, NoScanTyped
    <2>3. lsScan' \in Scan /\ lsScan'.at = "idle" /\ lsScan'.errors
        BY <2>1, <2>2, NoScanTyped DEF Scan
    <2> QED
        BY <1>1, <2>1, <2>3, EndKeeps
<1>4. CASE Transaction.refused /\ ~Kind.aborts
    <2>1. lsScan' = [Handled EXCEPT !.errors = TRUE] /\ UNCHANGED <<lsRows, lsEditions, lsAlias>>
        BY <1>4 DEF Store
    <2>2. /\ lsScan' \in Scan /\ lsScan'.at = "next" /\ lsScan'.todo = lsScan.todo \ Group /\ lsScan'.found = lsScan.found
          /\ lsScan'.whole = lsScan.whole /\ lsScan'.quiet = lsScan.quiet /\ lsScan'.errors
        <3>1. /\ lsScan' \in Scan /\ lsScan'.at = Handled.at /\ lsScan'.todo = Handled.todo /\ lsScan'.found = Handled.found
              /\ lsScan'.whole = Handled.whole /\ lsScan'.quiet = Handled.quiet /\ lsScan'.errors
            BY <2>1, HandledTyped DEF Scan
        <3> QED
            BY <3>1, HandledTyped
    <2>3. Phases'
        BY <1>1, <2>2, ScanTyped DEF Phases
    <2>4. ASSUME lsScan.quiet PROVE QuietPhases'
        <3>1. QuietPhases
            BY <2>4, ScanTyped
        <3>2. NoneGone'
            BY <1>1, <2>1, <3>1 DEF QuietPhases, NoneGone, Live
        <3> QED
            BY <1>1, <2>2, <3>1, <3>2 DEF QuietPhases
    <2> QED
        BY <1>1, <2>1, <2>2, <2>3, <2>4, LibraryStays, ScanStepKeeps
<1>5. CASE ~Transaction.refused
    <2> DEFINE tx == Transaction
    <2>1. lsRows' = tx.rows /\ lsEditions' = tx.editions /\ lsAlias' = tx.alias /\ lsScan' = Handled
        BY <1>5 DEF Store
    <2>2. /\ TxTyped(tx) /\ Homes(tx.rows, tx.editions, tx.alias) /\ Aliased(tx.editions, tx.alias)
          /\ \A q \in LsPaths : IF q \in lsScan.taken /\ q <= Last THEN IsStored(tx.rows[q], q) ELSE IsKept(tx.rows[q], q)
        BY <1>2, <1>5 DEF StoredUpTo
    <2> HIDE DEF tx
    <2>3. \A q \in LsPaths : IF q \in lsScan.taken THEN IsStored(tx.rows[q], q) ELSE IsKept(tx.rows[q], q)
        <3>1. \A q \in LsPaths : q <= Last
            BY PathFacts
        <3> QED
            BY <2>2, <3>1
    <2>4. SameLibrary /\ LibTyped'
        BY <1>1, ScanTyped, LibraryStays, LibTypedStays
    <2>5. Shelved'
        <3> DEFINE rows == tx.rows
                   editions == tx.editions
                   alias == tx.alias
        <3>1. /\ editions \in Seq(Edition) /\ RowsTyped(rows, Len(editions)) /\ alias \in [Keys -> 0..Len(editions)]
              /\ Homes(rows, editions, alias) /\ Aliased(editions, alias)
              /\ lsRows' = rows /\ lsEditions' = editions /\ lsAlias' = alias
            BY <2>1, <2>2 DEF TxTyped, Tx
        <3> HIDE DEF rows, editions, alias
        <3> QED
            BY <2>4, <3>1, ShelvedAnew
    <2>6. /\ lsScan' \in Scan /\ lsScan'.at = "next" /\ lsScan'.todo = lsScan.todo \ Group /\ lsScan'.found = lsScan.found
          /\ lsScan'.whole = lsScan.whole /\ lsScan'.quiet = lsScan.quiet /\ lsScan'.errors = lsScan.errors
        BY <2>1, HandledTyped
    <2>7. Phases'
        BY <1>1, <2>6, ScanTyped DEF Phases
    <2>8. ASSUME lsScan.quiet PROVE QuietPhases'
        <3>1. QuietPhases /\ NoneGone /\ \A p \in LsPaths : lsScan.found[p] = lsDisk[p]
            BY <1>1, <2>8, ScanTyped DEF QuietPhases
        <3>2. \A q \in LsPaths : q \in lsScan.taken => lsDisk[q] # LsNone
            BY <1>1, <3>1, ScanTyped, GroupIsToDo DEF Phases
        <3>3. NoneGone'
            <4>1. ASSUME NEW q \in LsPaths, lsRows'[q].ed # 0, ~lsRows'[q].missing PROVE lsDisk[q] # LsNone
                <5>1. CASE q \in lsScan.taken
                    BY <3>2, <5>1
                <5>2. CASE q \notin lsScan.taken
                    <6>1. lsRows'[q] = lsRows[q]
                        BY <2>1, <2>3, <4>1, <5>2, NoRowTyped DEF IsKept
                    <6> QED
                        BY <3>1, <4>1, <6>1 DEF NoneGone, Live
                <5> QED
                    BY <5>1, <5>2
            <4> QED
                BY <1>1, <4>1 DEF NoneGone, Live
        <3>4. ASSUME ~lsScan.errors PROVE ShownBut(lsScan.todo)'
            <4>1. /\ ShownBut((lsScan.todo \ Group) \cup lsScan.taken)
                  /\ \A p \in lsScan.taken : lsScan.digest[p] = lsDisk[p]
                BY <1>1, <3>1, <3>4 DEF QuietPhases
            <4>2. ASSUME NEW q \in LsPaths, lsDisk[q] # LsNone, q \notin lsScan.todo \ Group
                  PROVE  lsRows'[q].ed # 0 /\ ~lsRows'[q].missing /\ lsRows'[q].sha = lsDisk[q]
                <5>1. CASE q \in lsScan.taken
                    BY <2>1, <2>3, <4>1, <5>1 DEF IsStored
                <5>2. CASE q \notin lsScan.taken
                    <6>1. lsRows'[q] = lsRows[q]
                        BY <2>1, <2>3, <4>2, <5>2 DEF IsKept
                    <6> QED
                        BY <4>1, <4>2, <5>2, <6>1 DEF ShownBut, Live
                <5> QED
                    BY <5>1, <5>2
            <4> QED
                BY <1>1, <2>6, <4>2 DEF ShownBut, Live
        <3> QED
            BY <1>1, <2>6, <3>1, <3>3, <3>4 DEF QuietPhases
    <2> QED
        BY <2>4, <2>5, <2>6, <2>7, <2>8 DEF LsInv
<1> QED
    BY <1>3, <1>4, <1>5

LEMMA LsStutters == ASSUME LsInv, UNCHANGED <<lsLib, lsDisk, lsRows, lsEditions, lsAlias, lsScan>> PROVE LsInv'
<1>1. Phases' /\ (lsScan.quiet => QuietPhases')
    BY ScanTyped DEF Phases, QuietPhases, NoneGone, ShownBut, Live, Group, Folder, Kind
<1> QED
    BY <1>1, ScanTyped, LibraryStays, ScanStepKeeps

LEMMA LsStep == ASSUME LsInv, LsNext PROVE LsInv' /\ SameLibrary
<1>1. CASE \E p \in LsPaths : (\E c \in LsContents \cup {LsNone} : Write(p, c)) \/ \E q \in LsPaths : MoveFile(p, q)
    <2>1. ASSUME NEW p \in LsPaths, NEW c \in Content, Write(p, c) PROVE LsInv' /\ SameLibrary
        <3> DEFINE disk == [lsDisk EXCEPT ![p] = c]
        <3>1. disk \in [LsPaths -> Content] /\ DiskChanges(disk)
            BY <2>1, ScanTyped DEF Write
        <3> HIDE DEF disk
        <3> QED
            BY <3>1, DiskChangesKeeps
    <2>2. ASSUME NEW p \in LsPaths, NEW q \in LsPaths, MoveFile(p, q) PROVE LsInv' /\ SameLibrary
        <3> DEFINE disk == [lsDisk EXCEPT ![p] = LsNone, ![q] = lsDisk[p]]
        <3>1. disk \in [LsPaths -> Content] /\ DiskChanges(disk)
            BY <2>2, ScanTyped DEF MoveFile, Content
        <3> HIDE DEF disk
        <3> QED
            BY <3>1, DiskChangesKeeps
    <2> QED
        BY <1>1, <2>1, <2>2 DEF Content
<1>2. CASE Start
    BY <1>2, StartKeeps
<1>3. CASE WalkDir \/ StatRows \/ MarkMissing \/ Skip \/ Probe \/ Store \/ Finish \/ Cancel
    <2>1. lsLib' = lsLib
        BY <1>3 DEF WalkDir, StatRows, MarkMissing, Skip, Probe, Store, Finish, Cancel
    <2> QED
        BY <1>3, <2>1, WalkDirKeeps, StatRowsKeeps, MarkMissingKeeps, SkipKeeps, ProbeKeeps, StoreKeeps, FinishKeeps, CancelKeeps,
           LibraryStays
<1> QED
    BY <1>1, <1>2, <1>3 DEF LsNext

-----------------------------------------------------------------------------
(* The publication of an import.                                           *)

\* A row is live, and is what is on the disk.
IsProven(row, p) == row.ed # 0 /\ ~row.missing /\ row.sha = lsDisk[p] /\ lsDisk[p] # LsNone

\* What the publication of files leaves alone.
SameEditions(tx, t) == t.editions = tx.editions /\ t.alias = tx.alias /\ t.digest = tx.digest /\ t.edition = tx.edition

LEMMA ApplyFileApplies ==
    ASSUME LibTyped, NEW tx, TxTyped(tx), NEW p \in LsPaths, tx.digest[p] # LsNone,
           tx.refused \/ tx.edition \in 1..Len(tx.editions), NEW t, t = ApplyFile(tx, p)
    PROVE  /\ TxTyped(t) /\ SameEditions(tx, t) /\ (tx.refused => t.refused)
           /\ ~t.refused =>
                /\ IsProven(t.rows[p], p) /\ t.rows[p].ed = tx.edition /\ tx.rows[p].ed \in {0, tx.edition}
                /\ lsDisk[p] = tx.digest[p]
                /\ \A q \in LsPaths : q # p => t.rows[q] = tx.rows[q]
<1> DEFINE row == tx.rows[p]
           stat == lsDisk[p]
           no == FALSE
           upserted == UpsertFile(tx, p, stat, no)
           kept == [row EXCEPT !.sha = tx.digest[p], !.stat = stat]
           rows == [tx.rows EXCEPT ![p] = kept]
<1>1. /\ tx \in Tx /\ RowsTyped(tx.rows, Len(tx.editions)) /\ tx.rows \in [LsPaths -> Row] /\ row \in Row
      /\ stat \in Content /\ tx.digest[p] \in Content /\ no \in BOOLEAN /\ ~no
      /\ tx \in [rows : [LsPaths -> Row], editions : Seq(Edition), alias : [Keys -> Nat], digest : [LsPaths -> Content],
                 work : LsPaths \cup {0}, edition : Nat, refused : BOOLEAN]
    BY DEF TxTyped, Tx, LibTyped, RowsTyped
<1>2. CASE tx.refused \/ lsDisk[p] # tx.digest[p] \/ row.ed \notin {0, tx.edition}
    <2>1. t = [tx EXCEPT !.refused = TRUE]
        BY <1>2 DEF ApplyFile
    <2> QED
        BY <1>1, <2>1 DEF TxTyped, Tx, SameEditions
<1>3. CASE ~(tx.refused \/ lsDisk[p] # tx.digest[p] \/ row.ed \notin {0, tx.edition})
    <2>1. ~tx.refused /\ lsDisk[p] = tx.digest[p] /\ row.ed \in {0, tx.edition} /\ tx.edition # 0 /\ lsDisk[p] # LsNone
        BY <1>3
    <2>2. CASE row.ed # 0 /\ ~row.missing /\ row.sha = tx.digest[p]
        <3>1. t = tx
            BY <1>3, <2>2 DEF ApplyFile
        <3> QED
            BY <2>1, <2>2, <3>1 DEF IsProven, SameEditions
    <2>3. CASE row.ed # 0 /\ ~row.missing /\ row.sha # tx.digest[p] /\ row.sha = LsNone
        <3>1. t = [tx EXCEPT !.rows = rows]
            <4>1. t = [tx EXCEPT !.rows[p].sha = tx.digest[p], !.rows[p].stat = lsDisk[p]]
                BY <1>3, <2>3 DEF ApplyFile
            <4>2. [tx EXCEPT !.rows[p].sha = tx.digest[p], !.rows[p].stat = lsDisk[p]] = [tx EXCEPT !.rows = rows]
                <5> HIDE DEF stat
                <5>1. [[tx.rows EXCEPT ![p].sha = tx.digest[p]] EXCEPT ![p].stat = stat] = rows
                    BY <1>1
                <5> QED
                    BY <1>1, <5>1 DEF stat
            <4> QED
                BY <4>1, <4>2
        <3>2. kept \in Row /\ kept.ed = row.ed /\ kept.sha = tx.digest[p] /\ kept.missing = row.missing
            <4> HIDE DEF row, stat
            <4> QED
                BY <1>1 DEF Row
        <3> HIDE DEF kept
        <3>3. rows \in [LsPaths -> Row] /\ rows[p] = kept /\ \A q \in LsPaths : q # p => rows[q] = tx.rows[q]
            BY <1>1, <3>2
        <3> HIDE DEF rows
        <3>4. t \in Tx /\ t.rows = rows /\ SameEditions(tx, t) /\ t.refused = tx.refused
            BY <1>1, <3>1, <3>3 DEF SameEditions, Tx
        <3>5. RowsTyped(t.rows, Len(t.editions))
            <4>1. \A q \in LsPaths : rows[q].ed = tx.rows[q].ed /\ (rows[q].ed = 0 => rows[q] = tx.rows[q])
                BY <2>3, <3>2, <3>3
            <4> QED
                BY <1>1, <3>3, <3>4, <4>1 DEF RowsTyped, SameEditions
        <3>6. TxTyped(t)
            BY <3>4, <3>5 DEF TxTyped, SameEditions
        <3>7. IsProven(t.rows[p], p) /\ t.rows[p].ed = tx.edition
            BY <2>1, <2>3, <3>2, <3>3, <3>4 DEF IsProven
        <3> QED
            BY <2>1, <3>3, <3>4, <3>6, <3>7
    <2>4. CASE ~(row.ed # 0 /\ ~row.missing /\ row.sha = tx.digest[p]) /\ ~(row.ed # 0 /\ ~row.missing /\ row.sha = LsNone)
        <3>1. t = upserted
            BY <1>3, <2>4 DEF ApplyFile
        <3> HIDE DEF upserted
        <3>2. upserted = UpsertFile(tx, p, stat, no)
            BY DEF upserted
        <3> HIDE DEF stat, no
        <3>3. /\ TxTyped(upserted) /\ SameRest(tx, upserted) /\ Filed(tx, upserted, p)
              /\ \A q \in LsPaths : q # p => upserted.rows[q] = tx.rows[q]
            BY <1>1, <2>1, <3>2, UpsertFileFiles
        <3> QED
            BY <2>1, <3>1, <3>3 DEF SameRest, SameEditions, Filed, IsProven
    <2> QED
        BY <2>2, <2>3, <2>4
<1> QED
    BY <1>2, <1>3

\* What holds of the files of an item up to p, from what there was when its edition was found.
AppliedUpTo(mid, paths, t, p) ==
    /\ TxTyped(t) /\ SameEditions(mid, t)
    /\ ~t.refused =>
        /\ ~mid.refused
        /\ \A q \in LsPaths :
            IF q \in paths /\ q <= p
            THEN /\ IsProven(t.rows[q], q) /\ t.rows[q].ed = mid.edition /\ mid.rows[q].ed \in {0, mid.edition}
                 /\ lsDisk[q] = mid.digest[q]
            ELSE t.rows[q] = mid.rows[q]

\* The transaction when the edition of an item is found, and file by file from there.
ItemBegun(tx, i, paths) == UpsertEdition(InWork(tx, KnownWorks(tx, paths), Title(Min(paths))), 0 - i, paths)
Applying(applied, mid, paths, p) ==
    IF p = 0 THEN mid ELSE IF p \in paths THEN ApplyFile(applied[p - 1], p) ELSE applied[p - 1]

LEMMA PublishItemIsChosen ==
    ASSUME NEW run, NEW tx, NEW i, NEW paths, paths = PlannedFiles(run, i)
    PROVE  PublishItem(run, tx, i) =
             (CHOOSE applied : applied = [p \in 0..Last |-> Applying(applied, ItemBegun(tx, i, paths), paths, p)])[Last]
    BY DEF PublishItem, Applying, ItemBegun, Last

\* An item can be published: its edition, if there is one, exists.
Begun(mid, paths) ==
    /\ LibTyped /\ TxTyped(mid) /\ paths \in SUBSET LsPaths
    /\ \A p \in paths : mid.digest[p] # LsNone
    /\ mid.refused \/ mid.edition \in 1..Len(mid.editions)

LEMMA ApplyingStep ==
    ASSUME NEW mid, NEW paths, Begun(mid, paths), NEW p \in LsPaths, NEW tx, AppliedUpTo(mid, paths, tx, p - 1),
           NEW t, t = IF p \in paths THEN ApplyFile(tx, p) ELSE tx
    PROVE  AppliedUpTo(mid, paths, t, p)
<1>1. p \in Nat /\ \A q \in LsPaths : q \in Nat
    BY PathFacts
<1>2. CASE p \in paths
    <2>1. t = ApplyFile(tx, p)
        BY <1>2
    <2>2. TxTyped(tx) /\ SameEditions(mid, tx) /\ (~tx.refused => ~mid.refused)
        BY DEF AppliedUpTo
    <2>3. tx.digest[p] # LsNone /\ (tx.refused \/ tx.edition \in 1..Len(tx.editions)) /\ LibTyped
        BY <1>2, <2>2 DEF Begun, SameEditions
    <2>4. /\ TxTyped(t) /\ SameEditions(tx, t) /\ (tx.refused => t.refused)
          /\ ~t.refused =>
              /\ IsProven(t.rows[p], p) /\ t.rows[p].ed = tx.edition /\ tx.rows[p].ed \in {0, tx.edition}
              /\ lsDisk[p] = tx.digest[p]
              /\ \A q \in LsPaths : q # p => t.rows[q] = tx.rows[q]
        BY <2>1, <2>2, <2>3, ApplyFileApplies
    <2>5. SameEditions(mid, t) /\ (~t.refused => ~tx.refused /\ ~mid.refused) /\ tx.edition = mid.edition /\ tx.digest = mid.digest
        BY <2>2, <2>4 DEF SameEditions
    <2>6. ASSUME ~t.refused, NEW q \in LsPaths
          PROVE  IF q \in paths /\ q <= p
                 THEN /\ IsProven(t.rows[q], q) /\ t.rows[q].ed = mid.edition /\ mid.rows[q].ed \in {0, mid.edition}
                      /\ lsDisk[q] = mid.digest[q]
                 ELSE t.rows[q] = mid.rows[q]
        <3>1. IF q \in paths /\ q <= p - 1
              THEN /\ IsProven(tx.rows[q], q) /\ tx.rows[q].ed = mid.edition /\ mid.rows[q].ed \in {0, mid.edition}
                   /\ lsDisk[q] = mid.digest[q]
              ELSE tx.rows[q] = mid.rows[q]
            BY <2>5, <2>6 DEF AppliedUpTo
        <3>2. CASE q = p
            <4>1. ~(q <= p - 1)
                BY <1>1, <3>2
            <4>2. tx.rows[p] = mid.rows[p]
                BY <3>1, <3>2, <4>1
            <4> QED
                BY <1>1, <1>2, <2>4, <2>5, <2>6, <3>2, <4>2
        <3>3. CASE q # p
            <4>1. q <= p <=> q <= p - 1
                BY <1>1, <3>3
            <4>2. t.rows[q] = tx.rows[q]
                BY <2>4, <2>6, <3>3
            <4> QED
                BY <3>1, <4>1, <4>2
        <3> QED
            BY <3>2, <3>3
    <2> QED
        BY <2>4, <2>5, <2>6 DEF AppliedUpTo
<1>3. CASE p \notin paths
    <2>1. t = tx
        BY <1>3
    <2>2. \A q \in LsPaths : q \in paths => (q <= p <=> q <= p - 1)
        BY <1>1, <1>3
    <2> QED
        BY <2>1, <2>2 DEF AppliedUpTo
<1> QED
    BY <1>2, <1>3

\* The induction over the files of an item, for any function that is the recursion where it has the type of a transaction.
Applies(g, mid, paths) ==
    g[0] = mid /\ \A p \in 1..Last : TxTyped(Applying(g, mid, paths, p)) => g[p] = Applying(g, mid, paths, p)
AppliedAll(g, mid, paths) ==
    \A p \in 0..Last : AppliedUpTo(mid, paths, g[p], p) /\ g[p] = Applying(g, mid, paths, p)

LEMMA ApplyingApplies ==
    ASSUME NEW mid, NEW paths, Begun(mid, paths), NEW g, Applies(g, mid, paths)
    PROVE  AppliedAll(g, mid, paths)
<1> DEFINE Good(p) == AppliedUpTo(mid, paths, g[p], p) /\ g[p] = Applying(g, mid, paths, p)
           T == {p \in Nat : p <= Last => Good(p)}
<1>1. 0 \in T
    <2>1. TxTyped(mid) /\ \A q \in paths : ~(q <= 0)
        BY PathFacts DEF Begun
    <2>2. AppliedUpTo(mid, paths, mid, 0)
        BY <2>1 DEF AppliedUpTo, SameEditions
    <2> QED
        BY <2>2 DEF Applying, Applies
<1>2. ASSUME NEW k \in Nat, k \in T PROVE k + 1 \in T
    <2>1. SUFFICES ASSUME k + 1 <= Last PROVE Good(k + 1)
        OBVIOUS
    <2> DEFINE p == k + 1
               tx == g[k]
               t == IF p \in paths THEN ApplyFile(tx, p) ELSE tx
    <2>2. p \in 1..Last /\ p # 0 /\ p - 1 = k /\ p \in LsPaths
        BY <2>1, PathFacts
    <2>3. AppliedUpTo(mid, paths, tx, p - 1)
        BY <1>2, <2>1, <2>2, PathFacts
    <2>4. t = Applying(g, mid, paths, p)
        BY <2>2 DEF Applying
    <2>5. AppliedUpTo(mid, paths, t, p)
        <3>1. t = IF p \in paths THEN ApplyFile(tx, p) ELSE tx
            OBVIOUS
        <3> HIDE DEF t, tx, p
        <3> QED
            BY <2>2, <2>3, <3>1, ApplyingStep
    <2>6. TxTyped(t)
        BY <2>5 DEF AppliedUpTo
    <2>7. g[p] = t
        BY <2>2, <2>4, <2>6 DEF Applies
    <2> QED
        BY <2>4, <2>5, <2>7
<1>3. Nat \subseteq T
    <2> HIDE DEF T
    <2> QED
        BY <1>1, <1>2, NaturalsByInduction
<1> QED
    BY <1>3, PathFacts DEF AppliedAll

\* The publication of an item has applied all of its files.
LEMMA ItemApplies ==
    ASSUME NEW run, NEW tx, NEW i, NEW paths, paths = PlannedFiles(run, i), NEW mid, mid = ItemBegun(tx, i, paths),
           Begun(mid, paths)
    PROVE  AppliedUpTo(mid, paths, PublishItem(run, tx, i), Last)
<1> DEFINE S == {x \in Tx : TxTyped(x)}
           next(x, p) == IF p \in paths THEN ApplyFile(x, p) ELSE x
           step == [p \in 1..Last |-> [x \in S |-> IF next(x, p) \in S THEN next(x, p) ELSE x]]
           Is(applied) == applied = [p \in 0..Last |-> Applying(applied, mid, paths, p)]
<1>1. Last \in Nat
    BY PathFacts
<1>2. mid \in S
    BY DEF Begun, TxTyped
<1>3. step \in StepsOf(Last, S)
    <2> HIDE DEF S, next
    <2> QED
        BY DEF StepsOf
<1>4. PICK g : Steps(g, Last, S, mid, step)
    <2> HIDE DEF S, step
    <2> QED
        BY <1>1, <1>2, <1>3, StepsExist
<1>5. g \in [0..Last -> S] /\ g[0] = mid /\ \A p \in 1..Last : g[p] = step[p][g[p - 1]]
    <2> HIDE DEF S, step
    <2> QED
        BY <1>4 DEF Steps
<1>6. \A p \in 1..Last : g[p - 1] \in S /\ p # 0
    <2> HIDE DEF S
    <2> QED
        BY <1>1, <1>5
<1>7. ASSUME NEW p \in 1..Last, TxTyped(Applying(g, mid, paths, p)) PROVE g[p] = Applying(g, mid, paths, p)
    <2>1. Applying(g, mid, paths, p) = next(g[p - 1], p)
        BY <1>6 DEF Applying
    <2>2. Applying(g, mid, paths, p) \in S
        BY <1>7 DEF TxTyped
    <2> HIDE DEF S, next
    <2>3. g[p] = IF next(g[p - 1], p) \in S THEN next(g[p - 1], p) ELSE g[p - 1]
        BY <1>5, <1>6
    <2> QED
        BY <2>1, <2>2, <2>3
<1>8. \A p \in 0..Last : g[p] = Applying(g, mid, paths, p)
    <2>1. Applies(g, mid, paths)
        BY <1>5, <1>7 DEF Applies
    <2> QED
        BY <2>1, ApplyingApplies DEF AppliedAll
<1>9. Is(g)
    <2> HIDE DEF S, step
    <2> QED
        BY <1>5, <1>8
<1> DEFINE f == CHOOSE applied : Is(applied)
<1>10. Is(f)
    <2> HIDE DEF Is
    <2> QED
        BY <1>9
<1>11. PublishItem(run, tx, i) = f[Last]
    BY PublishItemIsChosen
<1> HIDE DEF f
<1>12. 0 \in 0..Last /\ Last \in 0..Last /\ \A p \in 1..Last : p \in 0..Last
    BY <1>1
<1>13. \A p \in 0..Last : f[p] = Applying(f, mid, paths, p)
    BY <1>10
<1>14. f[0] = mid
    BY <1>12, <1>13 DEF Applying
<1>15. \A p \in 0..Last : AppliedUpTo(mid, paths, f[p], p)
    <2>1. Applies(f, mid, paths)
        BY <1>12, <1>13, <1>14 DEF Applies
    <2> QED
        BY <2>1, ApplyingApplies DEF AppliedAll
<1> QED
    BY <1>11, <1>12, <1>15

\* An import that is ready: its files are proved, and its items are of files of their own, in a library that has keys.
CanPublish(run) ==
    /\ LibTyped /\ Shelved /\ run.digest \in [LsPaths -> Content] /\ DOMAIN run.source \subseteq LsPaths
    /\ DOMAIN run.source # {} => Kind.keyed
    /\ \A i, j \in DOMAIN run.source : run.source[i] = run.source[j] => i = j

LEMMA ItemFacts ==
    ASSUME NEW run, CanPublish(run), NEW i \in PlannedItems(run)
    PROVE  /\ i \in LsPaths /\ 0 - i \in Keys /\ OfProvider(0 - i) /\ Kind.keyed
           /\ PlannedFiles(run, i) \in SUBSET LsPaths /\ PlannedFiles(run, i) # {}
           /\ \A p \in PlannedFiles(run, i) : run.digest[p] # LsNone
           /\ \A j \in PlannedItems(run) : j # i =>
                0 - j # 0 - i /\ \A p \in PlannedFiles(run, j) : p \notin PlannedFiles(run, i)
<1>1. i \in DOMAIN run.source /\ i \in LsPaths /\ Kind.keyed /\ PlannedFiles(run, i) # {}
    BY DEF PlannedItems, CanPublish
<1>2. \A j \in PlannedItems(run) : j \in DOMAIN run.source /\ j \in LsPaths
    BY DEF PlannedItems, CanPublish
<1>3. ASSUME NEW j \in PlannedItems(run), j # i, NEW p \in PlannedFiles(run, j) PROVE p \notin PlannedFiles(run, i)
    BY <1>1, <1>2, <1>3 DEF PlannedFiles, CanPublish
<1>4. ASSUME NEW j \in PlannedItems(run), j # i PROVE 0 - j # 0 - i
    BY <1>1, <1>2, <1>4, PathFacts
<1> QED
    BY <1>1, <1>3, <1>4, PathFacts DEF PlannedFiles

\* The library knows an item or one of its files.
KnownItem(run, i) == lsAlias[0 - i] # 0 \/ \E p \in PlannedFiles(run, i) : lsRows[p].ed # 0

\* What holds of an item that is published, and of one that is not yet.
ItemPublished(run, tx, i) ==
    /\ tx.alias[0 - i] # 0
    /\ \A p \in PlannedFiles(run, i) : IsProven(tx.rows[p], p) /\ tx.rows[p].ed = tx.alias[0 - i]
    /\ KnownItem(run, i) => RowsOf(tx.rows, tx.alias[0 - i]) = PlannedFiles(run, i)
ItemWaits(run, tx, i) ==
    tx.alias[0 - i] = lsAlias[0 - i] /\ \A p \in PlannedFiles(run, i) : tx.rows[p] = lsRows[p]

\* What holds of the transaction when the items up to i are published.
PublishedUpTo(run, tx, i) ==
    /\ TxTyped(tx) /\ tx.digest = run.digest
    /\ ~tx.refused =>
        /\ Len(lsEditions) <= Len(tx.editions)
        /\ Homes(tx.rows, tx.editions, tx.alias) /\ Aliased(tx.editions, tx.alias)
        /\ \A p \in LsPaths : /\ tx.rows[p] = lsRows[p] \/ (IsProven(tx.rows[p], p) /\ lsDisk[p] = run.digest[p])
                              /\ lsRows[p].ed # 0 => tx.rows[p].ed = lsRows[p].ed
        /\ \A k \in Keys : ~OfProvider(k) => tx.alias[k] = lsAlias[k]
        /\ PlannedItems(run) = {} => tx = Opened(run.digest)
        /\ \A j \in PlannedItems(run) : IF j <= i THEN ItemPublished(run, tx, j) ELSE ItemWaits(run, tx, j)

\* What a published item changes, by what became of its transaction.
ItemChanges(run, tx, t, i) ==
    LET files == PlannedFiles(run, i)
        e == t.alias[0 - i]
    IN /\ ~tx.refused /\ e \in 1..Len(t.editions) /\ Len(tx.editions) <= Len(t.editions)
       /\ \A k \in Keys : k # 0 - i => t.alias[k] = tx.alias[k]
       /\ \A p \in files : /\ IsProven(t.rows[p], p) /\ t.rows[p].ed = e /\ tx.rows[p].ed \in {0, e}
                            /\ lsDisk[p] = run.digest[p]
       /\ \A p \in LsPaths : p \notin files => t.rows[p] = tx.rows[p]
       /\ \A d \in 1..Len(t.editions) :
            \/ d \in 1..Len(tx.editions) /\ t.editions[d] = tx.editions[d]
            \/ OfProvider(t.editions[d].key)
       /\ Aliased(t.editions, t.alias)
       /\ \/ RowsOf(tx.rows, e) = files
          \/ /\ tx.alias[0 - i] = 0 /\ \A p \in files : tx.rows[p].ed = 0
             /\ e \notin 1..Len(tx.editions) \/ \E p \in LsPaths : tx.rows[p].ed = e /\ tx.rows[p].missing

\* An edition of the files' own rows has no others: those that a provider's key takes over are as many as the files.
LEMMA TakesAll ==
    ASSUME NEW tx, TxTyped(tx), Aliased(tx.editions, tx.alias), Kind.keyed, NEW key \in Keys, tx.alias[key] = 0,
           NEW paths \in SUBSET LsPaths, NEW e, KnownIn(tx, paths) = {e}, Takes(tx, key, paths, e)
    PROVE  RowsOf(tx.rows, e) = paths
<1> DEFINE rows == RowsOf(tx.rows, e)
<1>1. e \in 1..Len(tx.editions) /\ e # 0
    <2>1. e \in 1..Len(tx.editions) /\ Len(tx.editions) \in Nat
        <3>1. KnownIn(tx, paths) \subseteq 1..Len(tx.editions)
            BY KnownFacts
        <3>2. Len(tx.editions) \in Nat
            BY DEF TxTyped, Tx
        <3> QED
            BY <3>1, <3>2
    <2> QED
        BY <2>1
<1>2. tx.alias[tx.editions[e].key] = e
    BY <1>1 DEF Aliased
<1>3. tx.editions[e].key # key
    BY <1>1, <1>2
<1>4. Cardinality(rows) = Cardinality(paths) /\ \A p \in paths : tx.rows[p].ed = e
    BY <1>3 DEF Takes
<1>5. paths \in SUBSET rows /\ rows \in SUBSET LsPaths
    BY <1>4 DEF RowsOf
<1>6. IsFiniteSet(LsPaths)
    BY PathFacts
<1> HIDE DEF rows
<1>7. IsFiniteSet(rows)
    BY <1>5, <1>6, FS_Subset
<1>8. paths = rows
    BY <1>4, <1>5, <1>7, FS_Subset
<1> QED
    BY <1>8 DEF rows

LEMMA PublishItemChanges ==
    ASSUME NEW run, CanPublish(run), NEW i \in PlannedItems(run), NEW tx, TxTyped(tx), tx.digest = run.digest,
           ~tx.refused => Aliased(tx.editions, tx.alias), NEW t, t = PublishItem(run, tx, i)
    PROVE  TxTyped(t) /\ t.digest = run.digest /\ (~t.refused => ItemChanges(run, tx, t, i))
<1> DEFINE paths == PlannedFiles(run, i)
           key == 0 - i
           works == KnownWorks(tx, paths)
           title == Title(Min(paths))
           x == InWork(tx, works, title)
           mid == UpsertEdition(x, key, paths)
           e == mid.edition
<1>1. /\ i \in LsPaths /\ key \in Keys /\ OfProvider(key) /\ Kind.keyed /\ paths \in SUBSET LsPaths /\ paths # {}
      /\ \A p \in paths : run.digest[p] # LsNone
    BY ItemFacts
<1>2. LibTyped
    BY DEF CanPublish
<1> HIDE DEF paths, key
<1>3. works \in SUBSET LsPaths /\ title \in LsPaths
    <2>1. Min(paths) \in LsPaths
        BY <1>1, MinIn
    <2> QED
        BY <1>1, <1>2, <2>1, WorksTyped, KindFacts
<1> HIDE DEF works, title
<1>4. /\ TxTyped(x) /\ x.work \in LsPaths /\ x.rows = tx.rows /\ x.editions = tx.editions /\ x.alias = tx.alias
      /\ x.digest = tx.digest /\ (~x.refused => ~tx.refused)
    BY <1>3, InWorkTyped
<1> HIDE DEF x
<1>5. /\ TxTyped(mid) /\ mid.rows = x.rows /\ mid.digest = x.digest
      /\ mid.refused \/ Placed(x, mid, key, paths)
    <2> HIDE DEF mid
    <2>1. mid = UpsertEdition(x, key, paths)
        BY DEF mid
    <2> QED
        BY <1>1, <1>2, <1>4, <2>1, UpsertEditionPlaces
<1> HIDE DEF mid, e
<1>6. Begun(mid, paths)
    BY <1>1, <1>2, <1>4, <1>5 DEF Begun, Placed
<1>7. AppliedUpTo(mid, paths, t, Last)
    <2>1. paths = PlannedFiles(run, i) /\ mid = ItemBegun(tx, i, paths)
        BY DEF paths, mid, ItemBegun, x, works, title, key
    <2> QED
        BY <1>6, <2>1, ItemApplies
<1>8. TxTyped(t) /\ SameEditions(mid, t) /\ t.digest = run.digest
    BY <1>4, <1>5, <1>7 DEF AppliedUpTo, SameEditions
<1>9. SUFFICES ASSUME ~t.refused PROVE ItemChanges(run, tx, t, i)
    BY <1>8
<1>10. /\ ~mid.refused /\ Placed(x, mid, key, paths) /\ ~x.refused /\ ~tx.refused
       /\ t.editions = mid.editions /\ t.alias = mid.alias /\ e = mid.edition
       /\ \A q \in LsPaths :
            IF q \in paths
            THEN IsProven(t.rows[q], q) /\ t.rows[q].ed = e /\ tx.rows[q].ed \in {0, e} /\ lsDisk[q] = run.digest[q]
            ELSE t.rows[q] = tx.rows[q]
    <2>1. \A q \in LsPaths : q <= Last
        BY PathFacts
    <2>2. ~mid.refused
        BY <1>7, <1>9 DEF AppliedUpTo
    <2>3. Placed(x, mid, key, paths)
        BY <1>5, <2>2
    <2>4. ~x.refused /\ ~tx.refused
        BY <1>4, <2>3 DEF Placed
    <2>5. \A q \in LsPaths :
            IF q \in paths
            THEN IsProven(t.rows[q], q) /\ t.rows[q].ed = e /\ tx.rows[q].ed \in {0, e} /\ lsDisk[q] = run.digest[q]
            ELSE t.rows[q] = tx.rows[q]
        BY <1>4, <1>5, <1>7, <1>9, <2>1 DEF AppliedUpTo, e
    <2> QED
        BY <1>8, <2>2, <2>3, <2>4, <2>5 DEF SameEditions, e
<1>11. e \in 1..Len(t.editions) /\ t.alias[key] = e /\ Len(tx.editions) <= Len(t.editions)
    <2>1. Len(tx.editions) \in Nat /\ Len(t.editions) \in Nat
        BY <1>8 DEF TxTyped, Tx
    <2> QED
        BY <1>1, <1>4, <1>10, <2>1 DEF Placed
<1>12. \A k \in Keys : k # key => t.alias[k] = tx.alias[k]
    BY <1>4, <1>10 DEF Placed
<1>13. ASSUME NEW d \in 1..Len(t.editions)
       PROVE  \/ d \in 1..Len(tx.editions) /\ t.editions[d] = tx.editions[d]
              \/ OfProvider(t.editions[d].key)
    <2>1. Len(tx.editions) \in Nat /\ Len(t.editions) \in Nat
        BY <1>8 DEF TxTyped, Tx
    <2>2. CASE d \in 1..Len(tx.editions)
        BY <1>1, <1>4, <1>10, <2>2 DEF Placed
    <2>3. CASE d \notin 1..Len(tx.editions)
        <3>1. d = e /\ e \notin 1..Len(tx.editions)
            BY <1>4, <1>10, <1>13, <2>1, <2>3 DEF Placed
        <3>2. t.editions[e].key = key
            BY <1>4, <1>10, <3>1 DEF Placed
        <3> QED
            BY <1>1, <3>1, <3>2
    <2> QED
        BY <2>2, <2>3
<1>14. Aliased(t.editions, t.alias) /\ Aliased(x.editions, x.alias)
    BY <1>1, <1>4, <1>5, <1>10, PlacedKeepsAliased
<1>15. \/ RowsOf(tx.rows, e) = paths
       \/ /\ tx.alias[key] = 0 /\ \A p \in paths : tx.rows[p].ed = 0
          /\ e \notin 1..Len(tx.editions) \/ \E p \in LsPaths : tx.rows[p].ed = e /\ tx.rows[p].missing
    <2>1. \/ x.alias[key] # 0 /\ (OfProvider(key) => RowsOf(x.rows, e) = paths)
          \/ x.alias[key] = 0 /\ KnownIn(x, paths) = {e} /\ Takes(x, key, paths, e)
          \/ x.alias[key] = 0 /\ KnownIn(x, paths) = {} /\ e \in MovedIn(x, paths)
          \/ x.alias[key] = 0 /\ KnownIn(x, paths) = {} /\ e = Len(x.editions) + 1
        BY <1>1, <1>10 DEF Placed
    <2>2. KnownIn(x, paths) = {} => \A p \in paths : x.rows[p].ed = 0
        BY <1>1, <1>4, KnownFacts
    <2>3. e \in MovedIn(x, paths) => \E p \in LsPaths : x.rows[p].ed = e /\ x.rows[p].missing
        BY DEF MovedIn
    <2>4. Len(x.editions) \in Nat
        BY <1>4 DEF TxTyped, Tx
    <2>5. CASE x.alias[key] # 0 /\ (OfProvider(key) => RowsOf(x.rows, e) = paths)
        BY <1>1, <1>4, <2>5
    <2>6. CASE x.alias[key] = 0 /\ KnownIn(x, paths) = {e} /\ Takes(x, key, paths, e)
        <3>1. RowsOf(x.rows, e) = paths
            BY <1>1, <1>4, <1>14, <2>6, TakesAll
        <3> QED
            BY <1>4, <3>1
    <2>7. CASE x.alias[key] = 0 /\ KnownIn(x, paths) = {} /\ e \in MovedIn(x, paths)
        BY <1>4, <2>2, <2>3, <2>7
    <2>8. CASE x.alias[key] = 0 /\ KnownIn(x, paths) = {} /\ e = Len(x.editions) + 1
        BY <1>4, <2>2, <2>4, <2>8
    <2> QED
        BY <2>1, <2>5, <2>6, <2>7, <2>8
<1> QED
    BY <1>1, <1>10, <1>11, <1>12, <1>13, <1>14, <1>15 DEF ItemChanges, paths, key

LEMMA ItemStepPublishes ==
    ASSUME NEW run, CanPublish(run), NEW i \in PlannedItems(run), NEW tx, PublishedUpTo(run, tx, i - 1),
           NEW t, t = PublishItem(run, tx, i)
    PROVE  PublishedUpTo(run, t, i)
<1> DEFINE files == PlannedFiles(run, i)
           e == t.alias[0 - i]
<1>1. TxTyped(tx) /\ tx.digest = run.digest /\ (~tx.refused => Aliased(tx.editions, tx.alias))
    BY DEF PublishedUpTo
<1>2. TxTyped(t) /\ t.digest = run.digest /\ (~t.refused => ItemChanges(run, tx, t, i))
    BY <1>1, PublishItemChanges
<1>3. SUFFICES ASSUME ~t.refused
               PROVE  /\ Len(lsEditions) <= Len(t.editions)
                      /\ Homes(t.rows, t.editions, t.alias) /\ Aliased(t.editions, t.alias)
                      /\ \A p \in LsPaths : /\ t.rows[p] = lsRows[p] \/ (IsProven(t.rows[p], p) /\ lsDisk[p] = run.digest[p])
                                            /\ lsRows[p].ed # 0 => t.rows[p].ed = lsRows[p].ed
                      /\ \A k \in Keys : ~OfProvider(k) => t.alias[k] = lsAlias[k]
                      /\ \A j \in PlannedItems(run) : IF j <= i THEN ItemPublished(run, t, j) ELSE ItemWaits(run, t, j)
    BY <1>2 DEF PublishedUpTo
<1>4. /\ ~tx.refused /\ e \in 1..Len(t.editions) /\ Len(tx.editions) <= Len(t.editions)
      /\ \A k \in Keys : k # 0 - i => t.alias[k] = tx.alias[k]
      /\ \A p \in files : /\ IsProven(t.rows[p], p) /\ t.rows[p].ed = e /\ tx.rows[p].ed \in {0, e}
                           /\ lsDisk[p] = run.digest[p]
      /\ \A p \in LsPaths : p \notin files => t.rows[p] = tx.rows[p]
      /\ \A d \in 1..Len(t.editions) :
            \/ d \in 1..Len(tx.editions) /\ t.editions[d] = tx.editions[d]
            \/ OfProvider(t.editions[d].key)
      /\ Aliased(t.editions, t.alias)
      /\ \/ RowsOf(tx.rows, e) = files
         \/ /\ tx.alias[0 - i] = 0 /\ \A p \in files : tx.rows[p].ed = 0
            /\ e \notin 1..Len(tx.editions) \/ \E p \in LsPaths : tx.rows[p].ed = e /\ tx.rows[p].missing
    BY <1>2, <1>3 DEF ItemChanges
<1>5. /\ Len(lsEditions) <= Len(tx.editions) /\ Homes(tx.rows, tx.editions, tx.alias)
      /\ \A p \in LsPaths : /\ tx.rows[p] = lsRows[p] \/ (IsProven(tx.rows[p], p) /\ lsDisk[p] = run.digest[p])
                            /\ lsRows[p].ed # 0 => tx.rows[p].ed = lsRows[p].ed
      /\ \A k \in Keys : ~OfProvider(k) => tx.alias[k] = lsAlias[k]
      /\ \A j \in PlannedItems(run) : IF j <= i - 1 THEN ItemPublished(run, tx, j) ELSE ItemWaits(run, tx, j)
    BY <1>4 DEF PublishedUpTo
<1>6. /\ Len(tx.editions) \in Nat /\ Len(t.editions) \in Nat /\ Len(lsEditions) \in Nat /\ e # 0
      /\ tx.alias \in [Keys -> 0..Len(tx.editions)]
    BY <1>1, <1>2, <1>4, ShelvedFacts DEF TxTyped, Tx, CanPublish
<1>7. /\ i \in LsPaths /\ i \in Nat /\ files \in SUBSET LsPaths /\ files # {}
      /\ \A j \in PlannedItems(run) : /\ j \in Nat /\ 0 - j \in Keys
                                      /\ j # i => 0 - j # 0 - i /\ \A p \in PlannedFiles(run, j) : p \notin files
    <2>1. i \in LsPaths /\ files \in SUBSET LsPaths /\ files # {}
        BY ItemFacts
    <2>2. ASSUME NEW j \in PlannedItems(run)
          PROVE  /\ j \in Nat /\ 0 - j \in Keys
                 /\ j # i => 0 - j # 0 - i /\ \A p \in PlannedFiles(run, j) : p \notin files
        BY ItemFacts, PathFacts
    <2> QED
        BY <2>1, <2>2, PathFacts
<1>8. Len(lsEditions) <= Len(t.editions)
    BY <1>4, <1>5, <1>6
<1>9. ASSUME NEW p \in LsPaths
      PROVE  t.rows[p] = lsRows[p] \/ (IsProven(t.rows[p], p) /\ lsDisk[p] = run.digest[p])
    BY <1>4, <1>5
<1>9a. ASSUME NEW k \in Keys, ~OfProvider(k)
       PROVE  t.alias[k] = lsAlias[k]
    <2>1. OfProvider(0 - i)
        BY ItemFacts
    <2> QED
        BY <1>4, <1>5, <1>9a, <2>1
<1>10. ASSUME NEW p \in LsPaths, tx.rows[p].ed # 0
       PROVE  t.rows[p].ed = tx.rows[p].ed
    BY <1>4, <1>10
<1>11. ASSUME NEW p \in LsPaths, lsRows[p].ed # 0
       PROVE  t.rows[p].ed = lsRows[p].ed
    BY <1>5, <1>10, <1>11
<1>12. Homes(t.rows, t.editions, t.alias)
    <2>1. SUFFICES ASSUME NEW d \in 1..Len(t.editions), ~OfProvider(t.editions[d].key) PROVE HasHome(t.rows, t.alias, d)
        BY DEF Homes
    <2>2. d \in 1..Len(tx.editions) /\ t.editions[d] = tx.editions[d] /\ d # 0
        BY <1>4, <1>6, <2>1
    <2>3. PICK q \in LsPaths : tx.rows[q].ed = d /\ (Kind.keyed => tx.alias[SourceKey(q)] = d)
        BY <1>5, <2>1, <2>2 DEF Homes, HasHome
    <2>4. t.rows[q].ed = d
        BY <1>10, <2>2, <2>3
    <2>5. SourceKey(q) \in Keys /\ SourceKey(q) # 0 - i
        <3>1. SourceKey(q) \in LsPaths
            BY KindFacts DEF CanPublish
        <3> QED
            BY <1>7, <3>1, PathFacts
    <2> QED
        BY <1>4, <2>3, <2>4, <2>5 DEF HasHome
<1>13. ItemPublished(run, t, i)
    <2>1. ASSUME KnownItem(run, i) PROVE RowsOf(t.rows, e) = files
        <3>1. ItemWaits(run, tx, i)
            <4>1. ~(i <= i - 1)
                BY <1>7
            <4> QED
                BY <1>5, <4>1
        <3>2. RowsOf(tx.rows, e) = files
            BY <1>4, <2>1, <3>1 DEF KnownItem, ItemWaits
        <3> QED
            BY <1>4, <1>7, <3>2 DEF RowsOf
    <2> QED
        BY <1>4, <1>6, <2>1 DEF ItemPublished
<1>14. ASSUME NEW j \in PlannedItems(run), j # i, ItemPublished(run, tx, j) PROVE ItemPublished(run, t, j)
    <2> DEFINE a == tx.alias[0 - j]
               fs == PlannedFiles(run, j)
    <2>1. t.alias[0 - j] = a /\ a # 0 /\ a \in 0..Len(tx.editions)
        BY <1>4, <1>6, <1>7, <1>14 DEF ItemPublished
    <2>2. fs \in SUBSET LsPaths /\ fs # {} /\ \A p \in fs : p \notin files
        BY <1>7, <1>14, ItemFacts
    <2>3. \A p \in fs : IsProven(tx.rows[p], p) /\ tx.rows[p].ed = a /\ t.rows[p] = tx.rows[p]
        BY <1>4, <1>14, <2>2 DEF ItemPublished
    <2>4. ASSUME KnownItem(run, j) PROVE RowsOf(t.rows, a) = fs
        <3>1. RowsOf(tx.rows, a) = fs
            BY <1>14, <2>4 DEF ItemPublished
        <3>2. e # a
            <4>1. CASE RowsOf(tx.rows, e) = files
                BY <2>2, <3>1, <4>1
            <4>2. CASE e \notin 1..Len(tx.editions)
                BY <1>6, <2>1, <4>2
            <4>3. CASE \E p \in LsPaths : tx.rows[p].ed = e /\ tx.rows[p].missing
                <5>1. PICK p \in LsPaths : tx.rows[p].ed = e /\ tx.rows[p].missing
                    BY <4>3
                <5>2. p \in fs => ~tx.rows[p].missing
                    BY <2>3 DEF IsProven
                <5> QED
                    BY <3>1, <5>1, <5>2 DEF RowsOf
            <4> QED
                BY <1>4, <4>1, <4>2, <4>3
        <3>3. \A p \in LsPaths : t.rows[p].ed = a <=> tx.rows[p].ed = a
            BY <1>4, <2>1, <3>2
        <3> QED
            BY <3>1, <3>3 DEF RowsOf
    <2> QED
        BY <2>1, <2>3, <2>4 DEF ItemPublished
<1>15. ASSUME NEW j \in PlannedItems(run), j # i, ItemWaits(run, tx, j) PROVE ItemWaits(run, t, j)
    <2>1. t.alias[0 - j] = tx.alias[0 - j]
        BY <1>4, <1>7, <1>15
    <2>2. PlannedFiles(run, j) \in SUBSET LsPaths
        BY ItemFacts
    <2> QED
        BY <1>4, <1>7, <1>15, <2>1, <2>2 DEF ItemWaits
<1>16. ASSUME NEW j \in PlannedItems(run) PROVE IF j <= i THEN ItemPublished(run, t, j) ELSE ItemWaits(run, t, j)
    <2>1. CASE j = i
        BY <1>7, <1>13, <2>1
    <2>2. CASE j # i
        <3>1. j <= i <=> j <= i - 1
            BY <1>7, <2>2
        <3> QED
            BY <1>5, <1>14, <1>15, <2>2, <3>1
    <2> QED
        BY <2>1, <2>2
<1> QED
    BY <1>4, <1>8, <1>9, <1>9a, <1>11, <1>12, <1>16

\* The transaction of an import, item after item.
Publishing(published, run, i) ==
    IF i = 0 THEN Opened(run.digest)
    ELSE IF i \in PlannedItems(run) THEN PublishItem(run, published[i - 1], i) ELSE published[i - 1]

LEMMA PublishedIsChosen ==
    ASSUME NEW run
    PROVE  Published(run) = (CHOOSE published : published = [i \in 0..Last |-> Publishing(published, run, i)])[Last]
    BY DEF Published, Publishing, Last

LEMMA PublishingStarts == ASSUME NEW run, CanPublish(run) PROVE PublishedUpTo(run, Opened(run.digest), 0)
<1> DEFINE tx == Opened(run.digest)
<1>1. Shelved /\ run.digest \in [LsPaths -> Content]
    BY DEF CanPublish
<1>2. TxTyped(tx) /\ tx.rows = lsRows /\ tx.alias = lsAlias /\ tx.editions = lsEditions /\ tx.digest = run.digest
    BY <1>1, OpenedTyped
<1>3. Len(lsEditions) \in Nat /\ Homes(lsRows, lsEditions, lsAlias) /\ Aliased(lsEditions, lsAlias)
    BY <1>1, ShelvedFacts
<1>3a. tx = Opened(run.digest)
    OBVIOUS
<1> HIDE DEF tx
<1>4. \A j \in PlannedItems(run) : ~(j <= 0) /\ ItemWaits(run, tx, j)
    <2>1. \A j \in PlannedItems(run) : j \in LsPaths
        BY ItemFacts
    <2> QED
        BY <1>2, <2>1, PathFacts DEF ItemWaits
<1>5. PublishedUpTo(run, tx, 0)
    BY <1>2, <1>3, <1>3a, <1>4 DEF PublishedUpTo
<1> QED
    BY <1>5 DEF tx

\* The induction over the items, as before.
Publishes(g, run) ==
    g[0] = Opened(run.digest) /\ \A i \in 1..Last : TxTyped(Publishing(g, run, i)) => g[i] = Publishing(g, run, i)
PublishesAll(g, run) == \A i \in 0..Last : PublishedUpTo(run, g[i], i) /\ g[i] = Publishing(g, run, i)

LEMMA PublishingPublishes ==
    ASSUME NEW run, CanPublish(run), NEW g, Publishes(g, run)
    PROVE  PublishesAll(g, run)
<1> DEFINE Good(i) == PublishedUpTo(run, g[i], i) /\ g[i] = Publishing(g, run, i)
           T == {i \in Nat : i <= Last => Good(i)}
<1>1. 0 \in T
    BY PublishingStarts DEF Publishing, Publishes
<1>2. ASSUME NEW k \in Nat, k \in T PROVE k + 1 \in T
    <2>1. SUFFICES ASSUME k + 1 <= Last PROVE Good(k + 1)
        OBVIOUS
    <2> DEFINE i == k + 1
               tx == g[k]
               t == Publishing(g, run, i)
    <2>2. i \in 1..Last /\ i # 0 /\ i - 1 = k /\ i \in LsPaths
        BY <2>1, PathFacts
    <2>3. PublishedUpTo(run, tx, i - 1)
        BY <1>2, <2>1, <2>2, PathFacts
    <2>4. PublishedUpTo(run, t, i)
        <3>1. CASE i \in PlannedItems(run)
            <4>1. t = PublishItem(run, tx, i)
                BY <2>2, <3>1 DEF Publishing
            <4> HIDE DEF t, tx, i
            <4> QED
                BY <2>3, <3>1, <4>1, ItemStepPublishes
        <3>2. CASE i \notin PlannedItems(run)
            <4>1. t = tx
                BY <2>2, <3>2 DEF Publishing
            <4> HIDE DEF t, tx, i
            <4>2. \A j \in PlannedItems(run) : j <= i <=> j <= i - 1
                <5>1. \A j \in PlannedItems(run) : j \in Nat /\ j # i
                    BY <3>2, ItemFacts, PathFacts
                <5> QED
                    BY <2>2, <5>1, PathFacts
            <4> QED
                BY <2>3, <4>1, <4>2 DEF PublishedUpTo
        <3> QED
            BY <3>1, <3>2
    <2>5. TxTyped(t)
        BY <2>4 DEF PublishedUpTo
    <2>6. g[i] = t
        BY <2>2, <2>5 DEF Publishes
    <2> QED
        BY <2>4, <2>6
<1>3. Nat \subseteq T
    <2> HIDE DEF T
    <2> QED
        BY <1>1, <1>2, NaturalsByInduction
<1> QED
    BY <1>3, PathFacts DEF PublishesAll

\* The transaction of an import has published all of its items.
LEMMA PublishedPublishes == ASSUME NEW run, CanPublish(run) PROVE PublishedUpTo(run, Published(run), Last)
<1> DEFINE S == {x \in Tx : TxTyped(x)}
           start == Opened(run.digest)
           next(x, i) == IF i \in PlannedItems(run) THEN PublishItem(run, x, i) ELSE x
           step == [i \in 1..Last |-> [x \in S |-> IF next(x, i) \in S THEN next(x, i) ELSE x]]
           Is(published) == published = [i \in 0..Last |-> Publishing(published, run, i)]
<1>1. Last \in Nat
    BY PathFacts
<1>2. start \in S
    <2>1. TxTyped(start)
        BY PublishingStarts DEF PublishedUpTo
    <2> QED
        BY <2>1 DEF TxTyped
<1>3. step \in StepsOf(Last, S)
    <2> HIDE DEF S, next
    <2> QED
        BY DEF StepsOf
<1>4. PICK g : Steps(g, Last, S, start, step)
    <2> HIDE DEF S, step, start
    <2> QED
        BY <1>1, <1>2, <1>3, StepsExist
<1>5. g \in [0..Last -> S] /\ g[0] = start /\ \A i \in 1..Last : g[i] = step[i][g[i - 1]]
    <2> HIDE DEF S, step, start
    <2> QED
        BY <1>4 DEF Steps
<1>6. \A i \in 1..Last : g[i - 1] \in S /\ i # 0
    <2> HIDE DEF S
    <2> QED
        BY <1>1, <1>5
<1>7. ASSUME NEW i \in 1..Last, TxTyped(Publishing(g, run, i)) PROVE g[i] = Publishing(g, run, i)
    <2>1. Publishing(g, run, i) = next(g[i - 1], i)
        BY <1>6 DEF Publishing
    <2>2. Publishing(g, run, i) \in S
        BY <1>7 DEF TxTyped
    <2> HIDE DEF S, next
    <2>3. g[i] = IF next(g[i - 1], i) \in S THEN next(g[i - 1], i) ELSE g[i - 1]
        BY <1>5, <1>6
    <2> QED
        BY <2>1, <2>2, <2>3
<1>8. \A i \in 0..Last : g[i] = Publishing(g, run, i)
    <2>1. Publishes(g, run)
        BY <1>5, <1>7 DEF Publishes
    <2> QED
        BY <2>1, PublishingPublishes DEF PublishesAll
<1>9. Is(g)
    <2> HIDE DEF S, step, start
    <2> QED
        BY <1>5, <1>8
<1> DEFINE f == CHOOSE published : Is(published)
<1>10. Is(f)
    <2> HIDE DEF Is
    <2> QED
        BY <1>9
<1>11. Published(run) = f[Last]
    BY PublishedIsChosen
<1> HIDE DEF f
<1>12. 0 \in 0..Last /\ Last \in 0..Last /\ \A i \in 1..Last : i \in 0..Last
    BY <1>1
<1>13. \A i \in 0..Last : f[i] = Publishing(f, run, i)
    BY <1>10
<1>14. PublishesAll(f, run)
    <2>1. Publishes(f, run)
        BY <1>12, <1>13 DEF Publishes, Publishing
    <2> QED
        BY <2>1, PublishingPublishes
<1> QED
    BY <1>11, <1>12, <1>14 DEF PublishesAll

LEMMA EditionsStay == ASSUME LsInv, LsNext PROVE Len(lsEditions) \in Nat /\ Len(lsEditions') \in Nat /\ Len(lsEditions) <= Len(lsEditions')
<1>1. Len(lsEditions) \in Nat /\ Len(lsEditions)' \in Nat
    <2>1. Shelved /\ Shelved'
        BY ScanTyped, LsStep DEF LsInv
    <2>2. lsEditions \in Seq(Edition) /\ (lsEditions \in Seq(Edition))'
        BY <2>1 DEF Shelved, TxTyped, Tx, Opened
    <2>3. lsEditions' \in Seq(Edition)
        BY <2>2 DEF Edition
    <2> QED
        BY <2>2, <2>3
<1>2. CASE Store
    <2>1. ReadyToStore /\ StoredUpTo(Transaction, Last)
        BY <1>2, StoreIsReady, TransactionStores DEF Store
    <2>2. lsEditions' = lsEditions \/ (~Transaction.refused /\ lsEditions' = Transaction.editions)
        BY <1>2 DEF Store
    <2> QED
        BY <1>1, <2>1, <2>2 DEF StoredUpTo
<1>3. CASE ~Store
    <2>1. lsEditions' = lsEditions
        BY <1>3 DEF LsNext, Write, MoveFile, DiskChanges, Start, WalkDir, StatRows, MarkMissing, Skip, Probe, Finish, Cancel
    <2> QED
        BY <1>1, <2>1
<1> QED
    BY <1>2, <1>3

-----------------------------------------------------------------------------
(* The inductive invariant of the importers, next to the scanner.          *)

Run == [at : {"idle", "prove", "ready", "published", "refused"}, source : {NoRun.source} \cup Sources,
        unproven : SUBSET LsPaths, digest : [LsPaths -> Content]]
RunsTyped ==
    /\ imRuns \in [ImCallers -> Run]
    /\ \A c \in ImCallers : imRuns[c].at \in {"prove", "ready"} => imRuns[c].source \in Sources
AccountInv ==
    /\ DOMAIN imProgress = imPlaylist /\ imPlaylist \subseteq 1..Len(lsEditions)
    /\ imAccounts \in {0, 1} /\ (imPlaylist # {} => imAccounts = 1)
ImInv == LsInv /\ RunsTyped /\ AccountInv

LEMMA NoRunTyped == NoRun \in Run /\ NoRun.at = "idle"
    BY DEF NoRun, Run, Content

\* What a source is does not change.
LEMMA SourcesStay == ASSUME SameLibrary PROVE Sources' = Sources /\ Run' = Run /\ \A p : Folder(p)' = Folder(p)
<1>1. \A p : Folder(p)' = Folder(p)
    BY DEF SameLibrary, Folder, Kind
<1>2. Sources' = Sources
    BY <1>1 DEF Sources, SameLibrary
<1> QED
    BY <1>1, <1>2 DEF Run

LEMMA ImInitHolds == ASSUME ImInit PROVE ImInv
<1>1. LsInv
    BY LsInitHolds DEF ImInit
<1>2. RunsTyped
    BY NoRunTyped DEF ImInit, RunsTyped
<1>3. AccountInv
    BY DEF ImInit, AccountInv
<1> QED
    BY <1>1, <1>2, <1>3 DEF ImInv

LEMMA ScannerStepKeeps == ASSUME ImInv, LsNext, UNCHANGED imVars PROVE ImInv'
<1>1. LsInv' /\ SameLibrary
    BY LsStep DEF ImInv
<1>2. UNCHANGED <<imRuns, imProgress, imPlaylist, imAccounts>>
    BY DEF imVars
<1>3. RunsTyped'
    BY <1>1, <1>2, SourcesStay DEF ImInv, RunsTyped
<1>4. AccountInv'
    <2>1. Len(lsEditions) \in Nat /\ Len(lsEditions') \in Nat /\ Len(lsEditions) <= Len(lsEditions')
        BY EditionsStay DEF ImInv
    <2>2. 1..Len(lsEditions) \subseteq 1..Len(lsEditions')
        BY <2>1
    <2> QED
        BY <1>2, <2>2 DEF ImInv, AccountInv
<1> QED
    BY <1>1, <1>3, <1>4 DEF ImInv

\* A run that becomes another is typed when that one is.
LEMMA RunChanges ==
    ASSUME RunsTyped, SameLibrary, NEW c \in ImCallers, NEW run, run \in Run,
           run.at \in {"prove", "ready"} => run.source \in Sources, imRuns' = [imRuns EXCEPT ![c] = run]
    PROVE  RunsTyped'
    BY SourcesStay DEF RunsTyped

LEMMA ImportKeeps == ASSUME ImInv, NEW c \in ImCallers, Import(c) PROVE ImInv'
<1>1. /\ lsLib' = [lsLib EXCEPT !.imports = lsLib.imports - 1]
      /\ UNCHANGED <<lsDisk, lsRows, lsEditions, lsAlias, lsScan, lsBefore, imProgress, imPlaylist, imAccounts>>
    BY DEF Import
<1>2. LsInv /\ lsLib \in Library /\ lsScan \in Scan /\ Phases /\ (lsScan.quiet => QuietPhases)
    BY ScanTyped DEF ImInv
<1>3. lsLib' \in Library /\ SameLibrary
    <2>1. lsLib.imports - 1 \in Int
        <3>1. lsLib.imports \in Int
            BY <1>2 DEF Library
        <3> QED
            BY <3>1
    <2> QED
        BY <1>1, <1>2, <2>1 DEF Library, SameLibrary
<1>4. LsInv'
    <2>1. Group' = Group
        BY <1>1, <1>3 DEF Group, Folder, Kind, SameLibrary
    <2>2. Phases' /\ (lsScan.quiet => QuietPhases')
        BY <1>1, <1>2, <2>1 DEF Phases, QuietPhases, NoneGone, ShownBut, Live
    <2> QED
        BY <1>1, <1>2, <1>3, <2>2, ScanStepKeeps
<1>5. RunsTyped'
    <2>1. PICK s \in Sources : imRuns' = [imRuns EXCEPT ![c] = [NoRun EXCEPT !.at = "prove", !.source = s,
              !.unproven = {p \in LsPaths : \E i \in lsLib.items : Folder(p) = s[i]}]]
        BY Zenon DEF Import
    <2> DEFINE unproven == {p \in LsPaths : \E i \in lsLib.items : Folder(p) = s[i]}
               run == [NoRun EXCEPT !.at = "prove", !.source = s, !.unproven = unproven]
    <2>2. unproven \in SUBSET LsPaths
        OBVIOUS
    <2>3. imRuns' = [imRuns EXCEPT ![c] = run]
        BY <2>1
    <2> HIDE DEF unproven
    <2>4. run \in Run /\ run.source \in Sources
        BY <2>2, NoRunTyped DEF Run
    <2> HIDE DEF run
    <2> QED
        BY <1>3, <2>3, <2>4, RunChanges DEF ImInv
<1>6. AccountInv'
    BY <1>1 DEF ImInv, AccountInv
<1> QED
    BY <1>4, <1>5, <1>6 DEF ImInv

\* A step of an import that leaves the library alone.
LEMMA RunStepKeeps ==
    ASSUME ImInv, NEW c \in ImCallers, NEW run, run \in Run, run.at \in {"prove", "ready"} => run.source \in Sources,
           imRuns' = [imRuns EXCEPT ![c] = run], UNCHANGED <<lsVars, imProgress, imPlaylist, imAccounts>>
    PROVE  ImInv'
<1>1. UNCHANGED <<lsLib, lsDisk, lsRows, lsEditions, lsAlias, lsScan>>
    BY DEF lsVars
<1>2. LsInv' /\ SameLibrary
    BY <1>1, LsStutters, LibraryStays DEF ImInv
<1>3. RunsTyped'
    BY <1>2, RunChanges DEF ImInv
<1>4. AccountInv'
    BY <1>1 DEF ImInv, AccountInv
<1> QED
    BY <1>2, <1>3, <1>4 DEF ImInv

LEMMA SnapshotFileKeeps == ASSUME ImInv, NEW c \in ImCallers, SnapshotFile(c) PROVE ImInv'
<1> DEFINE old == imRuns[c]
           p == Min(old.unproven)
           at == IF old.unproven = {p} THEN "ready" ELSE old.at
           digest == [old.digest EXCEPT ![p] = lsDisk[p]]
           unproven == old.unproven \ {p}
           run == [old EXCEPT !.digest = digest, !.unproven = unproven, !.at = at]
<1>1. old \in Run /\ old.at = "prove" /\ old.source \in Sources /\ imRuns \in [ImCallers -> Run]
    BY DEF SnapshotFile, ImInv, RunsTyped
<1>2. imRuns' = [imRuns EXCEPT ![c] = run] /\ UNCHANGED <<lsVars, imProgress, imPlaylist, imAccounts>>
    <2>1. imRuns' = [imRuns EXCEPT ![c].digest[p] = lsDisk[p], ![c].unproven = @ \ {p},
                                   ![c].at = IF imRuns[c].unproven = {p} THEN "ready" ELSE @]
          /\ UNCHANGED <<lsVars, imProgress, imPlaylist, imAccounts>>
        BY DEF SnapshotFile
    <2> HIDE DEF p
    <2>2. imRuns' = [imRuns EXCEPT ![c] = run]
        BY <1>1, <2>1
    <2> QED
        BY <2>1, <2>2
<1>3. digest \in [LsPaths -> Content] /\ unproven \in SUBSET LsPaths /\ at \in {"prove", "ready"}
    <2>1. old.digest \in [LsPaths -> Content] /\ old.unproven \in SUBSET LsPaths /\ lsDisk \in [LsPaths -> Content]
        BY <1>1, ScanTyped DEF Run, ImInv
    <2> HIDE DEF old, p
    <2>2. CASE p \in LsPaths
        BY <1>1, <2>1, <2>2
    <2>3. CASE p \notin LsPaths
        BY <1>1, <2>1, <2>3
    <2> QED
        BY <2>2, <2>3
<1> HIDE DEF old, p, at, digest, unproven
<1>4. run \in Run /\ run.source \in Sources
    BY <1>1, <1>3 DEF Run
<1> HIDE DEF run
<1> QED
    BY <1>2, <1>4, RunStepKeeps

LEMMA AbandonKeeps == ASSUME ImInv, NEW c \in ImCallers, Abandon(c) PROVE ImInv'
    BY NoRunTyped, RunStepKeeps DEF Abandon

LEMMA ReadyCanPublish ==
    ASSUME ImInv, NEW c \in ImCallers, imRuns[c].at = "ready" PROVE CanPublish(imRuns[c])
<1> DEFINE run == imRuns[c]
<1>1. run \in Run /\ run.source \in Sources /\ LibTyped /\ Shelved /\ lsLib \in Library
    BY ScanTyped DEF ImInv, RunsTyped
<1>2. run.digest \in [LsPaths -> Content]
    BY <1>1 DEF Run
<1>3. DOMAIN run.source = lsLib.items /\ \A i, j \in lsLib.items : run.source[i] = run.source[j] => i = j
    BY <1>1 DEF Sources
<1>4. lsLib.items \subseteq LsPaths /\ (lsLib.items # {} => Kind.keyed)
    BY <1>1 DEF Library, LibTyped
<1> QED
    BY <1>1, <1>2, <1>3, <1>4 DEF CanPublish

\* What a publication does to rows, editions and aliases.
LEMMA PublishFacts ==
    ASSUME ImInv, NEW c \in ImCallers, Publish(c), imRuns'[c].at = "published"
    PROVE  /\ ~Published(imRuns[c]).refused /\ PublishedUpTo(imRuns[c], Published(imRuns[c]), Last)
           /\ lsRows' = Published(imRuns[c]).rows /\ lsEditions' = Published(imRuns[c]).editions
           /\ lsAlias' = Published(imRuns[c]).alias
           /\ \A i \in PlannedItems(imRuns[c]) : ItemPublished(imRuns[c], Published(imRuns[c]), i)
<1> DEFINE run == imRuns[c]
           tx == Published(run)
<1>1. run.at = "ready" /\ run \in Run /\ imRuns \in [ImCallers -> Run]
    BY DEF Publish, ImInv, RunsTyped
<1>2. CanPublish(run)
    BY <1>1, ReadyCanPublish
<1>3. PublishedUpTo(run, tx, Last)
    BY <1>2, PublishedPublishes
<1>4. ~tx.refused
    <2>1. SUFFICES ASSUME tx.refused PROVE FALSE
        OBVIOUS
    <2>2. imRuns' = [imRuns EXCEPT ![c] = [run EXCEPT !.at = "refused"]]
        BY <2>1 DEF Publish
    <2>3. imRuns'[c].at = "refused"
        BY <1>1, <2>2 DEF Run
    <2> QED
        BY <2>3
<1>5. lsRows' = tx.rows /\ lsEditions' = tx.editions /\ lsAlias' = tx.alias
    BY <1>4 DEF Publish
<1>6. \A i \in PlannedItems(run) : i <= Last
    <2>1. \A i \in PlannedItems(run) : i \in LsPaths
        BY <1>2, ItemFacts
    <2> QED
        BY <2>1, PathFacts
<1>7. \A i \in PlannedItems(run) : ItemPublished(run, tx, i)
    BY <1>3, <1>4, <1>6 DEF PublishedUpTo
<1> QED
    BY <1>3, <1>4, <1>5, <1>7

LEMMA PublishKeeps == ASSUME ImInv, NEW c \in ImCallers, Publish(c) PROVE ImInv'
<1> DEFINE old == imRuns[c]
           tx == Published(old)
           run == [old EXCEPT !.at = IF tx.refused THEN "refused" ELSE "published"]
<1>1. old \in Run /\ old.at = "ready" /\ imRuns \in [ImCallers -> Run] /\ UNCHANGED <<lsLib, lsDisk, lsScan>>
    BY DEF Publish, ImInv, RunsTyped
<1>2. imRuns' = [imRuns EXCEPT ![c] = run]
    BY DEF Publish
<1>3. run \in Run /\ run.at \in {"refused", "published"}
    <2> HIDE DEF old, tx
    <2> QED
        BY <1>1 DEF Run
<1>4. LsInv /\ SameLibrary
    BY <1>1, LibraryStays DEF ImInv
<1>5. RunsTyped'
    <2> HIDE DEF run
    <2> QED
        BY <1>2, <1>3, <1>4, RunChanges DEF ImInv
<1>6. CASE tx.refused
    <2>1. UNCHANGED <<lsRows, lsEditions, lsAlias, imProgress, imPlaylist, imAccounts>>
        BY <1>6 DEF Publish
    <2>2. LsInv'
        BY <1>1, <1>4, <2>1, LsStutters
    <2>3. AccountInv'
        BY <2>1 DEF ImInv, AccountInv
    <2> QED
        BY <1>5, <2>2, <2>3 DEF ImInv
<1>7. CASE ~tx.refused
    <2>1. imRuns'[c].at = "published"
        <3>1. run.at = "published"
            <4> HIDE DEF old, tx
            <4> QED
                BY <1>1, <1>7 DEF Run
        <3> QED
            BY <1>1, <1>2, <3>1
    <2>2. /\ PublishedUpTo(old, tx, Last) /\ lsRows' = tx.rows /\ lsEditions' = tx.editions /\ lsAlias' = tx.alias
          /\ \A i \in PlannedItems(old) : ItemPublished(old, tx, i)
        BY <2>1, PublishFacts
    <2>3. /\ TxTyped(tx) /\ Len(lsEditions) <= Len(tx.editions)
          /\ Homes(tx.rows, tx.editions, tx.alias) /\ Aliased(tx.editions, tx.alias)
          /\ \A p \in LsPaths : /\ tx.rows[p] = lsRows[p] \/ IsProven(tx.rows[p], p)
                                /\ lsRows[p].ed # 0 => tx.rows[p].ed = lsRows[p].ed
        BY <1>7, <2>2 DEF PublishedUpTo
    <2>4. LsInv'
        <3> DEFINE rows == tx.rows
                   editions == tx.editions
                   alias == tx.alias
        <3>1. /\ editions \in Seq(Edition) /\ RowsTyped(rows, Len(editions)) /\ alias \in [Keys -> 0..Len(editions)]
              /\ Homes(rows, editions, alias) /\ Aliased(editions, alias)
              /\ lsRows' = rows /\ lsEditions' = editions /\ lsAlias' = alias
            BY <2>2, <2>3 DEF TxTyped, Tx
        <3>2. Shelved'
            <4> HIDE DEF rows, editions, alias
            <4> QED
                BY <1>4, <3>1, ShelvedAnew
        <3>3. /\ lsScan \in Scan /\ LibTyped' /\ Phases /\ (lsScan.quiet => QuietPhases)
            BY <1>1, <1>4, ScanTyped, LibTypedStays
        <3>4. \A p \in LsPaths : /\ lsRows'[p] = lsRows[p] \/ IsProven(lsRows'[p], p)
                                 /\ lsRows[p].ed # 0 => lsRows'[p].ed # 0
            BY <2>2, <2>3
        <3>5. Group' = Group
            BY <1>1 DEF Group, Folder, Kind
        <3>6. Phases'
            <4>1. lsScan.at = "mark" => \A p \in lsScan.gone : lsRows'[p].ed # 0
                BY <1>4, <3>3, <3>4, ScanTyped DEF Phases
            <4> QED
                BY <1>1, <3>3, <3>5, <4>1 DEF Phases
        <3>7. ASSUME lsScan.quiet PROVE QuietPhases'
            <4>1. QuietPhases
                BY <3>3, <3>7
            <4>2. \A p \in LsPaths : Live(p)' => Live(p) \/ lsDisk[p] # LsNone
                BY <3>4 DEF Live, IsProven
            <4>3. \A p \in LsPaths : Live(p) /\ lsRows[p].sha = lsDisk[p] => Live(p)' /\ lsRows'[p].sha = lsDisk[p]
                BY <3>4 DEF Live, IsProven
            <4>4. NoneGone => NoneGone'
                BY <1>1, <4>2 DEF NoneGone
            <4>5. /\ ShownBut(lsScan.todo) => ShownBut(lsScan.todo)'
                  /\ ShownBut({}) => ShownBut({})'
                  /\ ShownBut((lsScan.todo \ Group) \cup lsScan.taken) => ShownBut((lsScan.todo \ Group) \cup lsScan.taken)'
                BY <1>1, <3>5, <4>3 DEF ShownBut
            <4>6. lsScan.at = "mark" => \A p \in LsPaths : Live(p)' /\ lsDisk[p] = LsNone => p \in lsScan.gone
                BY <4>1, <4>2 DEF QuietPhases
            <4> QED
                BY <1>1, <3>5, <4>1, <4>4, <4>5, <4>6 DEF QuietPhases
        <3> QED
            BY <1>1, <3>2, <3>3, <3>6, <3>7 DEF LsInv
    <2>5. AccountInv'
        <3> DEFINE known == {tx.alias[0 - i] : i \in PlannedItems(old)}
        <3>1. /\ imProgress' = Republished(known) /\ imPlaylist' = imPlaylist \cup known /\ imAccounts' = ReadersAccount
            BY <1>7 DEF Publish
        <3>2. known \subseteq 1..Len(tx.editions)
            <4>1. CanPublish(old)
                BY <1>1, ReadyCanPublish
            <4>2. ASSUME NEW i \in PlannedItems(old) PROVE tx.alias[0 - i] \in 1..Len(tx.editions)
                <5>1. 0 - i \in Keys /\ tx.alias[0 - i] # 0
                    BY <2>2, <4>1, ItemFacts DEF ItemPublished
                <5>2. tx.alias \in [Keys -> 0..Len(tx.editions)] /\ Len(tx.editions) \in Nat
                    BY <2>3 DEF TxTyped, Tx
                <5> QED
                    BY <5>1, <5>2
            <4> QED
                BY <4>2
        <3>3. Len(lsEditions) \in Nat /\ Len(tx.editions) \in Nat
            BY <1>4, <2>3, ScanTyped, ShelvedFacts DEF TxTyped, Tx
        <3> HIDE DEF known, tx
        <3>4. DOMAIN imProgress' = DOMAIN imProgress \cup known
            BY <3>1 DEF Republished
        <3>5. AccountInv
            BY DEF ImInv
        <3>6. imPlaylist' \subseteq 1..Len(lsEditions')
            BY <2>2, <2>3, <3>1, <3>2, <3>3, <3>5 DEF AccountInv
        <3>7. imAccounts' = 1
            BY <3>1, <3>5 DEF AccountInv, ReadersAccount
        <3> QED
            BY <3>1, <3>4, <3>5, <3>6, <3>7 DEF AccountInv
    <2> QED
        BY <1>5, <2>4, <2>5 DEF ImInv
<1> QED
    BY <1>6, <1>7

LEMMA ImStep == ASSUME ImInv, [ImNext]_<<lsVars, imVars>> PROVE ImInv'
<1>1. CASE LsNext /\ UNCHANGED imVars
    BY <1>1, ScannerStepKeeps
<1>2. CASE \E c \in ImCallers : Import(c) \/ SnapshotFile(c) \/ Abandon(c) \/ Publish(c)
    BY <1>2, ImportKeeps, SnapshotFileKeeps, AbandonKeeps, PublishKeeps
<1>3. CASE UNCHANGED <<lsVars, imVars>>
    <2>1. UNCHANGED <<lsLib, lsDisk, lsRows, lsEditions, lsAlias, lsScan, imRuns, imProgress, imPlaylist, imAccounts>>
        BY <1>3 DEF lsVars, imVars
    <2>2. LsInv' /\ SameLibrary
        BY <2>1, LsStutters, LibraryStays DEF ImInv
    <2>3. RunsTyped' /\ AccountInv'
        BY <2>1, <2>2, SourcesStay DEF ImInv, RunsTyped, AccountInv
    <2> QED
        BY <2>2, <2>3 DEF ImInv
<1> QED
    BY <1>1, <1>2, <1>3 DEF ImNext

-----------------------------------------------------------------------------
(* The editions of content that moves.                                     *)

\* A row of an edition with this content, and the edition a path and its source lead to: one that has such a row, whose
\* files have not given way to others.
Has(row, e, c) == row.ed = e /\ row.sha = c
Leads(rows, alias, c, q, e) ==
    /\ rows[q].ed \in {0, e} /\ alias[SourceKey(q)] \in {0, e}
    /\ \E r \in LsPaths : Has(rows[r], e, c)
    /\ \A r \in LsPaths : Has(rows[r], e, c) => lsDisk[r] \in {c, LsNone}

\* The path that alone holds the content; and what a scan knows of it: no other file of its source, and no live row of its
\* edition elsewhere.
Holds(disk, c, q) == q \in LsPaths /\ At(disk, c) = {q} /\ Alone(disk, q)
Follows(c, q, e) ==
    /\ lsScan.at # "idle" => \A r \in LsPaths : lsScan.found[r] # LsNone /\ SourceKey(r) = SourceKey(q) => r = q
    /\ lsScan.at = "mark" => \A r \in LsPaths : r # q /\ Has(lsRows[r], e, c) => lsRows[r].missing \/ r \in lsScan.gone
    /\ lsScan.at \in {"next", "store"} => \A r \in LsPaths : r # q /\ Has(lsRows[r], e, c) => lsRows[r].missing
    /\ lsScan.at = "store" => \A r \in lsScan.taken :
         (lsScan.digest[r] = c <=> r = q) /\ (r # q => ~Has(lsRows[r], e, c))

\* A scan that stores what it has taken while the content is at q.
StoresMoved(c, q, e) ==
    /\ ReadyToStore /\ Kind.keyed /\ c # LsNone /\ e \in 1..Len(lsEditions)
    /\ Holds(lsDisk, c, q)
    /\ \A r \in lsScan.taken : r # q => SourceKey(r) # SourceKey(q)
    /\ \A r \in lsScan.taken : lsScan.digest[r] = c <=> r = q

\* What the transaction has made of it when the files up to p are stored.
CarriedUpTo(tx, c, q, e) ==
    /\ Leads(tx.rows, tx.alias, c, q, e)
    /\ \A r \in LsPaths : r # q /\ Has(tx.rows[r], e, c) => tx.rows[r].missing /\ r \notin lsScan.taken

\* How a file is stored: in the edition that is found for its unit at the first file, and in its own row.
LEMMA StoreFilePlaces ==
    ASSUME ReadyToStore, NEW p \in lsScan.taken, NEW tx, StoredUpTo(tx, p - 1), NEW t, t = StoreFile(tx, p), ~t.refused
    PROVE  \E mid : /\ TxTyped(mid) /\ mid.rows = tx.rows /\ mid.digest = lsScan.digest /\ Filed(mid, t, p) /\ SameRest(mid, t)
                    /\ ~tx.refused /\ TxTyped(tx) /\ tx.digest = lsScan.digest
                    /\ IF p = Min(Unit(p)) THEN Placed(tx, mid, SourceKey(p), Unit(p)) ELSE mid = tx
<1> DEFINE key == SourceKey(p)
           unit == Unit(p)
           mid == IF p = Min(unit) THEN UpsertEdition(tx, key, unit) ELSE tx
           stat == lsScan.found[p]
           hash == TRUE
<1>1. /\ LibTyped /\ p \in LsPaths /\ key \in Keys /\ unit \in SUBSET LsPaths /\ p \in unit /\ stat \in Content
      /\ lsScan.taken \in SUBSET LsPaths
    <2>1. LibTyped /\ lsScan.taken \in SUBSET LsPaths /\ p \in LsPaths /\ stat \in Content
        BY DEF ReadyToStore
    <2>2. key \in LsPaths
        BY <2>1, KindFacts
    <2>3. unit \in SUBSET LsPaths /\ p \in unit
        BY <2>1 DEF Unit
    <2> QED
        BY <2>1, <2>2, <2>3, PathFacts
<1>2. /\ TxTyped(tx) /\ tx.work \in LsPaths /\ tx.digest = lsScan.digest
    BY DEF StoredUpTo
<1>3. hash \in BOOLEAN /\ t = UpsertFile(mid, p, stat, hash)
    BY DEF StoreFile
<1>4. CASE p = Min(unit)
    <2> DEFINE u == UpsertEdition(tx, key, unit)
    <2>1. mid = u
        BY <1>4
    <2> HIDE DEF mid, u, key, unit, stat, hash
    <2>2. /\ TxTyped(u) /\ u.rows = tx.rows /\ u.digest = tx.digest
          /\ u.refused \/ Placed(tx, u, key, unit)
        BY <1>1, <1>2, UpsertEditionPlaces DEF u
    <2>3. u.refused \/ u.edition \in 1..Len(u.editions)
        BY <2>2 DEF Placed
    <2>4. t = UpsertFile(u, p, stat, hash)
        BY <1>3, <2>1
    <2>5. /\ TxTyped(t) /\ SameRest(u, t)
          /\ ~u.refused => Filed(u, t, p)
        BY <1>1, <1>3, <2>2, <2>3, <2>4, UpsertFileFiles
    <2>6. ~u.refused
        BY <2>5 DEF SameRest
    <2>7. Placed(tx, u, key, unit) /\ ~tx.refused
        BY <2>2, <2>6 DEF Placed
    <2> QED
        BY <1>2, <1>4, <2>2, <2>5, <2>6, <2>7 DEF key, unit
<1>5. CASE p # Min(unit)
    <2>1. mid = tx
        BY <1>5
    <2>2. Kind.whole /\ Min(unit) \in lsScan.taken /\ Min(unit) <= p - 1
        <3>1. Min({p}) = p
            BY <1>1, MinIn
        <3>2. Kind.whole /\ unit = lsScan.taken
            BY <1>5, <3>1 DEF Unit
        <3>3. Min(unit) \in unit /\ Min(unit) <= p
            BY <1>1, MinIn
        <3> QED
            BY <1>1, <1>5, <3>2, <3>3, PathFacts
    <2>3. tx.refused \/ tx.edition \in 1..Len(tx.editions)
        BY <2>2 DEF StoredUpTo
    <2> HIDE DEF mid, key, unit, stat, hash
    <2>4. t = UpsertFile(tx, p, stat, hash)
        BY <1>3, <2>1
    <2>5. /\ TxTyped(t) /\ SameRest(tx, t)
          /\ ~tx.refused => Filed(tx, t, p)
        BY <1>1, <1>2, <1>3, <2>3, <2>4, UpsertFileFiles
    <2>6. ~tx.refused
        BY <2>5 DEF SameRest
    <2> QED
        BY <1>2, <1>5, <2>5, <2>6 DEF key, unit
<1> QED
    BY <1>4, <1>5

\* Storing another file leaves the content where it is.
LEMMA OtherFileCarries ==
    ASSUME NEW c, NEW q, NEW e, StoresMoved(c, q, e), NEW p \in lsScan.taken, p # q, NEW tx, StoredUpTo(tx, p - 1),
           NEW t, t = StoreFile(tx, p), ~t.refused, CarriedUpTo(tx, c, q, e)
    PROVE  CarriedUpTo(t, c, q, e)
<1>1. PICK mid : /\ TxTyped(mid) /\ mid.rows = tx.rows /\ mid.digest = lsScan.digest /\ Filed(mid, t, p) /\ SameRest(mid, t)
                 /\ IF p = Min(Unit(p)) THEN Placed(tx, mid, SourceKey(p), Unit(p)) ELSE mid = tx
    BY StoreFilePlaces DEF StoresMoved
<1>2. LibTyped /\ p \in LsPaths /\ q \in LsPaths /\ lsDisk[q] = c /\ c # LsNone /\ lsScan.digest[p] # c /\ SourceKey(p) # SourceKey(q)
    BY DEF StoresMoved, ReadyToStore, Holds, At
<1>3. SourceKey(q) \in Keys
    BY <1>2, KindFacts, PathFacts
<1>4. t.alias[SourceKey(q)] = tx.alias[SourceKey(q)]
    <2>1. mid.alias[SourceKey(q)] = tx.alias[SourceKey(q)]
        BY <1>1, <1>2, <1>3 DEF Placed
    <2> QED
        BY <1>1, <2>1 DEF SameRest
<1>5. t.rows[p].sha # c
    BY <1>1, <1>2 DEF Filed
<1>6. ASSUME NEW r \in LsPaths, r # p
      PROVE  t.rows[r] = tx.rows[r] \/ (t.rows[r] = NoRow /\ tx.rows[r].sha # c /\ lsDisk[r] = LsNone)
    BY <1>1, <1>2, <1>6 DEF Filed
<1>7. t.rows[q].ed \in {0, e}
    BY <1>2, <1>6, NoRowTyped DEF CarriedUpTo, Leads
<1>8. NoRow.sha # c
    BY <1>2 DEF NoRow
<1>9. ASSUME NEW r \in LsPaths, Has(t.rows[r], e, c) PROVE r # p /\ t.rows[r] = tx.rows[r]
    BY <1>5, <1>6, <1>8, <1>9 DEF Has
<1>10. PICK r \in LsPaths : Has(tx.rows[r], e, c)
    BY DEF CarriedUpTo, Leads
<1>11. Has(t.rows[r], e, c)
    <2>1. r # p
        BY <1>2, <1>10 DEF CarriedUpTo
    <2> QED
        BY <1>6, <1>10, <2>1 DEF Has
<1> QED
    BY <1>4, <1>7, <1>9, <1>11 DEF CarriedUpTo, Leads

\* Storing the file that has moved finds its edition.
LEMMA MovedFileCarries ==
    ASSUME NEW c, NEW q, NEW e, StoresMoved(c, q, e), q \in lsScan.taken, NEW tx, StoredUpTo(tx, q - 1),
           NEW t, t = StoreFile(tx, q), ~t.refused, CarriedUpTo(tx, c, q, e)
    PROVE  CarriedUpTo(t, c, q, e)
<1> DEFINE key == SourceKey(q)
<1>1. /\ LibTyped /\ q \in LsPaths /\ lsDisk[q] = c /\ c # LsNone /\ lsScan.digest[q] = c /\ lsScan.taken \in SUBSET LsPaths
      /\ Kind.keyed
    BY DEF StoresMoved, ReadyToStore, Holds, At
<1>2. key \in Keys /\ ~OfProvider(key)
    <2>1. key \in LsPaths
        BY <1>1, KindFacts
    <2> QED
        BY <2>1, PathFacts
<1>3. Unit(q) = {q} /\ Min(Unit(q)) = q
    <2>1. Unit(q) = {q}
        <3>1. CASE Kind.whole
            <4>1. \A r \in lsScan.taken : SourceKey(r) = SourceKey(q)
                BY <3>1 DEF StoresMoved, ReadyToStore
            <4>2. lsScan.taken = {q}
                BY <4>1 DEF StoresMoved
            <4> QED
                BY <3>1, <4>2 DEF Unit
        <3>2. CASE ~Kind.whole
            BY <3>2 DEF Unit
        <3> QED
            BY <3>1, <3>2
    <2> QED
        BY <1>1, <2>1, MinIn
<1>4. PICK mid : /\ TxTyped(mid) /\ mid.rows = tx.rows /\ mid.digest = lsScan.digest /\ Filed(mid, t, q) /\ SameRest(mid, t)
                 /\ TxTyped(tx) /\ tx.digest = lsScan.digest
                 /\ IF q = Min(Unit(q)) THEN Placed(tx, mid, SourceKey(q), Unit(q)) ELSE mid = tx
    BY StoreFilePlaces DEF StoresMoved
<1>5. Placed(tx, mid, key, {q})
    BY <1>3, <1>4
<1> HIDE DEF key
<1>6. tx.rows[q].ed \in {0, e} /\ tx.alias[key] \in {0, e} /\ e # 0
    <2>1. e # 0
        BY DEF StoresMoved
    <2> QED
        BY <2>1 DEF CarriedUpTo, Leads, key
<1>7. KnownIn(tx, {q}) = IF tx.rows[q].ed = 0 THEN {} ELSE {tx.rows[q].ed}
    BY DEF KnownIn
<1>8. tx.rows[q].ed = 0 => e \in MovedIn(tx, {q})
    <2>1. SUFFICES ASSUME tx.rows[q].ed = 0 PROVE e \in MovedIn(tx, {q})
        OBVIOUS
    <2>2. PICK r \in LsPaths : Has(tx.rows[r], e, c)
        BY DEF CarriedUpTo, Leads
    <2>3. r # q
        BY <1>6, <2>1, <2>2 DEF Has
    <2>4. tx.rows[r].missing /\ tx.rows[r].sha = tx.digest[q] /\ tx.rows[r].ed = e
        BY <1>1, <1>4, <2>2, <2>3 DEF CarriedUpTo, Has
    <2> QED
        BY <2>4 DEF MovedIn
<1>9. mid.edition = e /\ mid.alias[key] = e
    <2>1. mid.alias[key] = mid.edition /\ (tx.alias[key] # 0 => mid.alias[key] = tx.alias[key])
        BY <1>1, <1>2, <1>5 DEF Placed
    <2>2. CASE tx.alias[key] # 0
        BY <1>6, <2>1, <2>2
    <2>3. CASE tx.alias[key] = 0
        <3>1. \/ KnownIn(tx, {q}) = {mid.edition}
              \/ KnownIn(tx, {q}) = {} /\ MovedIn(tx, {q}) = {mid.edition}
              \/ KnownIn(tx, {q}) = {} /\ MovedIn(tx, {q}) = {}
            BY <1>1, <1>5, <2>3 DEF Placed
        <3> QED
            BY <1>6, <1>7, <1>8, <2>1, <3>1
    <2> QED
        BY <2>2, <2>3
<1>10. t.rows[q].ed = e /\ t.rows[q].sha = c /\ t.alias[key] = e
    BY <1>1, <1>4, <1>9 DEF Filed, SameRest
<1>11. ASSUME NEW r \in LsPaths, r # q, Has(t.rows[r], e, c) PROVE Has(tx.rows[r], e, c) /\ t.rows[r] = tx.rows[r]
    <2>1. t.rows[r] # NoRow
        BY <1>6, <1>11, NoRowTyped DEF Has
    <2>2. t.rows[r] = tx.rows[r]
        BY <1>4, <1>11, <2>1 DEF Filed
    <2> QED
        BY <1>11, <2>2
<1>12. Leads(t.rows, t.alias, c, q, e)
    <2>1. \A r \in LsPaths : Has(t.rows[r], e, c) => lsDisk[r] \in {c, LsNone}
        BY <1>1, <1>11 DEF CarriedUpTo, Leads
    <2> QED
        BY <1>1, <1>10, <2>1 DEF Leads, Has, key
<1> QED
    BY <1>11, <1>12 DEF CarriedUpTo

\* The whole transaction, file after file.
LEMMA TransactionCarries ==
    ASSUME NEW c, NEW q, NEW e, StoresMoved(c, q, e), ~Transaction.refused,
           Leads(lsRows, lsAlias, c, q, e),
           \A r \in LsPaths : r # q /\ Has(lsRows[r], e, c) => lsRows[r].missing /\ r \notin lsScan.taken
    PROVE  CarriedUpTo(Transaction, c, q, e)
<1>1. PICK f : Stored(f) /\ Transaction = f[Last]
    BY TransactionSteps DEF StoresMoved
<1>2. Last \in Nat /\ lsScan.taken \subseteq LsPaths /\ LsPaths = 1..Last
    BY PathFacts DEF StoresMoved, ReadyToStore
<1> DEFINE T == {p \in Nat : p <= Last => f[p].refused \/ CarriedUpTo(f[p], c, q, e)}
<1>3. 0 \in T
    <2> DEFINE x == Opened(lsScan.digest)
               paths == Unit(Min(lsScan.taken))
               t == InWork(x, SourceWorks(x, paths), Title(Min(lsScan.taken)))
    <2>1. f[0] = t
        BY <1>1, <1>2 DEF Stored, Storing, InItsWork
    <2>2. ReadyToStore
        BY DEF StoresMoved
    <2>3. Min(lsScan.taken) \in lsScan.taken
        BY <2>2, MinIn DEF ReadyToStore
    <2>4. paths \in SUBSET LsPaths
        BY <1>2, <2>3 DEF Unit
    <2>5. TxTyped(x) /\ x.rows = lsRows /\ x.alias = lsAlias
        BY <2>2, OpenedTyped DEF ReadyToStore
    <2>6. SourceWorks(x, paths) \subseteq LsPaths /\ Title(Min(lsScan.taken)) \in LsPaths
        BY <1>2, <2>2, <2>3, <2>4, <2>5, WorksTyped, KindFacts DEF ReadyToStore
    <2> DEFINE works == SourceWorks(x, paths)
               title == Title(Min(lsScan.taken))
    <2>7. works \in SUBSET LsPaths /\ title \in LsPaths /\ t = InWork(x, works, title)
        BY <2>6
    <2> HIDE DEF x, t, works, title
    <2>8. t.rows = lsRows /\ t.alias = lsAlias
        BY <2>5, <2>7, InWorkTyped
    <2>9. CarriedUpTo(t, c, q, e)
        BY <2>8 DEF CarriedUpTo
    <2> QED
        BY <2>1, <2>9
<1>4. ASSUME NEW k \in Nat, k \in T PROVE k + 1 \in T
    <2>1. SUFFICES ASSUME k + 1 <= Last, ~f[k + 1].refused PROVE CarriedUpTo(f[k + 1], c, q, e)
        OBVIOUS
    <2> DEFINE p == k + 1
               tx == f[k]
               t == f[k + 1]
    <2>2. p \in 0..Last /\ p # 0 /\ p - 1 = k /\ k \in 0..Last /\ p \in LsPaths
        BY <1>2, <2>1
    <2>3. StoredUpTo(tx, p - 1) /\ t = Storing(f, p) /\ StoredUpTo(t, p)
        BY <1>1, <2>2 DEF Stored
    <2>4. tx.refused \/ CarriedUpTo(tx, c, q, e)
        BY <1>4, <2>1, <1>2
    <2>5. CASE p \in lsScan.taken
        <3>1. t = StoreFile(tx, p)
            BY <2>2, <2>3, <2>5 DEF Storing
        <3>2. ReadyToStore /\ ~t.refused
            BY <2>1 DEF StoresMoved
        <3> HIDE DEF p, tx, t
        <3>3. ~tx.refused
            BY <2>3, <2>5, <3>1, <3>2, StoreFilePlaces
        <3>4. CarriedUpTo(t, c, q, e)
            BY <2>3, <2>4, <2>5, <3>1, <3>2, <3>3, OtherFileCarries, MovedFileCarries
        <3> QED
            BY <3>4 DEF t
    <2>6. CASE p \notin lsScan.taken
        <3>1. t = tx
            BY <2>2, <2>3, <2>6 DEF Storing
        <3> QED
            BY <2>1, <2>4, <3>1
    <2> QED
        BY <2>5, <2>6
<1>5. Nat \subseteq T
    <2> HIDE DEF T
    <2> QED
        BY <1>3, <1>4, NaturalsByInduction
<1> QED
    BY <1>1, <1>2, <1>5

\* Games: an edition is a work, and a path's row is of the edition of its title.
GameWorks(rows, editions) ==
    /\ \A d, e \in 1..Len(editions) : editions[d].work = editions[e].work => d = e
    /\ \A p \in LsPaths : rows[p].ed # 0 => editions[rows[p].ed].work = Title(p)
SameWorks(old, new) == Len(old) <= Len(new) /\ \A e \in 1..Len(old) : new[e].work = old[e].work

LEMMA GameFacts == ASSUME LibTyped, ~Kind.keyed PROVE ~Kind.grouped /\ ~Kind.whole
<1> DEFINE k == Kind
<1>1. k \in {BooksLibrary, AudioLibrary, VideoLibrary, MusicLibrary, GamesLibrary} /\ ~k.keyed
    BY DEF LibTyped, Library, Kind
<1> HIDE DEF k
<1>2. k \notin {BooksLibrary, AudioLibrary, VideoLibrary, MusicLibrary}
    BY <1>1 DEF BooksLibrary, AudioLibrary, VideoLibrary, MusicLibrary
<1>3. k = GamesLibrary
    BY <1>1, <1>2
<1>4. ~k.grouped /\ ~k.whole
    BY <1>3 DEF GamesLibrary
<1> QED
    BY <1>4 DEF k

LEMMA WorksAreKept ==
    ASSUME NEW s, s \in Seq(Edition), NEW x, x \in Edition
    PROVE  /\ SameWorks(s, s) /\ SameWorks(s, Append(s, x))
           /\ Len(Append(s, x)) = Len(s) + 1 /\ Append(s, x)[Len(s) + 1] = x /\ \A e \in 1..Len(s) : Append(s, x)[e] = s[e]
<1>1. Len(s) \in Nat
    OBVIOUS
<1>2. /\ Len(Append(s, x)) = Len(s) + 1 /\ Append(s, x)[Len(s) + 1] = x
      /\ \A e \in 1..Len(s) : Append(s, x)[e] = s[e]
    OBVIOUS
<1>3. SameWorks(s, s)
    BY <1>1 DEF SameWorks
<1>4. SameWorks(s, Append(s, x))
    BY <1>1, <1>2 DEF SameWorks
<1> QED
    BY <1>2, <1>3, <1>4

LEMMA GameIsPlaced ==
    ASSUME LibTyped, ~Kind.keyed, NEW p \in LsPaths, NEW key \in Keys, NEW tx, TxTyped(tx), tx.work = Title(p),
           GameWorks(tx.rows, tx.editions), NEW t, t = UpsertEdition(tx, key, {p}), ~t.refused
    PROVE  /\ TxTyped(t) /\ t.rows = tx.rows /\ t.digest = tx.digest /\ t.work = tx.work /\ ~tx.refused
           /\ t.edition \in 1..Len(t.editions) /\ t.editions[t.edition].work = Title(p)
           /\ SameWorks(tx.editions, t.editions) /\ GameWorks(tx.rows, t.editions)
<1> DEFINE eds == ByGame(tx, {p})
           n == Len(tx.editions)
           new == [key |-> key, work |-> tx.work]
<1>1. n \in Nat /\ tx.editions \in Seq(Edition) /\ Title(p) \in LsPaths /\ RowsTyped(tx.rows, n) /\ tx \in Tx
    BY KindFacts DEF TxTyped, Tx
<1>2. {p} \in SUBSET LsPaths /\ tx.work \in LsPaths
    BY <1>1
<1>3. /\ TxTyped(t) /\ t.rows = tx.rows /\ t.digest = tx.digest /\ t.work = tx.work /\ Placed(tx, t, key, {p})
    BY <1>2, UpsertEditionPlaces
<1>4. ~tx.refused /\ t.edition \in 1..Len(t.editions)
    BY <1>3 DEF Placed
<1>5. /\ t.editions = IF eds = {} THEN Append(tx.editions, new) ELSE tx.editions
      /\ t.edition = IF eds = {} THEN n + 1 ELSE CHOOSE e \in eds : TRUE
    <2> DEFINE ed == IF eds = {} THEN n + 1 ELSE CHOOSE e \in eds : TRUE
               written == IF eds = {} THEN Append(tx.editions, new) ELSE tx.editions
               added == [tx EXCEPT !.editions = written, !.alias[key] = @, !.edition = ed]
    <2>1. t = IF tx.refused \/ Cardinality(eds) > 1 THEN [tx EXCEPT !.refused = TRUE] ELSE added
        BY <1>1 DEF UpsertEdition
    <2> HIDE DEF eds, ed, written
    <2>2. [tx EXCEPT !.refused = TRUE].refused
        BY <1>1 DEF Tx
    <2>3. t = added
        BY <2>1, <2>2
    <2>4. added.editions = written /\ added.edition = ed
        BY <1>1 DEF Tx
    <2> QED
        BY <2>3, <2>4 DEF ed, written
<1>6. \A e \in eds : e \in 1..n /\ tx.editions[e].work = Title(p)
    <2>1. \A x \in LsPaths : tx.rows[x].ed \in 0..n
        BY <1>1 DEF RowsTyped
    <2>2. \A e \in KnownIn(tx, {p}) : e \in 1..n /\ tx.editions[e].work = Title(p)
        BY <1>1, <2>1 DEF KnownIn, GameWorks
    <2>3. DOMAIN tx.editions = 1..n
        BY <1>1
    <2> QED
        BY <2>2, <2>3 DEF ByGame
<1>7. \A d, e \in 1..n : tx.editions[d].work = tx.editions[e].work => d = e
    BY DEF GameWorks
<1>8. \A x \in LsPaths : tx.rows[x].ed # 0 => tx.rows[x].ed \in 1..n /\ tx.editions[tx.rows[x].ed].work = Title(x)
    BY <1>1 DEF GameWorks, RowsTyped
<1> HIDE DEF eds, new
<1>9. CASE eds # {}
    <2>1. t.edition \in eds /\ t.editions = tx.editions
        BY <1>5, <1>9
    <2>2. SameWorks(tx.editions, t.editions)
        <3>1. new \in Edition
            BY <1>1 DEF new, Edition
        <3> QED
            BY <1>1, <2>1, <3>1, WorksAreKept
    <2> QED
        BY <1>3, <1>4, <1>6, <2>1, <2>2
<1>10. CASE eds = {}
    <2>1. \A e \in 1..n : tx.editions[e].work # Title(p)
        <3>1. DOMAIN tx.editions = 1..n
            BY <1>1
        <3> QED
            BY <1>10, <3>1 DEF ByGame, eds
    <2>2. new \in Edition /\ new.work = Title(p)
        BY <1>1 DEF new, Edition
    <2>3. t.editions = Append(tx.editions, new) /\ t.edition = n + 1
        BY <1>5, <1>10
    <2>4. /\ Len(t.editions) = n + 1 /\ t.editions[n + 1] = new /\ \A e \in 1..n : t.editions[e] = tx.editions[e]
          /\ SameWorks(tx.editions, t.editions)
        <3> DEFINE s == tx.editions
        <3>1. s \in Seq(Edition) /\ new \in Edition
            BY <1>1, <2>2
        <3>2. t.editions = Append(s, new)
            BY <2>3
        <3> HIDE DEF s
        <3>3. /\ SameWorks(s, Append(s, new))
              /\ Len(Append(s, new)) = Len(s) + 1 /\ Append(s, new)[Len(s) + 1] = new
              /\ \A e \in 1..Len(s) : Append(s, new)[e] = s[e]
            BY <3>1, WorksAreKept
        <3> QED
            BY <3>2, <3>3 DEF s
    <2> HIDE DEF n
    <2>5. ASSUME NEW d \in 1..Len(t.editions), NEW e \in 1..Len(t.editions), t.editions[d].work = t.editions[e].work
          PROVE  d = e
        <3>1. (d \in 1..n \/ d = n + 1) /\ (e \in 1..n \/ e = n + 1)
            BY <1>1, <2>4
        <3>2. CASE d \in 1..n /\ e \in 1..n
            BY <1>7, <2>4, <2>5, <3>2
        <3>3. CASE d \in 1..n /\ e = n + 1
            BY <2>1, <2>2, <2>4, <2>5, <3>3
        <3>4. CASE d = n + 1 /\ e \in 1..n
            BY <2>1, <2>2, <2>4, <2>5, <3>4
        <3> QED
            BY <3>1, <3>2, <3>3, <3>4
    <2>6. \A x \in LsPaths : tx.rows[x].ed # 0 => t.editions[tx.rows[x].ed].work = Title(x)
        BY <1>8, <2>4
    <2>7. GameWorks(tx.rows, t.editions)
        BY <2>5, <2>6 DEF GameWorks
    <2> QED
        BY <1>3, <1>4, <2>2, <2>3, <2>4, <2>7 DEF n
<1> QED
    BY <1>9, <1>10

\* Storing a game.
LEMMA GameIsStored ==
    ASSUME ReadyToStore, ~Kind.keyed, NEW p \in lsScan.taken, NEW tx, TxTyped(tx), tx.work = Title(p),
           GameWorks(tx.rows, tx.editions), NEW t, t = StoreFile(tx, p), ~t.refused
    PROVE  t.work = tx.work /\ GameWorks(t.rows, t.editions) /\ SameWorks(tx.editions, t.editions) /\ ~tx.refused
<1> DEFINE key == SourceKey(p)
           u == UpsertEdition(tx, key, {p})
           stat == lsScan.found[p]
           hash == TRUE
<1>1. LibTyped /\ p \in LsPaths /\ key \in Keys /\ stat \in Content /\ hash \in BOOLEAN
    <2>1. LibTyped /\ p \in LsPaths /\ stat \in Content
        BY DEF ReadyToStore
    <2> QED
        BY <2>1, KindFacts, PathFacts
<1>2. Unit(p) = {p} /\ Min(Unit(p)) = p
    <2>1. Unit(p) = {p}
        BY <1>1, GameFacts DEF Unit
    <2> QED
        BY <1>1, <2>1, MinIn
<1>3. t = UpsertFile(u, p, stat, hash)
    BY <1>2 DEF StoreFile
<1> HIDE DEF key, u, stat, hash
<1>4. {p} \in SUBSET LsPaths /\ tx.work \in LsPaths
    BY <1>1, KindFacts
<1>5. TxTyped(u) /\ (u.refused \/ Placed(tx, u, key, {p}))
    BY <1>1, <1>4, UpsertEditionPlaces DEF u
<1>6. u.refused \/ u.edition \in 1..Len(u.editions)
    BY <1>5 DEF Placed
<1>7. SameRest(u, t) /\ (~u.refused => Filed(u, t, p))
    BY <1>1, <1>3, <1>5, <1>6, UpsertFileFiles
<1>8. ~u.refused
    BY <1>7 DEF SameRest
<1>9. /\ u.rows = tx.rows /\ u.work = tx.work /\ ~tx.refused /\ u.editions[u.edition].work = Title(p)
      /\ SameWorks(tx.editions, u.editions) /\ GameWorks(tx.rows, u.editions)
    BY <1>1, <1>8, GameIsPlaced DEF u
<1>10. \A r \in LsPaths : t.rows[r].ed # 0 => u.editions[t.rows[r].ed].work = Title(r)
    BY <1>7, <1>8, <1>9, NoRowTyped DEF Filed, GameWorks
<1> QED
    BY <1>7, <1>9, <1>10 DEF SameRest, GameWorks

LEMMA TransactionKeepsGames ==
    ASSUME ReadyToStore, ~Kind.keyed, NEW first, lsScan.taken = {first}, ~Transaction.refused, GameWorks(lsRows, lsEditions)
    PROVE  GameWorks(Transaction.rows, Transaction.editions) /\ SameWorks(lsEditions, Transaction.editions)
<1> DEFINE Good(tx) == /\ tx.work = Title(first) /\ GameWorks(tx.rows, tx.editions) /\ SameWorks(lsEditions, tx.editions)
                       /\ Len(tx.editions) \in Nat
<1>1. PICK f : Stored(f) /\ Transaction = f[Last]
    BY TransactionSteps
<1>2. Last \in Nat /\ LsPaths = 1..Last /\ first \in LsPaths
    BY PathFacts DEF ReadyToStore
<1>3. Len(lsEditions) \in Nat
    BY DEF ReadyToStore, Shelved, TxTyped, Tx, Opened
<1> DEFINE T == {p \in Nat : p <= Last => f[p].refused \/ Good(f[p])}
<1>4. 0 \in T
    <2> DEFINE x == Opened(lsScan.digest)
               works == SourceWorks(x, Unit(first))
               title == Title(first)
               t == InWork(x, works, title)
    <2>1. Min(lsScan.taken) = first
        BY <1>2, MinIn
    <2>2. f[0] = t
        BY <1>1, <1>2, <2>1 DEF Stored, Storing, InItsWork
    <2>3. TxTyped(x) /\ x.rows = lsRows /\ x.editions = lsEditions
        BY OpenedTyped DEF ReadyToStore
    <2>4. works = {} /\ title \in LsPaths
        BY <1>2, KindFacts DEF ReadyToStore, SourceWorks
    <2> HIDE DEF x, works, title
    <2>5. t.rows = lsRows /\ t.editions = lsEditions
        BY <2>3, <2>4, InWorkTyped
    <2>6. t.work = title
        BY <2>3, <2>4 DEF InWork, TxTyped, Tx
    <2> HIDE DEF t
    <2>7. Good(t)
        BY <1>3, <2>5, <2>6 DEF SameWorks, title
    <2> QED
        BY <2>2, <2>7
<1>5. ASSUME NEW k \in Nat, k \in T PROVE k + 1 \in T
    <2>1. SUFFICES ASSUME k + 1 <= Last, ~f[k + 1].refused PROVE Good(f[k + 1])
        OBVIOUS
    <2> DEFINE p == k + 1
               tx == f[k]
               t == f[k + 1]
    <2>2. p \in 0..Last /\ p # 0 /\ p - 1 = k /\ k \in 0..Last /\ p \in LsPaths
        BY <1>2, <2>1
    <2>3. StoredUpTo(tx, p - 1) /\ t = Storing(f, p) /\ StoredUpTo(t, p)
        BY <1>1, <2>2 DEF Stored
    <2>4. tx.refused \/ Good(tx)
        BY <1>5, <2>1, <1>2
    <2>5. CASE p \in lsScan.taken
        <3>1. t = StoreFile(tx, p) /\ p = first
            BY <2>2, <2>3, <2>5 DEF Storing
        <3>2. ~t.refused /\ TxTyped(tx) /\ TxTyped(t)
            BY <2>1, <2>3 DEF StoredUpTo
        <3> HIDE DEF p, tx, t
        <3>3. ~tx.refused
            BY <2>3, <2>5, <3>1, <3>2, StoreFilePlaces
        <3>4. t.work = tx.work /\ GameWorks(t.rows, t.editions) /\ SameWorks(tx.editions, t.editions)
            BY <2>4, <2>5, <3>1, <3>2, <3>3, GameIsStored
        <3>5. SameWorks(lsEditions, t.editions) /\ Len(t.editions) \in Nat
            BY <1>3, <2>4, <3>2, <3>3, <3>4 DEF SameWorks, TxTyped, Tx
        <3> QED
            BY <2>4, <3>3, <3>4, <3>5 DEF t
    <2>6. CASE p \notin lsScan.taken
        <3>1. t = tx
            BY <2>2, <2>3, <2>6 DEF Storing
        <3> QED
            BY <2>1, <2>4, <3>1
    <2> QED
        BY <2>5, <2>6
<1>6. Nat \subseteq T
    <2> HIDE DEF T
    <2> QED
        BY <1>4, <1>5, NaturalsByInduction
<1> QED
    BY <1>1, <1>2, <1>6

\* Content that only moved since a scan last showed the disk: where it is, and what leads from there to its edition.
MovedTo(c, q, e) == Holds(lsDisk, c, q) /\ e \in 1..Len(lsEditions) /\ Leads(lsRows, lsAlias, c, q, e) /\ Follows(c, q, e)
Moves ==
    \A c \in lsBefore.moved : \E p, q \in LsPaths : At(lsBefore.disk, c) = {p} /\ MovedTo(c, q, lsBefore.rows[p].ed)
OfGame(p, e) == e \in 1..Len(lsEditions) /\ lsEditions[e].work = Title(p)
Games ==
    /\ GameWorks(lsRows, lsEditions)
    /\ \A c \in lsBefore.moved : \A p \in At(lsBefore.disk, c) : OfGame(p, lsBefore.rows[p].ed)
Before == [disk : [LsPaths -> Content], rows : [LsPaths -> Row], moved : SUBSET LsContents]
MovesInv == lsBefore \in Before /\ IF Kind.keyed THEN Moves ELSE Games

\* A step of a scan that leaves disk, rows and aliases alone.
LEMMA FollowsOn ==
    ASSUME NEW c, NEW q, NEW e, MovedTo(c, q, e), Follows(c, q, e)', SameLibrary, UNCHANGED <<lsDisk, lsRows, lsEditions, lsAlias>>
    PROVE  MovedTo(c, q, e)'
<1>1. Kind' = Kind /\ \A p : SourceKey(p)' = SourceKey(p)
    BY DEF SameLibrary, Kind, SourceKey
<1>2. Holds(lsDisk, c, q)'
    BY <1>1 DEF MovedTo, Holds, At, Alone
<1>3. Leads(lsRows, lsAlias, c, q, e)'
    BY <1>1 DEF MovedTo, Leads, Has
<1> QED
    BY <1>2, <1>3 DEF MovedTo

LEMMA StartFollows ==
    ASSUME LsInv, Start, NEW c, NEW q, NEW e, MovedTo(c, q, e) PROVE MovedTo(c, q, e)'
<1>1. SameLibrary /\ UNCHANGED <<lsDisk, lsRows, lsEditions, lsAlias>>
    BY StartKeeps DEF Start
<1>2. lsScan'.at = "walk" /\ lsScan'.found = NoScan.found
    BY NoScanTyped DEF Start, Scan
<1>3. Follows(c, q, e)'
    BY <1>2, NoScanTyped DEF Follows
<1> QED
    BY <1>1, <1>3, FollowsOn

LEMMA WalkDirFollows ==
    ASSUME LsInv, WalkDir, NEW c, NEW q, NEW e, MovedTo(c, q, e) PROVE MovedTo(c, q, e)'
<1> DEFINE p == Min(lsScan.todo)
           at == IF lsScan.todo = {p} THEN "gone" ELSE "walk"
           found == [lsScan.found EXCEPT ![p] = lsDisk[p]]
<1>1. /\ lsScan.at = "walk" /\ lsScan' = [lsScan EXCEPT !.found = found, !.todo = lsScan.todo \ {p}, !.at = at]
      /\ UNCHANGED <<lsLib, lsDisk, lsRows, lsEditions, lsAlias>>
    BY DEF WalkDir
<1>2. at \in {"gone", "walk"}
    OBVIOUS
<1>3. \A r \in LsPaths : found[r] = lsScan.found[r] \/ found[r] = lsDisk[r]
    BY ScanTyped
<1> HIDE DEF found, at, p
<1>4. lsScan'.at = at /\ lsScan'.found = found
    BY <1>1, ScanTyped DEF Scan
<1>5. SameLibrary /\ \A r : SourceKey(r)' = SourceKey(r)
    BY <1>1, LibraryStays DEF SourceKey, Kind
<1>6. \A r \in LsPaths : found[r] # LsNone /\ SourceKey(r) = SourceKey(q) => r = q
    BY <1>1, <1>3 DEF MovedTo, Follows, Holds, Alone
<1>7. Follows(c, q, e)'
    BY <1>2, <1>4, <1>5, <1>6 DEF Follows
<1> QED
    BY <1>1, <1>5, <1>7, FollowsOn

LEMMA StatRowsFollows ==
    ASSUME LsInv, StatRows, NEW c, c # LsNone, NEW q, NEW e, MovedTo(c, q, e) PROVE MovedTo(c, q, e)'
<1>1. /\ lsScan.at = "gone" /\ lsScan' = [lsScan EXCEPT !.at = "mark", !.gone = Gone]
      /\ UNCHANGED <<lsLib, lsDisk, lsRows, lsEditions, lsAlias>>
    BY DEF StatRows
<1>2. lsScan'.at = "mark" /\ lsScan'.gone = Gone /\ lsScan'.found = lsScan.found
    BY <1>1, ScanTyped DEF Scan
<1>3. SameLibrary /\ \A r : SourceKey(r)' = SourceKey(r)
    BY <1>1, LibraryStays DEF SourceKey, Kind
<1>4. ASSUME NEW r \in LsPaths, r # q, Has(lsRows[r], e, c), ~lsRows[r].missing PROVE r \in Gone
    <2>1. lsDisk[r] \in {c, LsNone}
        BY <1>4 DEF MovedTo, Leads
    <2>2. lsDisk[r] # c
        BY <1>4 DEF MovedTo, Holds, At
    <2>3. lsRows[r].ed # 0
        BY <1>4 DEF MovedTo, Has
    <2> QED
        BY <1>4, <2>1, <2>2, <2>3 DEF Gone, Live
<1>5. \A r \in LsPaths : lsScan.found[r] # LsNone /\ SourceKey(r) = SourceKey(q) => r = q
    BY <1>1 DEF MovedTo, Follows
<1>6. Follows(c, q, e)'
    BY <1>1, <1>2, <1>3, <1>4, <1>5 DEF Follows
<1> QED
    BY <1>1, <1>3, <1>6, FollowsOn

LEMMA MarkMissingFollows ==
    ASSUME LsInv, MarkMissing, NEW c, NEW q, NEW e, MovedTo(c, q, e) PROVE MovedTo(c, q, e)'
<1>1. lsScan.at = "mark" /\ UNCHANGED <<lsLib, lsDisk, lsEditions, lsAlias>>
    BY DEF MarkMissing
<1>2. lsScan'.at = "next" /\ lsScan'.found = lsScan.found
    BY ScanTyped DEF MarkMissing, Scan
<1>3. SameLibrary /\ \A r : SourceKey(r)' = SourceKey(r)
    BY <1>1, LibraryStays DEF SourceKey, Kind
<1>4. ASSUME NEW r \in LsPaths
      PROVE  /\ lsRows'[r].ed = lsRows[r].ed /\ lsRows'[r].sha = lsRows[r].sha
             /\ lsRows[r].missing \/ r \in lsScan.gone => lsRows'[r].missing
    <2>1. lsRows[r] \in Row
        BY ScanTyped, ShelvedFacts
    <2>2. lsRows'[r] = IF r \in lsScan.gone THEN [lsRows[r] EXCEPT !.missing = TRUE] ELSE lsRows[r]
        BY DEF MarkMissing
    <2> QED
        BY <2>1, <2>2 DEF Row
<1>5. \A r \in LsPaths : Has(lsRows'[r], e, c) <=> Has(lsRows[r], e, c)
    BY <1>4 DEF Has
<1>6. \A r \in LsPaths : r # q /\ Has(lsRows[r], e, c) => lsRows[r].missing \/ r \in lsScan.gone
    BY <1>1 DEF MovedTo, Follows
<1>7. Follows(c, q, e)'
    <2>1. \A r \in LsPaths : lsScan.found[r] # LsNone /\ SourceKey(r) = SourceKey(q) => r = q
        BY <1>1 DEF MovedTo, Follows
    <2>2. \A r \in LsPaths : r # q /\ Has(lsRows'[r], e, c) => lsRows'[r].missing
        BY <1>4, <1>5, <1>6
    <2> QED
        BY <1>2, <1>3, <2>1, <2>2 DEF Follows
<1>8. q \in LsPaths /\ Holds(lsDisk, c, q)'
    BY <1>1, <1>3 DEF MovedTo, Holds, At, Alone
<1>9. Leads(lsRows, lsAlias, c, q, e)'
    <2>1. Leads(lsRows, lsAlias, c, q, e)
        BY DEF MovedTo
    <2>2. Leads(lsRows', lsAlias', c, q, e)
        BY <1>1, <1>3, <1>4, <1>5, <1>8, <2>1 DEF Leads
    <2> QED
        BY <1>1, <1>3, <2>2 DEF Leads, Has
<1> QED
    BY <1>1, <1>7, <1>8, <1>9 DEF MovedTo

LEMMA SkipFollows ==
    ASSUME LsInv, Skip, NEW c, NEW q, NEW e, MovedTo(c, q, e) PROVE MovedTo(c, q, e)'
<1> DEFINE todo == lsScan.todo \ Group
<1>1. /\ lsScan.at = "next" /\ lsScan' = [lsScan EXCEPT !.todo = todo]
      /\ UNCHANGED <<lsLib, lsDisk, lsRows, lsEditions, lsAlias>>
    BY DEF Skip
<1> HIDE DEF todo
<1>2. lsScan'.at = "next" /\ lsScan'.found = lsScan.found
    BY <1>1, ScanTyped DEF Scan
<1>3. SameLibrary /\ \A r : SourceKey(r)' = SourceKey(r)
    BY <1>1, LibraryStays DEF SourceKey, Kind
<1>4. Follows(c, q, e)
    BY DEF MovedTo
<1>5. Follows(c, q, e)'
    BY <1>1, <1>2, <1>3, <1>4 DEF Follows
<1> QED
    BY <1>1, <1>3, <1>5, FollowsOn

LEMMA ProbeFollows ==
    ASSUME LsInv, Kind.keyed, Probe, NEW c, c # LsNone, NEW q, NEW e, MovedTo(c, q, e) PROVE MovedTo(c, q, e)'
<1> DEFINE wanted == IF Kind.whole /\ Changed(Group) # {} THEN Group ELSE Changed(Group)
           taken == {p \in wanted : lsDisk[p] # LsNone}
           digest == [p \in LsPaths |-> IF p \in taken THEN lsDisk[p] ELSE LsNone]
           todo == lsScan.todo \ Group
           errors == lsScan.errors \/ taken # wanted
<1>1. /\ lsScan.at = "next"
      /\ UNCHANGED <<lsLib, lsDisk, lsRows, lsEditions, lsAlias>>
    BY DEF Probe
<1>2. \/ lsScan' = [lsScan EXCEPT !.at = "store", !.taken = taken, !.errors = errors, !.digest = digest]
      \/ lsScan' = [lsScan EXCEPT !.todo = todo, !.errors = TRUE]
      \/ lsScan' = [NoScan EXCEPT !.errors = TRUE]
    BY DEF Probe
<1>3. taken \subseteq LsPaths /\ \A p \in taken : lsDisk[p] # LsNone /\ digest[p] = lsDisk[p]
    <2>1. Group \subseteq LsPaths
        BY GroupIsToDo, ScanTyped
    <2>2. taken \subseteq LsPaths
        BY <2>1 DEF Changed
    <2> QED
        BY <2>2
<1>4. SameLibrary /\ \A r : SourceKey(r)' = SourceKey(r)
    BY <1>1, LibraryStays DEF SourceKey, Kind
<1>5. Follows(c, q, e)
    BY DEF MovedTo
<1> HIDE DEF wanted, taken, digest, todo, errors
<1>6. CASE lsScan' = [lsScan EXCEPT !.at = "store", !.taken = taken, !.errors = errors, !.digest = digest]
    <2>1. lsScan'.at = "store" /\ lsScan'.taken = taken /\ lsScan'.digest = digest /\ lsScan'.found = lsScan.found
        BY <1>6, ScanTyped DEF Scan
    <2>2. ASSUME NEW r \in taken PROVE (digest[r] = c <=> r = q) /\ (r # q => ~Has(lsRows[r], e, c))
        <3>1. digest[r] = c <=> r = q
            BY <1>3 DEF MovedTo, Holds, At
        <3>2. ASSUME r # q, Has(lsRows[r], e, c) PROVE FALSE
            BY <1>3, <3>1, <3>2 DEF MovedTo, Leads
        <3> QED
            BY <3>1, <3>2
    <2>3. Follows(c, q, e)'
        BY <1>1, <1>4, <1>5, <2>1, <2>2 DEF Follows, Has
    <2> QED
        BY <1>1, <1>4, <2>3, FollowsOn
<1>7. CASE lsScan' = [lsScan EXCEPT !.todo = todo, !.errors = TRUE]
    <2>1. lsScan'.at = "next" /\ lsScan'.found = lsScan.found
        BY <1>1, <1>7, ScanTyped DEF Scan
    <2>2. Follows(c, q, e)'
        BY <1>1, <1>4, <1>5, <2>1 DEF Follows
    <2> QED
        BY <1>1, <1>4, <2>2, FollowsOn
<1>8. CASE lsScan' = [NoScan EXCEPT !.errors = TRUE]
    <2>1. lsScan'.at = "idle"
        BY <1>8, NoScanTyped DEF Scan
    <2>2. Follows(c, q, e)'
        BY <2>1 DEF Follows
    <2> QED
        BY <1>1, <1>4, <2>2, FollowsOn
<1> QED
    BY <1>2, <1>6, <1>7, <1>8

LEMMA StoreFollows ==
    ASSUME LsInv, Kind.keyed, Store, NEW c, c # LsNone, NEW q, NEW e, MovedTo(c, q, e) PROVE MovedTo(c, q, e)'
<1>1. lsScan.at = "store" /\ UNCHANGED <<lsLib, lsDisk>> /\ ReadyToStore
    BY StoreIsReady DEF Store
<1>2. SameLibrary /\ Kind' = Kind /\ \A r : SourceKey(r)' = SourceKey(r)
    BY <1>1, LibraryStays DEF SourceKey, Kind
<1>3. Follows(c, q, e) /\ Leads(lsRows, lsAlias, c, q, e) /\ Holds(lsDisk, c, q) /\ e \in 1..Len(lsEditions)
    BY DEF MovedTo
<1>4. \A r \in LsPaths : lsScan.found[r] # LsNone /\ SourceKey(r) = SourceKey(q) => r = q
    BY <1>1, <1>3 DEF Follows
<1>5. CASE Transaction.refused
    <2>1. UNCHANGED <<lsRows, lsEditions, lsAlias>>
        BY <1>5 DEF Store
    <2>2. lsScan' = [NoScan EXCEPT !.errors = TRUE, !.quiet = lsScan.quiet, !.whole = TRUE] \/ lsScan' = [Handled EXCEPT !.errors = TRUE]
        BY <1>5 DEF Store
    <2>3. lsScan'.at = "idle" \/ (lsScan'.at = "next" /\ lsScan'.found = lsScan.found)
        BY <2>2, NoScanTyped, HandledTyped DEF Scan
    <2>4. Follows(c, q, e)'
        BY <1>1, <1>2, <1>3, <2>1, <2>3 DEF Follows
    <2> QED
        BY <1>1, <1>2, <2>1, <2>4, FollowsOn
<1>6. CASE ~Transaction.refused
    <2> DEFINE tx == Transaction
    <2>1. lsRows' = tx.rows /\ lsEditions' = tx.editions /\ lsAlias' = tx.alias /\ lsScan' = Handled
        BY <1>6 DEF Store
    <2>2. \A r \in lsScan.taken : r \in LsPaths /\ lsScan.found[r] # LsNone
        BY <1>1, ScanTyped, GroupIsToDo DEF Phases
    <2>3. /\ \A r \in lsScan.taken : r # q => SourceKey(r) # SourceKey(q)
          /\ \A r \in lsScan.taken : lsScan.digest[r] = c <=> r = q
        BY <1>1, <1>3, <1>4, <2>2 DEF Follows
    <2>4. StoresMoved(c, q, e)
        BY <1>1, <1>3, <2>3 DEF StoresMoved
    <2>5. \A r \in LsPaths : r # q /\ Has(lsRows[r], e, c) => lsRows[r].missing /\ r \notin lsScan.taken
        BY <1>1, <1>3 DEF Follows
    <2>6. CarriedUpTo(tx, c, q, e)
        BY <1>3, <1>6, <2>4, <2>5, TransactionCarries
    <2>7. Len(lsEditions) <= Len(tx.editions) /\ Len(lsEditions) \in Nat /\ Len(tx.editions) \in Nat
        <3>1. StoredUpTo(tx, Last)
            BY <1>1, TransactionStores
        <3> QED
            BY <1>1, <1>6, <3>1, ShelvedFacts DEF StoredUpTo, TxTyped, Tx, ReadyToStore
    <2>8. lsScan'.at = "next" /\ lsScan'.found = lsScan.found
        BY <2>1, HandledTyped
    <2> HIDE DEF tx
    <2>9. Follows(c, q, e)'
        BY <1>2, <1>4, <2>1, <2>6, <2>8 DEF Follows, CarriedUpTo, Has
    <2>10. Leads(lsRows, lsAlias, c, q, e)'
        BY <1>1, <1>2, <2>1, <2>6 DEF CarriedUpTo, Leads, Has
    <2>11. Holds(lsDisk, c, q)'
        BY <1>1, <1>2, <1>3 DEF Holds, At, Alone
    <2>12. e \in 1..Len(lsEditions')
        BY <1>3, <2>1, <2>7
    <2> QED
        BY <2>9, <2>10, <2>11, <2>12 DEF MovedTo
<1> QED
    BY <1>5, <1>6

\* The end of a scan, by itself or cancelled.
LEMMA EndFollows ==
    ASSUME NEW c, NEW q, NEW e, MovedTo(c, q, e), lsScan'.at = "idle", SameLibrary, UNCHANGED <<lsDisk, lsRows, lsEditions, lsAlias>>
    PROVE  MovedTo(c, q, e)'
<1>1. Follows(c, q, e)'
    BY DEF Follows
<1> QED
    BY <1>1, FollowsOn

\* The steps of a scan but the one that shows the disk.
LEMMA ScanFollows ==
    ASSUME LsInv, Kind.keyed, Start \/ WalkDir \/ StatRows \/ MarkMissing \/ Skip \/ Probe \/ Store \/ Finish \/ Cancel,
           NEW c, c # LsNone, NEW q, NEW e, MovedTo(c, q, e)
    PROVE  MovedTo(c, q, e)'
<1>1. CASE Finish
    <2>1. lsScan'.at = "idle" /\ UNCHANGED <<lsLib, lsDisk, lsRows, lsEditions, lsAlias>>
        BY <1>1, NoScanTyped DEF Finish, Scan
    <2> QED
        BY <2>1, LibraryStays, EndFollows
<1>2. CASE Cancel
    <2>1. lsScan'.at = "idle" /\ UNCHANGED <<lsLib, lsDisk, lsRows, lsEditions, lsAlias>>
        BY <1>2, NoScanTyped DEF Cancel, Scan
    <2> QED
        BY <2>1, LibraryStays, EndFollows
<1> QED
    BY <1>1, <1>2, StartFollows, WalkDirFollows, StatRowsFollows, MarkMissingFollows, SkipFollows, ProbeFollows, StoreFollows

\* Content is kept: by the edition that a path is of, or that the rows still lead to.
LEMMA KeptIsLed ==
    ASSUME NEW disk, NEW c, NEW e, IsKeptBy(disk, c, e)
    PROVE  \E q \in LsPaths :
            /\ Holds(disk, c, q) /\ lsRows[q].ed \in {0, e} /\ lsAlias[SourceKey(q)] \in {0, e}
            /\ \A r \in LsPaths : Has(lsRows[r], e, c) => disk[r] \in {c, LsNone}
    BY DEF IsKeptBy, Holds, Has

LEMMA DiskChangesFollows ==
    ASSUME LsInv, NEW disk, DiskChanges(disk), NEW c, NEW q, NEW e, MovedTo(c, q, e), IsKeptBy(disk, c, e),
           lsScan.at = "idle" \/ At(disk, c) = At(lsDisk, c), SameLibrary
    PROVE  \E r \in LsPaths : MovedTo(c, r, e)'
<1>1. lsDisk' = disk /\ lsScan' = [lsScan EXCEPT !.quiet = FALSE] /\ UNCHANGED <<lsRows, lsEditions, lsAlias>>
    BY DEF DiskChanges
<1>2. \A r : SourceKey(r)' = SourceKey(r)
    BY DEF SameLibrary, SourceKey, Kind
<1>3. PICK to \in LsPaths : /\ Holds(disk, c, to) /\ lsRows[to].ed \in {0, e} /\ lsAlias[SourceKey(to)] \in {0, e}
                            /\ \A r \in LsPaths : Has(lsRows[r], e, c) => disk[r] \in {c, LsNone}
    BY KeptIsLed
<1>4. lsScan.at # "idle" => to = q
    BY <1>3 DEF MovedTo, Holds
<1>5. /\ lsScan'.at = lsScan.at /\ lsScan'.found = lsScan.found /\ lsScan'.gone = lsScan.gone /\ lsScan'.taken = lsScan.taken
      /\ lsScan'.digest = lsScan.digest
    BY <1>1, ScanTyped DEF Scan
<1>6. Follows(c, to, e)'
    <2>1. CASE lsScan.at = "idle"
        BY <1>5, <2>1 DEF Follows
    <2>2. CASE lsScan.at # "idle"
        <3>1. Follows(c, to, e)
            BY <1>4, <2>2 DEF MovedTo
        <3> QED
            BY <1>1, <1>2, <1>5, <3>1 DEF Follows
    <2> QED
        BY <2>1, <2>2
<1>7. Leads(lsRows, lsAlias, c, to, e)'
    <2>1. \E r \in LsPaths : Has(lsRows[r], e, c)
        BY DEF MovedTo, Leads
    <2> QED
        BY <1>1, <1>2, <1>3, <2>1 DEF Leads, Has
<1>8. Holds(lsDisk, c, to)'
    BY <1>1, <1>2, <1>3 DEF Holds, At, Alone
<1>9. (e \in 1..Len(lsEditions))'
    BY <1>1 DEF MovedTo
<1> QED
    BY <1>6, <1>7, <1>8, <1>9 DEF MovedTo

\* A publication leaves alone what it does not import.
LEMMA PublishFollows ==
    ASSUME ImInv, NEW d \in ImCallers, Publish(d), ~Published(imRuns[d]).refused,
           NEW c, NEW q, NEW e, MovedTo(c, q, e), \A p \in LsPaths : imRuns[d].digest[p] # c
    PROVE  MovedTo(c, q, e)'
<1> DEFINE run == imRuns[d]
           tx == Published(run)
<1>1. /\ lsRows' = tx.rows /\ lsEditions' = tx.editions /\ lsAlias' = tx.alias /\ UNCHANGED <<lsLib, lsDisk, lsScan>>
      /\ run.at = "ready"
    BY DEF Publish
<1>2. PublishedUpTo(run, tx, Last)
    BY <1>1, ReadyCanPublish, PublishedPublishes
<1>3. /\ \A p \in LsPaths : tx.rows[p] = lsRows[p] \/ (IsProven(tx.rows[p], p) /\ lsDisk[p] = run.digest[p])
      /\ \A k \in Keys : ~OfProvider(k) => tx.alias[k] = lsAlias[k]
      /\ Len(lsEditions) <= Len(tx.editions)
      /\ TxTyped(tx)
    BY <1>2 DEF PublishedUpTo
<1> HIDE DEF run, tx
<1>4. LsInv /\ LibTyped /\ Shelved /\ SameLibrary /\ q \in LsPaths /\ lsDisk[q] = c
    BY <1>1, ScanTyped, LibraryStays DEF ImInv, MovedTo, Holds, At
<1>5. \A r : SourceKey(r)' = SourceKey(r)
    BY <1>4 DEF SameLibrary, SourceKey, Kind
<1>6. SourceKey(q) \in Keys /\ ~OfProvider(SourceKey(q))
    <2>1. SourceKey(q) \in LsPaths
        BY <1>4, KindFacts
    <2> QED
        BY <2>1, PathFacts
<1>7. lsRows'[q] = lsRows[q] /\ lsAlias'[SourceKey(q)] = lsAlias[SourceKey(q)]
    BY <1>1, <1>3, <1>4, <1>6 DEF run
<1>8. ASSUME NEW r \in LsPaths, Has(lsRows'[r], e, c) PROVE lsRows'[r] = lsRows[r]
    BY <1>1, <1>3, <1>8 DEF Has, IsProven, run
<1>9. ASSUME NEW r \in LsPaths, Has(lsRows[r], e, c) PROVE lsRows'[r] = lsRows[r]
    <2>1. CASE r = q
        BY <1>7, <2>1
    <2>2. CASE r # q
        <3>1. lsDisk[r] \in {c, LsNone}
            BY <1>9 DEF MovedTo, Leads
        <3>2. lsDisk[r] = LsNone
            BY <2>2, <3>1 DEF MovedTo, Holds, At
        <3> QED
            BY <1>1, <1>3, <3>2 DEF IsProven
    <2> QED
        BY <2>1, <2>2
<1>10. Leads(lsRows', lsAlias', c, q, e)
    <2>1. Leads(lsRows, lsAlias, c, q, e)
        BY DEF MovedTo
    <2>2. PICK r \in LsPaths : Has(lsRows[r], e, c)
        BY <2>1 DEF Leads
    <2>3. Has(lsRows'[r], e, c)
        BY <1>9, <2>2
    <2>4. \A x \in LsPaths : Has(lsRows'[x], e, c) => lsDisk[x] \in {c, LsNone}
        BY <1>8, <2>1 DEF Leads
    <2> QED
        BY <1>7, <2>1, <2>3, <2>4 DEF Leads
<1>11. Leads(lsRows, lsAlias, c, q, e)'
    BY <1>1, <1>5, <1>10 DEF Leads, Has
<1>12. Follows(c, q, e)'
    <2>1. Follows(c, q, e)
        BY DEF MovedTo
    <2>2. \A r \in LsPaths : Has(lsRows'[r], e, c) => Has(lsRows[r], e, c) /\ lsRows'[r] = lsRows[r]
        BY <1>8
    <2>3. lsScan.at # "idle" => \A r \in LsPaths : lsScan.found[r] # LsNone /\ SourceKey(r) = SourceKey(q) => r = q
        BY <2>1 DEF Follows
    <2>4. lsScan.at = "mark" => \A r \in LsPaths : r # q /\ Has(lsRows'[r], e, c) => lsRows'[r].missing \/ r \in lsScan.gone
        BY <2>1, <2>2 DEF Follows
    <2>5. lsScan.at \in {"next", "store"} => \A r \in LsPaths : r # q /\ Has(lsRows'[r], e, c) => lsRows'[r].missing
        BY <2>1, <2>2 DEF Follows
    <2>6. lsScan.at = "store" => \A r \in lsScan.taken :
            (lsScan.digest[r] = c <=> r = q) /\ (r # q => ~Has(lsRows'[r], e, c))
        BY <1>4, <2>1, <2>2, ScanTyped DEF Follows
    <2> QED
        BY <1>1, <1>5, <2>3, <2>4, <2>5, <2>6 DEF Follows, Has
<1>13. Holds(lsDisk, c, q)'
    BY <1>1, <1>5 DEF MovedTo, Holds, At, Alone
<1>14. e \in 1..Len(lsEditions')
    <2>1. Len(lsEditions) \in Nat /\ Len(tx.editions) \in Nat
        BY <1>3, <1>4, ShelvedFacts DEF TxTyped, Tx
    <2> QED
        BY <1>1, <1>3, <2>1 DEF MovedTo
<1> QED
    BY <1>11, <1>12, <1>13, <1>14 DEF MovedTo

LEMMA MovesInvInit == ASSUME ImInit PROVE MovesInv
<1>1. /\ lsBefore = [disk |-> [p \in LsPaths |-> LsNone], rows |-> [p \in LsPaths |-> NoRow], moved |-> {}]
      /\ lsRows = [p \in LsPaths |-> NoRow] /\ lsEditions = << >>
    BY DEF ImInit, LsInit
<1>2. lsBefore \in Before /\ lsBefore.moved = {}
    BY <1>1, NoRowTyped DEF Before, Content
<1>3. GameWorks(lsRows, lsEditions)
    BY <1>1, NoRowTyped DEF GameWorks
<1> QED
    BY <1>2, <1>3 DEF MovesInv, Moves, Games

\* What was shown before stays, or content is no longer only moved.
SameBefore ==
    /\ lsBefore' \in Before /\ lsBefore'.disk = lsBefore.disk /\ lsBefore'.rows = lsBefore.rows
    /\ lsBefore'.moved \subseteq lsBefore.moved

LEMMA MovesStay ==
    ASSUME MovesInv, Kind.keyed, SameLibrary, SameBefore,
           \A c \in lsBefore'.moved, p \in LsPaths, q \in LsPaths : \A e :
               c # LsNone /\ At(lsBefore.disk, c) = {p} /\ e = lsBefore.rows[p].ed /\ MovedTo(c, q, e)
               => \E r \in LsPaths : MovedTo(c, r, e)'
    PROVE  MovesInv'
<1>1. Kind'.keyed
    BY DEF SameLibrary, Kind
<1>2. ASSUME NEW c \in lsBefore'.moved PROVE (\E p, q \in LsPaths : At(lsBefore.disk, c) = {p} /\ MovedTo(c, q, lsBefore.rows[p].ed))'
    <2>1. c # LsNone /\ c \in lsBefore.moved
        BY <1>2, LsAssumption DEF SameBefore, Before, MovesInv
    <2>2. PICK p \in LsPaths, q \in LsPaths : At(lsBefore.disk, c) = {p} /\ MovedTo(c, q, lsBefore.rows[p].ed)
        BY <2>1 DEF MovesInv, Moves
    <2> DEFINE e == lsBefore.rows[p].ed
    <2>3. PICK f : f = e
        OBVIOUS
    <2>4. PICK r \in LsPaths : MovedTo(c, r, f)'
        BY <1>2, <2>1, <2>2, <2>3
    <2>5. lsBefore'.rows[p].ed = f /\ At(lsBefore'.disk, c) = {p}
        BY <2>2, <2>3 DEF SameBefore
    <2>6. MovedTo(c, r, lsBefore.rows[p].ed)'
        BY <2>4, <2>5
    <2>7. At(lsBefore.disk, c)' = {p}
        BY <2>5 DEF At
    <2> QED
        BY <2>6, <2>7
<1> QED
    BY <1>1, <1>2 DEF MovesInv, Moves, SameBefore, Before

LEMMA GamesStay ==
    ASSUME MovesInv, ~Kind.keyed, SameLibrary, SameBefore, GameWorks(lsRows', lsEditions'), SameWorks(lsEditions, lsEditions'),
           Len(lsEditions) \in Nat, Len(lsEditions') \in Nat
    PROVE  MovesInv'
<1>1. ~Kind'.keyed /\ \A p : Title(p)' = Title(p)
    BY DEF SameLibrary, Kind, Title
<1>2. GameWorks(lsRows, lsEditions)'
    BY <1>1 DEF GameWorks
<1>3. ASSUME NEW c \in lsBefore'.moved, NEW p \in At(lsBefore'.disk, c) PROVE OfGame(p, lsBefore.rows[p].ed)'
    <2>1. OfGame(p, lsBefore.rows[p].ed)
        BY <1>3 DEF MovesInv, Games, SameBefore
    <2> QED
        BY <1>1, <2>1 DEF OfGame, SameWorks, SameBefore
<1>4. \A c \in lsBefore'.moved : \A p \in At(lsBefore.disk, c)' : OfGame(p, lsBefore.rows[p].ed)'
    BY <1>3 DEF At
<1> QED
    BY <1>1, <1>2, <1>4 DEF MovesInv, Games, SameBefore, Before

\* A game is a folder of its own.
LEMMA OneGame == ASSUME LsInv, ~Kind.keyed, lsScan.at = "store" PROVE \E first : lsScan.taken = {first}
<1>1. lsScan.taken # {} /\ lsScan.taken \subseteq Group
    BY ScanTyped DEF Phases
<1>2. \A p, r \in Group : p = r
    BY ScanTyped, GameFacts DEF Group, Folder
<1>3. PICK first : first \in lsScan.taken
    BY <1>1
<1>4. lsScan.taken = {first}
    BY <1>1, <1>2, <1>3
<1> QED
    BY <1>4

LEMMA GamesFollow ==
    ASSUME LsInv, LsNext, SameLibrary, MovesInv, ~Kind.keyed
    PROVE  GameWorks(lsRows', lsEditions') /\ SameWorks(lsEditions, lsEditions')
<1>1. GameWorks(lsRows, lsEditions) /\ Len(lsEditions) \in Nat
    BY ScanTyped, ShelvedFacts DEF MovesInv, Games
<1>2. CASE UNCHANGED <<lsRows, lsEditions>>
    BY <1>1, <1>2 DEF SameWorks
<1>3. CASE MarkMissing
    <2>1. lsEditions' = lsEditions
        BY <1>3 DEF MarkMissing
    <2>2. ASSUME NEW p \in LsPaths PROVE lsRows'[p].ed = lsRows[p].ed
        <3>1. lsRows[p] \in Row
            BY ScanTyped, ShelvedFacts
        <3>2. lsRows'[p] = IF p \in lsScan.gone THEN [lsRows[p] EXCEPT !.missing = TRUE] ELSE lsRows[p]
            BY <1>3 DEF MarkMissing
        <3> QED
            BY <3>1, <3>2 DEF Row
    <2> QED
        BY <1>1, <2>1, <2>2 DEF SameWorks, GameWorks
<1>4. CASE Store /\ ~Transaction.refused
    <2>1. lsRows' = Transaction.rows /\ lsEditions' = Transaction.editions /\ lsScan.at = "store"
        BY <1>4 DEF Store
    <2>2. PICK first : lsScan.taken = {first}
        BY <2>1, OneGame
    <2> QED
        BY <1>1, <1>4, <2>1, <2>2, StoreIsReady, TransactionKeepsGames
<1>5. UNCHANGED <<lsRows, lsEditions>> \/ MarkMissing \/ (Store /\ ~Transaction.refused)
    BY DEF LsNext, Write, MoveFile, DiskChanges, Start, WalkDir, StatRows, Skip, Probe, Store, Finish, Cancel
<1> QED
    BY <1>2, <1>3, <1>4, <1>5

\* A scan that ends well shows every file by a live row.
LEMMA FinishShows ==
    ASSUME LsInv, Finish, Shown, NEW p \in LsPaths, lsDisk[p] # LsNone
    PROVE  lsRows[p].ed \in 1..Len(lsEditions) /\ ~lsRows[p].missing /\ lsRows[p].sha = lsDisk[p]
<1>1. ShownBut(lsScan.todo) /\ lsScan.todo = {}
    BY ScanTyped DEF Finish, Shown, QuietPhases
<1>2. Live(p) /\ lsRows[p].sha = lsDisk[p]
    BY <1>1 DEF ShownBut
<1>3. lsRows[p].ed \in 0..Len(lsEditions) /\ Len(lsEditions) \in Nat
    BY ScanTyped, ShelvedFacts DEF RowsTyped
<1> QED
    BY <1>2, <1>3 DEF Live

LEMMA FinishKnowsMoves == ASSUME LsInv, MovesInv, Finish, Shown PROVE MovesInv'
<1> DEFINE moved == {c \in LsContents : \E p \in At(lsDisk, c) : IsKeptBy(lsDisk, c, lsRows[p].ed)}
<1>1. /\ lsBefore' = [disk |-> lsDisk, rows |-> lsRows, moved |-> moved] /\ UNCHANGED <<lsLib, lsDisk, lsRows, lsEditions, lsAlias>>
      /\ lsScan'.at = "idle"
    BY NoScanTyped DEF Finish, Scan
<1>2. SameLibrary /\ Kind' = Kind /\ (\A p : SourceKey(p)' = SourceKey(p)) /\ \A p : Title(p)' = Title(p)
    BY <1>1, LibraryStays DEF SourceKey, Kind, Title
<1>3. /\ lsBefore' \in Before /\ lsBefore'.disk = lsDisk /\ lsBefore'.rows = lsRows /\ lsBefore'.moved = moved
      /\ moved \subseteq LsContents
    <2>1. lsDisk \in [LsPaths -> Content] /\ lsRows \in [LsPaths -> Row] /\ moved \in SUBSET LsContents
        BY ScanTyped, ShelvedFacts
    <2> HIDE DEF moved
    <2> QED
        BY <1>1, <2>1 DEF Before
<1>4. \A c \in moved : c # LsNone
    BY LsAssumption
<1>5. CASE Kind.keyed
    <2>1. ASSUME NEW c \in moved PROVE (\E p, q \in LsPaths : At(lsBefore.disk, c) = {p} /\ MovedTo(c, q, lsBefore.rows[p].ed))'
        <3>1. PICK p \in At(lsDisk, c) : IsKeptBy(lsDisk, c, lsRows[p].ed)
            BY <2>1
        <3>2. PICK e : e = lsRows[p].ed
            OBVIOUS
        <3>3. PICK q \in LsPaths : /\ Holds(lsDisk, c, q) /\ lsRows[q].ed \in {0, e} /\ lsAlias[SourceKey(q)] \in {0, e}
                                   /\ \A r \in LsPaths : Has(lsRows[r], e, c) => lsDisk[r] \in {c, LsNone}
            BY <3>1, <3>2, KeptIsLed
        <3>4. p = q /\ p \in LsPaths /\ lsDisk[p] = c
            BY <3>1, <3>3 DEF Holds, At
        <3>5. e \in 1..Len(lsEditions) /\ Has(lsRows[p], e, c)
            BY <1>4, <2>1, <3>2, <3>4, FinishShows DEF Has
        <3>6. Leads(lsRows, lsAlias, c, p, e)'
            BY <1>1, <1>2, <3>3, <3>4, <3>5 DEF Leads, Has
        <3>7. Follows(c, p, e)'
            BY <1>1 DEF Follows
        <3>8. Holds(lsDisk, c, p)'
            BY <1>1, <1>2, <3>3, <3>4 DEF Holds, At, Alone
        <3>9. MovedTo(c, p, e)'
            BY <1>1, <3>5, <3>6, <3>7, <3>8 DEF MovedTo
        <3>10. lsBefore'.rows[p].ed = e /\ At(lsBefore'.disk, c) = {p}
            BY <1>3, <3>2, <3>3, <3>4 DEF Holds
        <3>11. MovedTo(c, p, lsBefore.rows[p].ed)'
            BY <3>9, <3>10
        <3>12. At(lsBefore.disk, c)' = {p}
            BY <3>10 DEF At
        <3> QED
            BY <3>4, <3>11, <3>12
    <2> HIDE DEF moved
    <2>2. Moves'
        BY <1>3, <2>1 DEF Moves
    <2> QED
        BY <1>2, <1>3, <1>5, <2>2 DEF MovesInv, Before
<1>6. CASE ~Kind.keyed
    <2>1. GameWorks(lsRows, lsEditions)
        BY <1>6 DEF MovesInv, Games
    <2>2. GameWorks(lsRows, lsEditions)'
        BY <1>1, <1>2, <2>1 DEF GameWorks
    <2>3. ASSUME NEW c \in moved, NEW p \in At(lsDisk, c) PROVE OfGame(p, lsRows[p].ed)
        <3>1. p \in LsPaths /\ lsDisk[p] # LsNone
            BY <1>4, <2>3 DEF At
        <3>2. lsRows[p].ed \in 1..Len(lsEditions) /\ Len(lsEditions) \in Nat
            BY <3>1, FinishShows, ScanTyped, ShelvedFacts
        <3>3. lsRows[p].ed # 0
            BY <3>2
        <3> QED
            BY <2>1, <3>1, <3>2, <3>3 DEF GameWorks, OfGame
    <2> HIDE DEF moved
    <2>4. Games'
        <3>1. ASSUME NEW c \in moved, NEW p \in At(lsDisk, c) PROVE OfGame(p, lsBefore.rows[p].ed)'
            BY <1>1, <1>2, <1>3, <2>3, <3>1 DEF OfGame
        <3>2. \A c \in lsBefore'.moved : \A p \in At(lsBefore.disk, c)' : OfGame(p, lsBefore.rows[p].ed)'
            BY <1>3, <3>1 DEF At
        <3> QED
            BY <2>2, <3>2 DEF Games
    <2> QED
        BY <1>2, <1>3, <1>6, <2>4 DEF MovesInv, Before
<1> QED
    BY <1>5, <1>6

\* Between the scan's steps the record of what it showed stays; when the disk changes, what did not only move leaves it.
LEMMA DiskChangesMoves ==
    ASSUME ImInv, MovesInv, NEW disk \in [LsPaths -> Content], DiskChanges(disk) PROVE MovesInv'
<1> DEFINE moved == {c \in lsBefore.moved : /\ lsScan.at = "idle" \/ At(disk, c) = At(lsDisk, c)
                                            /\ \E p \in At(lsBefore.disk, c) : IsKeptBy(disk, c, lsBefore.rows[p].ed)}
<1>1. lsBefore' = [lsBefore EXCEPT !.moved = moved] /\ UNCHANGED <<lsRows, lsEditions>>
    BY DEF DiskChanges
<1>2. LsInv /\ SameLibrary
    BY DiskChangesKeeps DEF ImInv
<1>3. SameBefore /\ lsBefore'.moved = moved
    <2>1. moved \subseteq lsBefore.moved /\ lsBefore \in Before
        BY DEF MovesInv
    <2> HIDE DEF moved
    <2> QED
        BY <1>1, <2>1 DEF SameBefore, Before
<1>4. CASE Kind.keyed
    <2>1. ASSUME NEW c \in moved, NEW p \in LsPaths, NEW q \in LsPaths, NEW e,
                 At(lsBefore.disk, c) = {p}, e = lsBefore.rows[p].ed, MovedTo(c, q, e)
          PROVE  \E r \in LsPaths : MovedTo(c, r, e)'
        BY <1>2, <2>1, DiskChangesFollows
    <2> HIDE DEF moved
    <2> QED
        BY <1>2, <1>3, <1>4, <2>1, MovesStay
<1>5. CASE ~Kind.keyed
    <2>1. GameWorks(lsRows', lsEditions') /\ SameWorks(lsEditions, lsEditions') /\ Len(lsEditions) \in Nat /\ Len(lsEditions') \in Nat
        BY <1>1, <1>2, <1>5, ScanTyped, ShelvedFacts DEF MovesInv, Games, SameWorks
    <2> QED
        BY <1>2, <1>3, <1>5, <2>1, GamesStay
<1> QED
    BY <1>4, <1>5

LEMMA ScanMoves ==
    ASSUME ImInv, MovesInv, Start \/ WalkDir \/ StatRows \/ MarkMissing \/ Skip \/ Probe \/ Store \/ Finish \/ Cancel, lsBefore' = lsBefore
    PROVE  MovesInv'
<1>1. LsInv /\ LsNext /\ SameLibrary
    BY LsStep DEF ImInv, LsNext
<1>2. SameBefore
    BY DEF SameBefore, MovesInv
<1>3. CASE Kind.keyed
    <2>1. ASSUME NEW c, NEW q \in LsPaths, NEW e, c # LsNone, MovedTo(c, q, e) PROVE MovedTo(c, q, e)'
        BY <1>1, <1>3, <2>1, ScanFollows
    <2> QED
        BY <1>1, <1>2, <1>3, <2>1, MovesStay
<1>4. CASE ~Kind.keyed
    <2>1. GameWorks(lsRows', lsEditions') /\ SameWorks(lsEditions, lsEditions')
        BY <1>1, <1>4, GamesFollow
    <2>2. Len(lsEditions) \in Nat /\ Len(lsEditions') \in Nat
        BY <1>1, EditionsStay
    <2> QED
        BY <1>1, <1>2, <1>4, <2>1, <2>2, GamesStay
<1> QED
    BY <1>3, <1>4

LEMMA PublishMoves == ASSUME ImInv, MovesInv, NEW d \in ImCallers, Publish(d) PROVE MovesInv'
<1> DEFINE run == imRuns[d]
           tx == Published(run)
           taken == {run.digest[p] : p \in LsPaths}
           moved == IF tx.refused THEN lsBefore.moved ELSE lsBefore.moved \ taken
<1>1. UNCHANGED <<lsLib, lsDisk, lsScan>> /\ run.at = "ready"
    BY DEF Publish
<1>2. LsInv /\ SameLibrary /\ lsBefore \in Before
    BY <1>1, LibraryStays DEF ImInv, MovesInv
<1>3. lsBefore' = [lsBefore EXCEPT !.moved = moved]
    BY <1>2 DEF Publish, Before
<1>4. SameBefore /\ lsBefore'.moved = moved
    <2>1. moved \subseteq lsBefore.moved
        OBVIOUS
    <2> HIDE DEF moved
    <2> QED
        BY <1>2, <1>3, <2>1 DEF SameBefore, Before
<1>5. tx.refused => UNCHANGED <<lsRows, lsEditions, lsAlias>>
    BY DEF Publish
<1>6. CASE Kind.keyed
    <2>1. ASSUME NEW c \in moved, NEW q \in LsPaths, NEW e, MovedTo(c, q, e) PROVE MovedTo(c, q, e)'
        <3>1. CASE tx.refused
            <4>1. Follows(c, q, e)'
                <5>1. Follows(c, q, e) /\ \A r : SourceKey(r)' = SourceKey(r)
                    BY <1>2, <2>1 DEF MovedTo, SameLibrary, SourceKey, Kind
                <5> QED
                    BY <1>1, <1>5, <3>1, <5>1 DEF Follows
            <4> QED
                BY <1>1, <1>2, <1>5, <2>1, <3>1, <4>1, FollowsOn
        <3>2. CASE ~tx.refused
            <4>1. \A p \in LsPaths : run.digest[p] # c
                BY <2>1, <3>2
            <4> QED
                BY <2>1, <3>2, <4>1, PublishFollows
        <3> QED
            BY <3>1, <3>2
    <2> HIDE DEF moved
    <2> QED
        BY <1>2, <1>4, <1>6, <2>1, MovesStay
<1>7. CASE ~Kind.keyed
    <2>1. UNCHANGED <<lsRows, lsEditions>>
        <3>1. CanPublish(run)
            BY <1>1, ReadyCanPublish
        <3>2. PlannedItems(run) = {}
            BY <1>7, <3>1, ItemFacts
        <3>3. ~tx.refused => tx = Opened(run.digest)
            BY <3>1, <3>2, PublishedPublishes DEF PublishedUpTo
        <3>4. Opened(run.digest).rows = lsRows /\ Opened(run.digest).editions = lsEditions
            BY DEF Opened
        <3>5. ~tx.refused => lsRows' = tx.rows /\ lsEditions' = tx.editions
            BY DEF Publish
        <3> HIDE DEF tx, run
        <3> QED
            BY <1>5, <3>3, <3>4, <3>5
    <2>2. GameWorks(lsRows', lsEditions') /\ SameWorks(lsEditions, lsEditions') /\ Len(lsEditions) \in Nat /\ Len(lsEditions') \in Nat
        BY <1>2, <1>7, <2>1, ScanTyped, ShelvedFacts DEF MovesInv, Games, SameWorks
    <2> QED
        BY <1>2, <1>4, <1>7, <2>2, GamesStay
<1> QED
    BY <1>6, <1>7

\* A step that leaves all of it alone but the bounds.
LEMMA OtherMoves ==
    ASSUME ImInv, MovesInv, SameLibrary, UNCHANGED <<lsDisk, lsRows, lsEditions, lsAlias, lsScan, lsBefore>> PROVE MovesInv'
<1>1. SameBefore
    BY DEF SameBefore, MovesInv
<1>2. CASE Kind.keyed
    <2>1. ASSUME NEW c, NEW q \in LsPaths, NEW e, MovedTo(c, q, e) PROVE MovedTo(c, q, e)'
        <3>1. Follows(c, q, e) /\ \A r : SourceKey(r)' = SourceKey(r)
            BY <2>1 DEF MovedTo, SameLibrary, SourceKey, Kind
        <3>2. Follows(c, q, e)'
            BY <3>1 DEF Follows
        <3> QED
            BY <2>1, <3>2, FollowsOn
    <2> QED
        BY <1>1, <1>2, <2>1, MovesStay
<1>3. CASE ~Kind.keyed
    <2>1. GameWorks(lsRows', lsEditions') /\ SameWorks(lsEditions, lsEditions') /\ Len(lsEditions) \in Nat /\ Len(lsEditions') \in Nat
        BY <1>3, ScanTyped, ShelvedFacts DEF ImInv, MovesInv, Games, SameWorks
    <2> QED
        BY <1>1, <1>3, <2>1, GamesStay
<1> QED
    BY <1>2, <1>3

LEMMA MovesStep == ASSUME ImInv, MovesInv, [ImNext]_<<lsVars, imVars>> PROVE MovesInv'
<1>1. CASE \E p \in LsPaths : (\E c \in LsContents \cup {LsNone} : Write(p, c)) \/ \E q \in LsPaths : MoveFile(p, q)
    <2>1. ASSUME NEW p \in LsPaths, NEW c \in Content, Write(p, c) PROVE MovesInv'
        <3> DEFINE disk == [lsDisk EXCEPT ![p] = c]
        <3>1. disk \in [LsPaths -> Content] /\ DiskChanges(disk)
            BY <2>1, ScanTyped DEF Write, ImInv
        <3> HIDE DEF disk
        <3> QED
            BY <3>1, DiskChangesMoves
    <2>2. ASSUME NEW p \in LsPaths, NEW q \in LsPaths, MoveFile(p, q) PROVE MovesInv'
        <3> DEFINE disk == [lsDisk EXCEPT ![p] = LsNone, ![q] = lsDisk[p]]
        <3>1. disk \in [LsPaths -> Content] /\ DiskChanges(disk)
            BY <2>2, ScanTyped DEF MoveFile, Content, ImInv
        <3> HIDE DEF disk
        <3> QED
            BY <3>1, DiskChangesMoves
    <2> QED
        BY <1>1, <2>1, <2>2 DEF Content
<1>2. CASE Start \/ WalkDir \/ StatRows \/ MarkMissing \/ Skip \/ Probe \/ Store \/ Finish \/ Cancel
    <2>1. CASE lsBefore' = lsBefore
        BY <1>2, <2>1, ScanMoves
    <2>2. CASE lsBefore' # lsBefore
        <3>1. Finish /\ Shown
            BY <1>2, <2>2 DEF Start, WalkDir, StatRows, MarkMissing, Skip, Probe, Store, Finish, Cancel
        <3> QED
            BY <3>1, FinishKnowsMoves DEF ImInv
    <2> QED
        BY <2>1, <2>2
<1>3. CASE \E d \in ImCallers : Import(d) \/ SnapshotFile(d) \/ Abandon(d)
    <2>1. UNCHANGED <<lsDisk, lsRows, lsEditions, lsAlias, lsScan, lsBefore>>
        BY <1>3 DEF Import, SnapshotFile, Abandon, lsVars
    <2>2. SameLibrary
        <3>1. lsLib' = lsLib \/ lsLib' = [lsLib EXCEPT !.imports = @ - 1]
            BY <1>3 DEF Import, SnapshotFile, Abandon, lsVars
        <3>2. lsLib \in Library
            BY ScanTyped DEF ImInv
        <3> QED
            BY <3>1, <3>2 DEF Library, SameLibrary
    <2> QED
        BY <2>1, <2>2, OtherMoves
<1>4. CASE \E d \in ImCallers : Publish(d)
    BY <1>4, PublishMoves
<1>5. CASE UNCHANGED <<lsVars, imVars>>
    <2>1. UNCHANGED <<lsLib, lsDisk, lsRows, lsEditions, lsAlias, lsScan, lsBefore>>
        BY <1>5 DEF lsVars
    <2> QED
        BY <2>1, LibraryStays, OtherMoves DEF ImInv
<1> QED
    BY <1>1, <1>2, <1>3, <1>4, <1>5 DEF ImNext, LsNext

\* A scan that shows the disk shows what has moved in the edition it had.
LEMMA ShownWhereMoved ==
    ASSUME ImInv, MovesInv, Finish, Shown, NEW p \in LsPaths, NEW q \in LsPaths, lsDisk[q] = lsBefore.disk[p],
           lsDisk[q] \in lsBefore.moved, Kind.keyed \/ Title(p) = Title(q)
    PROVE  lsRows[q].ed = lsBefore.rows[p].ed
<1> DEFINE c == lsDisk[q]
           e == lsBefore.rows[p].ed
<1>1. LsInv /\ c # LsNone
    BY LsAssumption DEF ImInv, MovesInv, Before
<1>2. lsRows[q].ed \in 1..Len(lsEditions) /\ lsRows[q].ed # 0
    <2>1. lsRows[q].ed \in 1..Len(lsEditions) /\ Len(lsEditions) \in Nat
        BY <1>1, FinishShows, ScanTyped, ShelvedFacts
    <2> QED
        BY <2>1
<1>3. CASE Kind.keyed
    <2>1. PICK x \in LsPaths, y \in LsPaths : At(lsBefore.disk, c) = {x} /\ MovedTo(c, y, lsBefore.rows[x].ed)
        BY <1>3 DEF MovesInv, Moves
    <2>2. x = p /\ y = q
        BY <2>1 DEF At, MovedTo, Holds
    <2>3. lsRows[q].ed \in {0, e}
        BY <2>1, <2>2 DEF MovedTo, Leads
    <2> QED
        BY <1>2, <2>3
<1>4. CASE ~Kind.keyed
    <2>1. OfGame(p, e)
        BY <1>4 DEF MovesInv, Games, At
    <2>2. /\ lsEditions[lsRows[q].ed].work = Title(q)
          /\ \A d, f \in 1..Len(lsEditions) : lsEditions[d].work = lsEditions[f].work => d = f
        BY <1>2, <1>4 DEF MovesInv, Games, GameWorks
    <2> QED
        BY <1>2, <1>4, <2>1, <2>2 DEF OfGame
<1> QED
    BY <1>3, <1>4

-----------------------------------------------------------------------------
(* Theorems.                                                               *)

LEMMA EditionIds == ASSUME LsInv PROVE EdIds = 1..Len(lsEditions) /\ Len(lsEditions) \in Nat /\ lsEditions \in Seq(Edition)
<1>1. lsEditions \in Seq(Edition) /\ Len(lsEditions) \in Nat
    BY ScanTyped, ShelvedFacts
<1> QED
    BY <1>1 DEF EdIds

LEMMA LsTyped == ASSUME LsInv PROVE LsTypeOK
<1>1. /\ RowsTyped(lsRows, Len(lsEditions)) /\ lsAlias \in [Keys -> 0..Len(lsEditions)] /\ lsDisk \in [LsPaths -> Content]
    BY ScanTyped, ShelvedFacts
<1>2. 0..Len(lsEditions) = EdIds \cup {0}
    BY EditionIds
<1>3. \A e \in EdIds : lsEditions[e].key \in Keys /\ lsEditions[e].work \in LsPaths
    <2>1. \A e \in EdIds : lsEditions[e] \in Edition
        BY EditionIds
    <2> QED
        BY <2>1 DEF Edition
<1> QED
    BY <1>1, <1>2, <1>3 DEF LsTypeOK, RowsTyped, Content

LEMMA EditionsAreShelved == ASSUME LsInv PROVE EditionsHaveFiles
<1>1. Homes(lsRows, lsEditions, lsAlias)
    BY ScanTyped, ShelvedFacts
<1> QED
    BY <1>1, EditionIds DEF Homes, HasHome, EditionsHaveFiles, RowsOf

LEMMA ScanHasShown == ASSUME LsInv PROVE ScanShowsDisk
    BY ScanTyped DEF ScanShowsDisk, Shown, QuietPhases, NoneGone, ShownBut

(* Whatever scans, imports and changes of the disk do, in any order, rows and aliases name editions that exist. *)
THEOREM LibraryTypes == ImSpec => []LsTypeOK
<1>1. ImInit => ImInv
    BY ImInitHolds
<1>2. ImInv /\ [ImNext]_<<lsVars, imVars>> => ImInv'
    BY ImStep
<1>3. ImInv => LsTypeOK
    BY LsTyped DEF ImInv
<1> QED
    BY <1>1, <1>2, <1>3, PTL DEF ImSpec

(* No edition but an import's loses all of its files, and a scan that ends well, under which the disk was still, leaves the
   rows that the disk has: next to any number of imports, and whatever interrupted scans came before. *)
THEOREM LibraryIsShown == ImSpec => []LibraryShowsFiles
<1>1. ImInit => ImInv
    BY ImInitHolds
<1>2. ImInv /\ [ImNext]_<<lsVars, imVars>> => ImInv'
    BY ImStep
<1>3. ImInv => LibraryShowsFiles
    BY EditionsAreShelved, ScanHasShown DEF ImInv, LibraryShowsFiles
<1> QED
    BY <1>1, <1>2, <1>3, PTL DEF ImSpec

(* Progress and playlists of imports name editions that exist, of one account. *)
THEOREM ImportsAreTyped == ImSpec => []ImTypeOK
<1>1. ImInit => ImInv
    BY ImInitHolds
<1>2. ImInv /\ [ImNext]_<<lsVars, imVars>> => ImInv'
    BY ImStep
<1>3. ASSUME ImInv PROVE ImTypeOK
    <2>1. \A c \in ImCallers : imRuns[c].digest \in [LsPaths -> LsContents \cup {LsNone}]
        BY <1>3 DEF ImInv, RunsTyped, Run, Content
    <2>2. EdIds = 1..Len(lsEditions)
        BY <1>3, EditionIds DEF ImInv
    <2> QED
        BY <1>3, <2>1, <2>2 DEF ImTypeOK, ImInv, AccountInv
<1> QED
    BY <1>1, <1>2, <1>3, PTL DEF ImSpec

(* An import publishes what is on the disk at that moment, completes the editions it knows, and takes no file from another. *)
THEOREM ImportsPublishAsProven == ImSpec => PublishedAsProven
<1> DEFINE Step == \A c \in ImCallers : imRuns[c].at = "ready" /\ imRuns'[c].at = "published" =>
               /\ \A i \in PlannedItems(imRuns[c]) :
                   LET files == PlannedFiles(imRuns[c], i) IN
                   /\ \A p \in files : lsRows'[p].ed = lsAlias'[0 - i] /\ ~lsRows'[p].missing /\ lsRows'[p].sha = lsDisk[p]
                   /\ lsAlias[0 - i] # 0 \/ (\E p \in files : lsRows[p].ed # 0) => RowsOf(lsRows', lsAlias'[0 - i]) = files
               /\ \A p \in LsPaths : lsRows[p].ed # 0 => lsRows'[p].ed = lsRows[p].ed
<1>1. ImInit => ImInv
    BY ImInitHolds
<1>2. ImInv /\ [ImNext]_<<lsVars, imVars>> => ImInv'
    BY ImStep
<1>3. ImInv /\ [ImNext]_<<lsVars, imVars>> => [Step]_<<lsVars, imVars>>
    <2>1. SUFFICES ASSUME ImInv, ImNext, NEW c \in ImCallers, imRuns[c].at = "ready", imRuns'[c].at = "published"
                   PROVE  /\ \A i \in PlannedItems(imRuns[c]) :
                              LET files == PlannedFiles(imRuns[c], i) IN
                              /\ \A p \in files : lsRows'[p].ed = lsAlias'[0 - i] /\ ~lsRows'[p].missing /\ lsRows'[p].sha = lsDisk[p]
                              /\ lsAlias[0 - i] # 0 \/ (\E p \in files : lsRows[p].ed # 0) => RowsOf(lsRows', lsAlias'[0 - i]) = files
                          /\ \A p \in LsPaths : lsRows[p].ed # 0 => lsRows'[p].ed = lsRows[p].ed
        OBVIOUS
    <2>2. imRuns \in [ImCallers -> Run]
        BY <2>1 DEF ImInv, RunsTyped
    <2>3. Publish(c)
        <3>1. PICK d \in ImCallers : Import(d) \/ SnapshotFile(d) \/ Abandon(d) \/ Publish(d)
            BY <2>1 DEF ImNext, imVars
        <3>2. d = c
            <4>1. ASSUME d # c PROVE imRuns'[c] = imRuns[c]
                <5>1. CASE Import(d)
                    BY <2>2, <4>1, <5>1 DEF Import
                <5>2. CASE SnapshotFile(d)
                    BY <2>2, <4>1, <5>2 DEF SnapshotFile
                <5>3. CASE Abandon(d)
                    BY <2>2, <4>1, <5>3 DEF Abandon
                <5>4. CASE Publish(d)
                    BY <2>2, <4>1, <5>4 DEF Publish
                <5> QED
                    BY <3>1, <5>1, <5>2, <5>3, <5>4
            <4> QED
                BY <2>1, <4>1
        <3>3. ~Import(c)
            BY <2>1 DEF Import
        <3>4. ~SnapshotFile(c)
            BY <2>1 DEF SnapshotFile
        <3>5. ~Abandon(c)
            <4>1. Abandon(c) => imRuns'[c].at = "idle"
                BY <2>2, NoRunTyped DEF Abandon
            <4> QED
                BY <2>1, <4>1
        <3> QED
            BY <3>1, <3>2, <3>3, <3>4, <3>5
    <2> DEFINE run == imRuns[c]
               tx == Published(run)
    <2>4. /\ ~tx.refused /\ PublishedUpTo(run, tx, Last) /\ lsRows' = tx.rows /\ lsAlias' = tx.alias
          /\ \A i \in PlannedItems(run) : ItemPublished(run, tx, i)
        BY <2>1, <2>3, PublishFacts
    <2>5. \A p \in LsPaths : lsRows[p].ed # 0 => lsRows'[p].ed = lsRows[p].ed
        BY <2>4 DEF PublishedUpTo
    <2> HIDE DEF run, tx
    <2>6. ASSUME NEW i \in PlannedItems(run)
          PROVE  LET files == PlannedFiles(run, i) IN
                 /\ \A p \in files : lsRows'[p].ed = lsAlias'[0 - i] /\ ~lsRows'[p].missing /\ lsRows'[p].sha = lsDisk[p]
                 /\ lsAlias[0 - i] # 0 \/ (\E p \in files : lsRows[p].ed # 0) => RowsOf(lsRows', lsAlias'[0 - i]) = files
        BY <2>4 DEF ItemPublished, IsProven, KnownItem
    <2> QED
        BY <2>5, <2>6 DEF run
<1> QED
    BY <1>1, <1>2, <1>3, PTL DEF ImSpec, PublishedAsProven

(* Editions outlive the moves of their files, in every library, whatever scans, imports and changes of the disk come
   between: the scan that next shows content which was only moved shows it in the edition that it had. *)
THEOREM MovesKeepEditions == ImSpec => MovedKeepsEdition
<1> DEFINE Step == lsScan.at # "idle" /\ lsScan'.whole /\ lsBefore' # lsBefore => \A p, q \in LsPaths :
               /\ lsDisk[q] = lsBefore.disk[p] /\ lsDisk[q] \in lsBefore.moved /\ (Kind.keyed \/ Title(p) = Title(q))
               => lsRows[q].ed = lsBefore.rows[p].ed
<1>1. ImInit => ImInv /\ MovesInv
    BY ImInitHolds, MovesInvInit
<1>2. ImInv /\ MovesInv /\ [ImNext]_<<lsVars, imVars>> => ImInv' /\ MovesInv'
    BY ImStep, MovesStep
<1>3. ImInv /\ MovesInv /\ [ImNext]_<<lsVars, imVars>> => [Step]_lsVars
    <2>1. SUFFICES ASSUME ImInv, MovesInv, ImNext, lsScan.at # "idle", lsScan'.whole, lsBefore' # lsBefore,
                          NEW p \in LsPaths, NEW q \in LsPaths, lsDisk[q] = lsBefore.disk[p], lsDisk[q] \in lsBefore.moved,
                          Kind.keyed \/ Title(p) = Title(q)
                   PROVE  lsRows[q].ed = lsBefore.rows[p].ed
        BY DEF lsVars
    <2>2. ~lsScan.whole
        BY <2>1, ScanTyped DEF ImInv, Phases
    <2>3. ASSUME NEW disk, DiskChanges(disk) PROVE FALSE
        <3>1. lsScan'.whole = lsScan.whole
            BY <2>3, ScanTyped DEF DiskChanges, Scan, ImInv
        <3> QED
            BY <2>1, <2>2, <3>1
    <2>4. \A d \in ImCallers : ~Publish(d)
        BY <2>1, <2>2 DEF Publish
    <2>5. Finish /\ Shown
        BY <2>1, <2>3, <2>4 DEF ImNext, LsNext, Write, MoveFile, Start, WalkDir, StatRows, MarkMissing, Skip, Probe, Store, Finish, Cancel,
           Import, SnapshotFile, Abandon, lsVars
    <2> QED
        BY <2>1, <2>5, ShownWhereMoved
<1> QED
    BY <1>1, <1>2, <1>3, PTL DEF ImSpec, MovedKeepsEdition

(* Without imports, which alone key editions by providers, every edition keeps a file. *)
AllHaveFiles == \A e \in EdIds : RowsOf(lsRows, e) # {}
NoProviders == \A e \in EdIds : ~OfProvider(lsEditions[e].key)

LEMMA NoProvidersStay == ASSUME LsInv, NoProviders, LsNext PROVE NoProviders'
<1>1. CASE lsEditions' = lsEditions
    BY <1>1 DEF NoProviders, EdIds
<1>2. CASE lsEditions' # lsEditions
    <2>1. Store
        BY <1>2 DEF LsNext, Write, MoveFile, DiskChanges, Start, WalkDir, StatRows, MarkMissing, Skip, Probe, Finish, Cancel
    <2>2. ~Transaction.refused /\ lsEditions' = Transaction.editions
        BY <1>2, <2>1 DEF Store
    <2>3. StoredUpTo(Transaction, Last)
        BY <2>1, StoreIsReady, TransactionStores DEF Store
    <2>4. NoneOfProviders(Transaction.editions) /\ Transaction.editions \in Seq(Edition)
        BY <2>2, <2>3 DEF StoredUpTo, TxTyped, Tx
    <2> DEFINE editions == Transaction.editions
    <2>5. DOMAIN editions = 1..Len(editions)
        <3> HIDE DEF editions
        <3> QED
            BY <2>4 DEF editions
    <2>6. EdIds = 1..Len(lsEditions)
        BY EditionIds
    <2> HIDE DEF editions
    <2>7. \A e \in DOMAIN editions : ~OfProvider(editions[e].key)
        BY <2>4, <2>5, <2>6 DEF NoneOfProviders, NoProviders, editions
    <2> QED
        BY <2>2, <2>7 DEF NoProviders, EdIds, editions
<1> QED
    BY <1>1, <1>2

(* A scanner that no import runs next to never leaves an edition without a file, however its scans are interrupted. *)
THEOREM ScansKeepFiles == LsSpec => []AllHaveFiles
<1>1. LsInit => LsInv /\ NoProviders
    BY LsInitHolds DEF LsInit, NoProviders, EdIds
<1>2. LsInv /\ NoProviders /\ [LsNext]_lsVars => LsInv' /\ NoProviders'
    <2>1. ASSUME LsInv, NoProviders, UNCHANGED lsVars PROVE LsInv' /\ NoProviders'
        BY <2>1, LsStutters DEF lsVars, NoProviders, EdIds
    <2> QED
        BY <2>1, LsStep, NoProvidersStay
<1>3. LsInv /\ NoProviders => AllHaveFiles
    BY EditionsAreShelved DEF EditionsHaveFiles, NoProviders, AllHaveFiles
<1> QED
    BY <1>1, <1>2, <1>3, PTL DEF LsSpec
===============================================================================
