------------------------------ MODULE Playlists ------------------------------
(***************************************************************************)
(* Playlists (store/playlists.go) as the web face (core/playlists.go) and  *)
(* the Subsonic face change them.  A request first shows that it may       *)
(* change a playlist, and then changes it in a transaction of its own:     *)
(* between the two the playlist may change, go, and leave its id to a      *)
(* playlist of somebody else.                                              *)
(***************************************************************************)
EXTENDS Integers, FiniteSets, FiniteSetsExt

CONSTANTS PlUsers, PlAdmins,
          PlEditions,   \* editions there are at first
          PlRequests,   \* requests that may be under way at once
          PlMaxId, PlMaxRequests

ASSUME PlAssumption == PlAdmins \subseteq PlUsers /\ IsFiniteSet(PlEditions) /\ PlMaxId \in Nat /\ PlMaxRequests \in Nat

VARIABLES plRows,      \* id -> [owner, items: edition -> position], for the playlists there are
          plKnown,     \* the editions
          plRequests,  \* request -> what it is about to do
          plCount      \* requests so far

plVars == <<plRows, plKnown, plRequests, plCount>>

NoItems == [e \in {} |-> 0]
NoRequest == [op |-> "none", user |-> 0, id |-> 0, edition |-> 0, position |-> 0, list |-> <<>>, gone |-> {}]

PlInit ==
    /\ plRows = [i \in {} |-> 0] /\ plKnown = PlEditions
    /\ plRequests = [r \in PlRequests |-> NoRequest] /\ plCount = 0

-----------------------------------------------------------------------------
(* Items: editions with positions, which say the order and may have gaps.  *)

Rank(items, e) == Cardinality({f \in DOMAIN items : items[f] <= items[e]})
Compacted(items) == [e \in DOMAIN items |-> Rank(items, e)]
WithoutItem(items, gone) == [e \in DOMAIN items \ gone |-> items[e]]
Appended(items, e) ==
    IF e \in DOMAIN items THEN items
    ELSE [f \in DOMAIN items \cup {e} |-> IF f = e THEN Max({0} \cup {items[g] : g \in DOMAIN items}) + 1 ELSE items[f]]

(* The new position is at most the number of items; the others make room, and gaps are closed afterwards. *)
Reordered_MutantSwaps(items, e, n) ==
    LET new == IF n > Cardinality(DOMAIN items) THEN Cardinality(DOMAIN items) ELSE n
    IN Compacted([f \in DOMAIN items |-> IF f = e THEN new ELSE IF items[f] = new THEN items[e] ELSE items[f]])

Reordered(items, e, n) ==
    LET old == items[e]
        new == IF n > Cardinality(DOMAIN items) THEN Cardinality(DOMAIN items) ELSE n
        Moved(f) == IF f = e THEN new
                    ELSE IF new > old /\ items[f] > old /\ items[f] <= new THEN items[f] - 1
                    ELSE IF new < old /\ items[f] >= new /\ items[f] < old THEN items[f] + 1
                    ELSE items[f]
    IN IF new = old THEN items ELSE Compacted([f \in DOMAIN items |-> Moved(f)])

Listed(list) == [e \in {list[i] : i \in DOMAIN list} |-> CHOOSE i \in DOMAIN list : list[i] = e]
Lists == UNION {{l \in [1..n -> PlEditions] : \A i, j \in 1..n : l[i] = l[j] => i = j} : n \in 0..Cardinality(PlEditions)}

-----------------------------------------------------------------------------
(* Requests.                                                               *)

Asks == plCount < PlMaxRequests /\ plCount' = plCount + 1

(* One transaction: every edition exists, or there is no playlist.         *)
Create(u, list) ==
    /\ Asks
    /\ LET id == Max(DOMAIN plRows \cup {0}) + 1 IN
       /\ id <= PlMaxId /\ {list[i] : i \in DOMAIN list} \subseteq plKnown
       /\ plRows' = [i \in DOMAIN plRows \cup {id} |-> IF i = id THEN [owner |-> u, items |-> Listed(list)] ELSE plRows[i]]
    /\ UNCHANGED <<plKnown, plRequests>>

(* ownedPlaylist and fetchOwnedPlaylist; only the web face lets administrators in. *)
MayChange(what) ==
    /\ what.id \in DOMAIN plRows
    /\ \/ what.user = plRows[what.id].owner
       \/ what.user \in PlAdmins /\ what.op \notin {"replace", "update"}
Own(r, what) ==
    /\ plRequests[r].op = "none" /\ Asks
    /\ MayChange(what)
    /\ plRequests' = [plRequests EXCEPT ![r] = what]
    /\ UNCHANGED <<plRows, plKnown>>

What(op, u, i, e, n, list) == [op |-> op, user |-> u, id |-> i, edition |-> e, position |-> n, list |-> list, gone |-> {}]
Whats ==
    UNION {{What(op, u, i, 0, 0, <<>>) : op \in {"delete", "update"}}
           \cup {What(op, u, i, e, 0, <<>>) : op \in {"add", "remove"}, e \in PlEditions}
           \cup {What("reorder", u, i, e, n, <<>>) : e \in PlEditions, n \in 1..Cardinality(PlEditions)}
           \cup {What("replace", u, i, 0, 0, l) : l \in Lists} : u \in PlUsers, i \in 1..PlMaxId}

(* The last transaction of a request, on the items of the playlist that has its id by now, if any has. *)
Changes(r, op, items) ==
    LET i == plRequests[r].id IN
    /\ plRequests[r].op = op /\ plRequests' = [plRequests EXCEPT ![r] = NoRequest]
    /\ plRows' = IF i \in DOMAIN plRows THEN [plRows EXCEPT ![i].items = items] ELSE plRows
    /\ UNCHANGED <<plKnown, plCount>>
Items(r) == IF plRequests[r].id \in DOMAIN plRows THEN plRows[plRequests[r].id].items ELSE NoItems

PlaylistItemAdd(r) ==
    LET e == plRequests[r].edition IN Changes(r, "add", IF e \in plKnown THEN Appended(Items(r), e) ELSE Items(r))
PlaylistItemRemove(r) ==
    LET e == plRequests[r].edition IN
    Changes(r, "remove", IF e \in DOMAIN Items(r) THEN Compacted(WithoutItem(Items(r), {e})) ELSE Items(r))
PlaylistItemReorder(r) ==
    LET e == plRequests[r].edition IN
    Changes(r, "reorder", IF e \in DOMAIN Items(r) THEN Reordered(Items(r), e, plRequests[r].position) ELSE Items(r))
ReplacePlaylist(r) ==
    LET list == plRequests[r].list IN
    Changes(r, "replace", IF {list[i] : i \in DOMAIN list} \subseteq plKnown THEN Listed(list) ELSE Items(r))

(* Subsonic names what it removes by index, which is resolved before the transaction; what it adds was resolved too. *)
UpdatePlaylist(r) ==
    \E gone \in SUBSET DOMAIN Items(r), e \in plKnown :
        /\ plRequests[r].op = "update"
        /\ plRequests' = [plRequests EXCEPT ![r].op = "delta", ![r].gone = gone, ![r].edition = e]
        /\ UNCHANGED <<plRows, plKnown, plCount>>
UpdatePlaylistDelta(r) ==
    LET e == plRequests[r].edition
        kept == WithoutItem(Items(r), plRequests[r].gone)
    IN Changes(r, "delta", IF e \in plKnown THEN Appended(kept, e) ELSE Items(r))

PlaylistDelete(r) ==
    /\ plRequests[r].op = "delete" /\ plRequests' = [plRequests EXCEPT ![r] = NoRequest]
    /\ plRows' = [i \in DOMAIN plRows \ {plRequests[r].id} |-> plRows[i]]
    /\ UNCHANGED <<plKnown, plCount>>

(* The library of an edition is deleted, and its items with it.            *)
DeleteEdition(e) ==
    /\ e \in plKnown /\ plKnown' = plKnown \ {e} /\ Asks
    /\ plRows' = [i \in DOMAIN plRows |-> [plRows[i] EXCEPT !.items = WithoutItem(@, {e})]]
    /\ UNCHANGED plRequests

PlNext ==
    \/ \E u \in PlUsers, l \in Lists : Create(u, l)
    \/ \E e \in PlEditions : DeleteEdition(e)
    \/ \E r \in PlRequests :
          \/ \E what \in Whats : Own(r, what)
          \/ PlaylistItemAdd(r) \/ PlaylistItemRemove(r) \/ PlaylistItemReorder(r) \/ ReplacePlaylist(r)
          \/ UpdatePlaylist(r) \/ UpdatePlaylistDelta(r) \/ PlaylistDelete(r)

PlSpec == PlInit /\ [][PlNext]_plVars

-----------------------------------------------------------------------------
(* Properties.                                                             *)

(* Items are editions that exist, and their positions say one order.       *)
PlTypeOK ==
    /\ \A i \in DOMAIN plRows : DOMAIN plRows[i].items \subseteq plKnown
    /\ \A i \in DOMAIN plRows : \A e, f \in DOMAIN plRows[i].items :
          plRows[i].items[e] >= 1 /\ (plRows[i].items[e] = plRows[i].items[f] => e = f)

(* Whatever a step does to a playlist, short of replacing it, there is one item at most that it moves: the others keep
   their order, across gaps that removals from another face left (playlists.go, ReorderPlaylistItem). *)
OthersKeepTheirOrder ==
    [][\A i \in DOMAIN plRows \cap DOMAIN plRows' :
        LET before == plRows[i].items
            after == plRows'[i].items
            both == DOMAIN before \cap DOMAIN after
        IN (\A r \in PlRequests : plRequests[r].op = "replace" => plRequests'[r] = plRequests[r]) =>
              both = {} \/ \E m \in both : \A e, f \in both \ {m} : before[e] < before[f] <=> after[e] < after[f]]_plVars

=============================================================================
