--------------------------- MODULE ReaderProgress ---------------------------
(***************************************************************************)
(* Every writer of one progress row other than the media operations: the   *)
(* conditional and plain writes of the core API (core.go setProgress,      *)
(* store/reading.go), the reset (store/progress.go DeleteProgress), the    *)
(* playtime reports of games (store/game_sessions.go) and the playback     *)
(* sessions of the Audiobookshelf face (api/abs/abs.go).  One user, one    *)
(* edition.                                                                *)
(***************************************************************************)
EXTENDS Integers, FiniteSets, Functions

CONSTANTS RpPages,        \* clients that write conditionally
          RpSessions,     \* play sessions of a game
          RpPlayback,     \* playback sessions of the Audiobookshelf face
          RpPositions,    \* positions a client may report
          RpEnd,          \* the position from which a player's edition counts as finished
          RpPageNumbers,  \* pages of a book
          RpMaxRevision,  \* bound on the writes of a behaviour
          RpMaxSeconds    \* bound on the seconds played in a session

ASSUME RpAssumption ==
    RpPositions \subseteq Nat /\ RpEnd \in Nat /\ RpMaxRevision \in Nat /\ 0 \notin RpPageNumbers /\ IsFiniteSet(RpSessions)

VARIABLES rpRow,       \* the progress row; revision 0 when there is none
          rpEdition,   \* whether the edition is a game, and its timeline_generation
          rpPage,      \* what each client last read, and the refusal it is being answered
          rpPlayed,    \* game_play_sessions: elapsed seconds by reset generation and session
          rpAbsolute,  \* the total last set absolutely, less what its sessions had reported (history)
          rpSession,   \* playback_sessions, and of each (history): the seconds its client played, those it will report
                       \* again, and those counted for a client that had given up waiting
          rpHandler    \* a sync or a close between its checks and its transaction, and whether its client still waits

rpVars == <<rpRow, rpEdition, rpPage, rpPlayed, rpAbsolute, rpSession, rpHandler>>

Generations == 0..RpMaxRevision
NoProgress == [revision |-> 0, reset |-> 0, deleted |-> FALSE, position |-> 0, page |-> 0, finished |-> FALSE]
Quiet == [position |-> 0 - 1, heard |-> FALSE]
NoSession == [open |-> FALSE, closed |-> FALSE, listened |-> 0, played |-> 0, owed |-> 0, lost |-> 0]
Requests == {"sync", "close"}

RpInit ==
    /\ rpRow = NoProgress
    /\ rpEdition \in [game : BOOLEAN, timeline : {1}]
    /\ rpPage = [p \in RpPages |-> [row |-> NoProgress, timeline |-> 1, answer |-> "read", base |-> 0]]
    /\ rpPlayed = [g \in Generations |-> [s \in RpSessions |-> 0]]
    /\ rpAbsolute = 0
    /\ rpSession = [s \in RpPlayback |-> NoSession]
    /\ rpHandler = [s \in RpPlayback |-> [kind \in Requests |-> Quiet]]

Fresh == rpRow.revision < RpMaxRevision
Reported(g) == SumFunctionOnSet(rpPlayed[g], RpSessions)

-----------------------------------------------------------------------------
(* Plain writes and resets.                                                *)

(* setProgressAt and the upsert of setReadingProgressFields: the fields written, the tombstone cleared, the reset
   generation kept, the revision raised. *)
Wrote(fields) ==
    LET Kept(f) == IF f \in DOMAIN fields THEN fields[f] ELSE rpRow[f] IN
    [revision |-> rpRow.revision + 1, reset |-> rpRow.reset, deleted |-> FALSE,
     position |-> Kept("position"), page |-> Kept("page"), finished |-> Kept("finished")]

(* What a request of the core API carries: a position, a page, or the mark that it is finished. *)
Fields == {[position |-> t] : t \in RpPositions} \cup {[page |-> n] : n \in RpPageNumbers} \cup {[finished |-> TRUE]}

Absolute(row) == row.position - (IF rpEdition.game THEN Reported(row.reset) ELSE 0)

Put(fields) ==
    /\ Fresh
    /\ rpRow' = Wrote(fields)
    /\ rpAbsolute' = IF "position" \in DOMAIN fields THEN Absolute(rpRow') ELSE rpAbsolute

(* A core write without a revision; the total of a game that has reported sessions is refused (SetLegacyGameProgressFields). *)
PlainWrite(fields) ==
    /\ rpEdition.game /\ "position" \in DOMAIN fields => \A g \in Generations, s \in RpSessions : rpPlayed[g][s] = 0
    /\ Put(fields)
    /\ UNCHANGED <<rpEdition, rpPage, rpPlayed, rpSession, rpHandler>>

DeleteRow ==
    /\ Fresh
    /\ rpRow' = [NoProgress EXCEPT !.revision = rpRow.revision + 1, !.reset = rpRow.reset + 1, !.deleted = TRUE]
    /\ rpAbsolute' = 0
    /\ UNCHANGED <<rpEdition, rpPage, rpPlayed, rpSession, rpHandler>>

(* A scan replaces the files of the edition (the triggers of migration 0019). *)
NewTimeline ==
    /\ rpEdition.timeline < 2 /\ ~rpEdition.game
    /\ rpEdition' = [rpEdition EXCEPT !.timeline = 2]
    /\ UNCHANGED <<rpRow, rpPage, rpPlayed, rpAbsolute, rpSession, rpHandler>>

-----------------------------------------------------------------------------
(* Conditional writes.                                                     *)

GetProgress(p) ==
    /\ rpPage' = [rpPage EXCEPT ![p] = [row |-> rpRow, timeline |-> rpEdition.timeline, answer |-> "read", base |-> rpRow.revision]]
    /\ UNCHANGED <<rpRow, rpEdition, rpPlayed, rpAbsolute, rpSession, rpHandler>>

(* What a request presents: always the revision, the reset generation and the timeline if the client knows them. *)
Presents == {{}, {"reset"}, {"reset", "timeline"}}

Matches_MutantFirst(p, presents) ==
    /\ "timeline" \in presents => rpPage[p].timeline = rpEdition.timeline
    /\ rpPage[p].row.revision = 0 \/ rpRow.revision = rpPage[p].row.revision

Matches(p, presents) ==
    /\ "timeline" \in presents => rpPage[p].timeline = rpEdition.timeline
    /\ IF rpPage[p].row.revision = 0
       THEN rpRow.revision = 0
       ELSE /\ rpRow.revision = rpPage[p].row.revision
            /\ "reset" \in presents => rpRow.reset = rpPage[p].row.reset

(* SetReadingProgressTimelineRevision; the answer may be lost, and the client keeps its old base. *)
ConditionalWrite(p, fields, presents) ==
    /\ rpPage[p].answer = "read" /\ Matches(p, presents)
    /\ Put(fields)
    /\ rpPage' \in {rpPage, [rpPage EXCEPT ![p].row = rpRow', ![p].base = rpRow'.revision]}
    /\ UNCHANGED <<rpEdition, rpPlayed, rpSession, rpHandler>>

(* Not applied: the handler looks up why, after the statement failed.      *)
Refused(p, presents) ==
    /\ rpPage[p].answer = "read" /\ ~Matches(p, presents)
    /\ rpPage' = [rpPage EXCEPT ![p].answer = IF "timeline" \in presents THEN "timeline" ELSE "revision"]
    /\ UNCHANGED <<rpRow, rpEdition, rpPlayed, rpAbsolute, rpSession, rpHandler>>

AnswerRefusal(p) ==
    LET page == rpPage[p] IN
    /\ page.answer \in {"timeline", "revision"}
    /\ rpPage' = [rpPage EXCEPT ![p] =
          IF page.answer = "timeline" /\ page.timeline # rpEdition.timeline
          THEN [page EXCEPT !.answer = "mismatch", !.timeline = rpEdition.timeline]
          ELSE [page EXCEPT !.answer = IF page.answer = "timeline" THEN "revision" ELSE "conflict", !.row = rpRow]]
    /\ UNCHANGED <<rpRow, rpEdition, rpPlayed, rpAbsolute, rpSession, rpHandler>>

-----------------------------------------------------------------------------
(* Games: ReportGamePlaytime.                                              *)

ReportPlaytime_MutantWhole(s, epoch, elapsed) ==
    /\ rpEdition.game /\ Fresh
    /\ rpRow.reset = epoch /\ elapsed > rpPlayed[epoch][s]
    /\ rpPlayed' = [rpPlayed EXCEPT ![epoch][s] = elapsed]
    /\ rpRow' = Wrote([position |-> rpRow.position + elapsed])
    /\ UNCHANGED <<rpEdition, rpPage, rpAbsolute, rpSession, rpHandler>>

(* A report may be repeated, late, or of an earlier epoch; only what its session adds counts. *)
ReportPlaytime(s, epoch, elapsed) ==
    /\ rpEdition.game /\ Fresh
    /\ rpRow.reset = epoch /\ elapsed > rpPlayed[epoch][s]
    /\ rpPlayed' = [rpPlayed EXCEPT ![epoch][s] = elapsed]
    /\ rpRow' = Wrote([position |-> rpRow.position + elapsed - rpPlayed[epoch][s]])
    /\ UNCHANGED <<rpEdition, rpPage, rpAbsolute, rpSession, rpHandler>>

-----------------------------------------------------------------------------
(* Playback sessions of the Audiobookshelf face.                           *)

Play(s) ==
    /\ ~rpEdition.game /\ ~rpSession[s].open
    /\ rpSession' = [rpSession EXCEPT ![s].open = TRUE]
    /\ UNCHANGED <<rpRow, rpEdition, rpPage, rpPlayed, rpAbsolute, rpHandler>>

(* The second a request reports: one more that was played, or one whose first report was not answered. *)
Sends(session) ==
    {x \in {[session EXCEPT !.played = session.played + 1], [session EXCEPT !.owed = session.owed - 1]} :
        x.played <= RpMaxSeconds /\ x.owed >= 0}

(* sessionSync and sessionClose read the session before their transaction. *)
SessionRequest(s, position, kind) ==
    /\ rpSession[s].open /\ ~rpSession[s].closed /\ rpHandler[s][kind] = Quiet
    /\ rpHandler' = [rpHandler EXCEPT ![s][kind] = [position |-> position, heard |-> TRUE]]
    /\ \E session \in Sends(rpSession[s]) : rpSession' = [rpSession EXCEPT ![s] = session]
    /\ UNCHANGED <<rpRow, rpEdition, rpPage, rpPlayed, rpAbsolute>>

(* The answer is lost or too late: the client will report the second again. *)
GiveUp(s, kind) ==
    /\ rpHandler[s][kind].heard
    /\ rpHandler' = [rpHandler EXCEPT ![s][kind].heard = FALSE]
    /\ rpSession' = [rpSession EXCEPT ![s].owed = @ + 1]
    /\ UNCHANGED <<rpRow, rpEdition, rpPage, rpPlayed, rpAbsolute>>

(* time_listened_secs grows by what the request says, whatever was counted before. *)
Advanced(session, kind, heard) ==
    [session EXCEPT !.listened = session.listened + 1, !.closed = (kind = "close"),
                    !.lost = IF heard THEN session.lost ELSE session.lost + 1]

(* A client that hears of the failure reports the second again.            *)
RolledBack(session, heard) == IF heard THEN [session EXCEPT !.owed = session.owed + 1] ELSE session

(* UpdateSessionWithProgress and CloseSessionWithProgress: nothing if another request closed the session meanwhile;
   a transaction that fails leaves both rows alone. *)
SessionCommit(s, kind) ==
    LET session == rpSession[s]
        request == rpHandler[s][kind] IN
    /\ request # Quiet
    /\ rpHandler' = [rpHandler EXCEPT ![s][kind] = Quiet]
    /\ \/ session.closed /\ UNCHANGED <<rpRow, rpSession, rpAbsolute>>
       \/ /\ ~session.closed
          /\ Put([position |-> request.position, finished |-> request.position >= RpEnd])
          /\ rpSession' = [rpSession EXCEPT ![s] = Advanced(session, kind, request.heard)]
       \/ /\ ~session.closed
          /\ rpSession' = [rpSession EXCEPT ![s] = RolledBack(session, request.heard)]
          /\ UNCHANGED <<rpRow, rpAbsolute>>
    /\ UNCHANGED <<rpEdition, rpPage, rpPlayed>>

(* A close without a position: CloseSession.                               *)
CloseSession(s) ==
    /\ rpSession[s].open /\ ~rpSession[s].closed
    /\ \E session \in Sends(rpSession[s]) :
          rpSession' = [rpSession EXCEPT ![s] = Advanced(session, "close", TRUE)]
    /\ UNCHANGED <<rpRow, rpEdition, rpPage, rpPlayed, rpAbsolute, rpHandler>>

RpNext ==
    \/ DeleteRow \/ NewTimeline
    \/ \E fields \in Fields : \/ PlainWrite(fields)
                            \/ \E p \in RpPages, presents \in Presents : ConditionalWrite(p, fields, presents)
    \/ \E p \in RpPages : GetProgress(p) \/ AnswerRefusal(p) \/ \E presents \in Presents : Refused(p, presents)
    \/ \E s \in RpSessions, t \in RpPositions, epoch \in Generations : ReportPlaytime(s, epoch, t)
    \/ \E s \in RpPlayback, t \in RpPositions, kind \in Requests : SessionRequest(s, t, kind)
    \/ \E s \in RpPlayback : Play(s) \/ CloseSession(s) \/ \E kind \in Requests : SessionCommit(s, kind) \/ GiveUp(s, kind)

RpSpec == RpInit /\ [][RpNext]_rpVars

-----------------------------------------------------------------------------
(* Properties.                                                             *)

RpRows == [revision : Generations, reset : Generations, deleted : BOOLEAN, position : Nat,
           page : RpPageNumbers \cup {0}, finished : BOOLEAN]

(* Every variable keeps its type, and a tombstone holds nothing of what was deleted (DeleteProgress). *)
RpTypeOK ==
    /\ rpRow \in RpRows
    /\ rpRow.deleted => rpRow.position = 0 /\ rpRow.page = 0 /\ ~rpRow.finished /\ rpRow.reset > 0
    /\ rpEdition \in [game : BOOLEAN, timeline : {1, 2}]
    /\ rpPage \in [RpPages -> [row : RpRows, timeline : {1, 2}, base : Generations,
                              answer : {"read", "timeline", "revision", "mismatch", "conflict"}]]
    /\ rpSession \in [RpPlayback -> [open : BOOLEAN, closed : BOOLEAN, listened : Nat, played : Nat,
                                     owed : Nat, lost : Nat]]

(* A revision is never worn by two different rows, through resets and the writes of every other client: what a client
   read under the current revision is the current row (DeleteProgress keeps the row as a tombstone). *)
RevisionNamesRow == \A p \in RpPages :
    /\ rpPage[p].row.revision <= rpRow.revision
    /\ rpPage[p].row.revision = rpRow.revision => rpPage[p].row = rpRow

(* So a conditional write replaces exactly the row its client read: no update, and no reset, is overwritten unseen
   (SetReadingProgressRevision), and one that names the timeline never crosses a rescan. Nor does a session write once it
   is closed: a sync that lost to the close moves neither it nor the progress (UpdateSessionWithProgress). *)
NoLostUpdate ==
    [][/\ rpRow' # rpRow => \A p \in RpPages, fields \in Fields, presents \in Presents :
             ConditionalWrite(p, fields, presents) =>
                 rpPage[p].row = rpRow /\ ("timeline" \in presents => rpPage[p].timeline = rpEdition.timeline)
       /\ \A s \in RpPlayback : rpSession[s].closed =>
             /\ rpSession'[s].closed /\ rpSession'[s].listened = rpSession[s].listened
             /\ \A kind \in Requests : SessionCommit(s, kind) => rpRow' = rpRow]_rpVars

(* A refused client is shown a row newer than its base, although the handler reads it after the refusal: adopting the
   answer makes progress (setProgress). *)
ConflictsShowNewer == \A p \in RpPages : rpPage[p].answer = "conflict" => rpPage[p].row.revision > rpPage[p].base

(* Since the total of a game was last set or reset, it grew by exactly what its sessions reported, however often a
   report is repeated, reordered or late (ReportGamePlaytime). *)
PlaytimeCountsOnce == rpEdition.game => rpRow.position = rpAbsolute + Reported(rpRow.reset)

(* The seconds of a playback session are counted twice only where the answer to a request that was counted was lost:
   neither a transaction that failed and is repeated, nor a sync that races the close, adds to them
   (UpdateSessionWithProgress, CloseSessionWithProgress). *)
OnlyLostAnswersRepeat == \A s \in RpPlayback : rpSession[s].listened <= rpSession[s].played + rpSession[s].lost

(* No second is counted twice at all, as the comment of UpdateSessionWithProgress says of a client that retries. *)
ListenedOnce == \A s \in RpPlayback : rpSession[s].listened <= rpSession[s].played

(* For the runs: what clients were told of the row, and what was counted in it, agree with it. *)
ProgressAgrees == RevisionNamesRow /\ ConflictsShowNewer /\ PlaytimeCountsOnce /\ OnlyLostAnswersRepeat

=============================================================================
