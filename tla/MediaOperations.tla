--------------------------- MODULE MediaOperations ---------------------------
(***************************************************************************)
(* The server half of durable playback progress: one row of `progress`     *)
(* (one user, one audio or video edition), its operation receipts and the  *)
(* edition's timeline.  Every action is one IMMEDIATE SQLite transaction,  *)
(* so it is atomic here as it is in the store.                             *)
(*                                                                         *)
(* A podcast episode takes the same path through ApplyMediaOperation with  *)
(* its own tables; the model is of the shared path.  `session` stands for  *)
(* the pair (installationId, sessionId), which the code compares together. *)
(* Seconds are natural numbers, which makes the 0.001 tolerance equality.  *)
(*                                                                         *)
(* A definition whose name ends in _Mutant... is a plausible bug in the     *)
(* definition it precedes.  No specification uses it: it shows that the     *)
(* properties below can fail.                                              *)
(***************************************************************************)
EXTENDS Integers, FiniteSets, Sequences, SequencesExt

CONSTANTS
    OperationIds,   \* identities clients give their operations
    Sessions,       \* playback sessions of the clients
    FileIds,        \* rows of `files` that may belong to the edition
    Identities,     \* proven contents of a file: its sha256
    FileLists,      \* the timelines scans may publish, sequences of files
    Positions,      \* positions and offsets the compatibility writers send
    Requests,       \* the envelopes clients may send
    None,           \* SQL NULL / an absent optional field
    MaxRevision,    \* bound: compatibility writes stop at this revision
    MaxGeneration   \* bound: scans stop at this timeline generation

Intents == {"heartbeat", "seek", "restart", "finish", "reset"}

\* `identity` is None for a file whose digest is absent or malformed.
File == [id: FileIds, duration: Nat, missing: BOOLEAN,
         identity: Identities \cup {None}]

\* The immutable operation a client sends, and the server stores verbatim.
Envelope ==
    [id: OperationIds, session: Sessions, sequence: Nat, epoch: Nat,
     generation: Nat, base: Nat, reset: Nat,
     predecessor: OperationIds \cup {None}, intent: Intents,
     file: FileIds \cup {None}, offset: Nat, position: Nat,
     finished: BOOLEAN]

\* A row of media_operation_receipts: the envelope and the result.
Receipt == [envelope: Envelope, revision: Nat, reset: Nat]

ASSUME OperationAssumption ==
    /\ None \notin OperationIds \cup FileIds \cup Identities \cup Nat
    /\ FileLists \subseteq Seq(File)
    /\ Positions \subseteq Nat
    /\ Requests \subseteq Envelope
    /\ MaxRevision \in Nat
    /\ MaxGeneration \in Nat

VARIABLES
    row,         \* the progress row; revision 0 stands for no row
    receipts,    \* operation id -> Receipt, for the accepted operations
    generation,  \* editions.timeline_generation
    files        \* the edition's files, ORDER BY seq, id

serverVars == <<row, receipts, generation, files>>

Row == [revision: Nat, reset: Nat, deleted: BOOLEAN, position: Nat,
        offset: Nat, file: FileIds \cup {None}, finished: BOOLEAN,
        savedGeneration: Nat \cup {None},
        savedIdentity: Identities \cup {None},
        operation: OperationIds \cup {None}]

NoRow == [revision |-> 0, reset |-> 0, deleted |-> FALSE, position |-> 0,
          offset |-> 0, file |-> None, finished |-> FALSE,
          savedGeneration |-> None, savedIdentity |-> None,
          operation |-> None]

TypeOK ==
    /\ row \in Row
    /\ DOMAIN receipts \subseteq OperationIds
    /\ receipts \in [DOMAIN receipts -> Receipt]
    /\ generation \in Nat
    /\ files \in Seq(File)

Init ==
    /\ row = NoRow
    /\ receipts = <<>>
    /\ generation = 1
    /\ files \in FileLists

-----------------------------------------------------------------------------
(* The timeline.                                                           *)

Durations(fs) == [i \in DOMAIN fs |-> fs[i].duration]

\* Seconds of the files before the i-th one.
Before(fs, i) == SumFunctionOnSet(Durations(fs), 1..(i - 1))

IndexOf(fs, id) == {i \in DOMAIN fs : fs[i].id = id}

NoneMissing(fs) == \A i \in DOMAIN fs : ~fs[i].missing

\* Every file before the i-th one has a known duration.
KnownBefore(fs, i) == \A j \in 1..(i - 1) : fs[j].duration > 0

IdentityOf(fs, id) ==
    IF id = None \/ IndexOf(fs, id) = {} THEN None
    ELSE fs[CHOOSE i \in IndexOf(fs, id) : TRUE].identity

-----------------------------------------------------------------------------
(* ApplyMediaOperation.                                                    *)

WellFormed(o) ==
    /\ o.sequence >= 1
    /\ o.finished <=> o.intent = "finish"
    /\ o.intent = "reset" => o.position = 0 /\ o.offset = 0

\* The receipt an operation chains to belongs to the same playback session,
\* timeline and reset lineage and to an earlier intent of it.
ChainsTo(o, p) ==
    /\ p.session = o.session
    /\ p.sequence < o.sequence
    /\ p.epoch <= o.epoch
    /\ p.reset = o.reset
    /\ p.generation = o.generation

PredecessorAccepted(o) ==
    \/ o.predecessor = None
    \/ /\ o.predecessor \in DOMAIN receipts
       /\ ChainsTo(o, receipts[o.predecessor].envelope)

\* The revision the operation was made against: its own base, or the revision
\* its predecessor committed, which the client did not know when it queued it.
Base(o) == IF o.predecessor = None THEN o.base
           ELSE receipts[o.predecessor].revision

\* The row's last operation is of the same session and not an earlier one.
Overtaken(o) ==
    /\ row.operation # None
    /\ LET last == receipts[row.operation].envelope
       IN  /\ last.session = o.session
           /\ o.sequence <= last.sequence \/ o.epoch < last.epoch

Regresses(o) ==
    /\ o.intent = "heartbeat"
    /\ row.finished \/ row.deleted \/ o.position < row.position

Current_MutantNoBase(o) ==
    /\ o.generation = generation
    /\ o.reset = row.reset
    /\ PredecessorAccepted(o)
    /\ ~Overtaken(o)
    /\ ~Regresses(o)

Current_MutantNoLineage(o) ==
    /\ o.generation = generation
    /\ PredecessorAccepted(o)
    /\ Base(o) = row.revision
    /\ ~Overtaken(o)
    /\ ~Regresses(o)

Current(o) ==
    /\ o.generation = generation
    /\ o.reset = row.reset
    /\ PredecessorAccepted(o)
    /\ Base(o) = row.revision
    /\ ~Overtaken(o)
    /\ ~Regresses(o)

\* The operation names a file of the timeline and every file is present.
Present(o) == NoneMissing(files) /\ IndexOf(files, o.file) # {}

WithinFile(o) ==
    \A i \in IndexOf(files, o.file) :
        files[i].duration > 0 => o.offset <= files[i].duration

Locatable(o) == \A i \in IndexOf(files, o.file) : KnownBefore(files, i)

\* File and offset give the cumulative position; only the last file finishes.
TupleAgrees(o) ==
    \A i \in IndexOf(files, o.file) :
        /\ o.position = Before(files, i) + o.offset
        /\ o.finished => i = Len(files)

Outcome_MutantNoReceipts(o) ==
    IF ~WellFormed(o) THEN "envelope"
    ELSE IF ~Current(o) \/ ~Present(o) \/ ~Locatable(o) THEN "conflict"
    ELSE IF ~WithinFile(o) \/ ~TupleAgrees(o) THEN "envelope"
    ELSE "accept"

\* What the transaction answers: the HTTP statuses 200, 409 and 400.
Outcome(o) ==
    IF ~WellFormed(o) THEN "envelope"
    ELSE IF o.id \in DOMAIN receipts
         THEN IF receipts[o.id].envelope = o THEN "receipt" ELSE "envelope"
    ELSE IF ~Current(o) THEN "conflict"
    ELSE IF o.intent = "reset" THEN "accept"
    ELSE IF ~Present(o) THEN "conflict"
    ELSE IF ~WithinFile(o) THEN "envelope"
    ELSE IF ~Locatable(o) THEN "conflict"
    ELSE IF ~TupleAgrees(o) THEN "envelope"
    ELSE "accept"

Lineage(o) == IF o.intent = "reset" THEN row.reset + 1 ELSE row.reset

\* The UPSERT of the row and the UPDATE of its provenance.  The trigger of
\* migration 0023 fires between them and clears what the second then sets.
Written(o) ==
    [revision |-> row.revision + 1, reset |-> Lineage(o),
     deleted |-> o.intent = "reset", position |-> o.position,
     offset |-> o.offset, file |-> IF o.intent = "reset" THEN None ELSE o.file,
     finished |-> o.finished, savedGeneration |-> o.generation,
     savedIdentity |-> IF o.intent = "reset" THEN None
                       ELSE IdentityOf(files, o.file),
     operation |-> o.id]

\* What the operation committed.
NewReceipt(o) ==
    [envelope |-> o, revision |-> row.revision + 1, reset |-> Lineage(o)]

Commit(o) ==
    /\ row' = Written(o)
    /\ receipts' = [id \in DOMAIN receipts \cup {o.id} |->
                      IF id = o.id THEN NewReceipt(o) ELSE receipts[id]]

ApplyMediaOperation(o) ==
    /\ IF Outcome(o) = "accept" THEN Commit(o) ELSE UNCHANGED <<row, receipts>>
    /\ UNCHANGED <<generation, files>>

-----------------------------------------------------------------------------
(* The unconditional writers and the scanner.                              *)

\* setProgressAt: the compatibility faces (Audiobookshelf, Jellyfin,
\* Subsonic).  The UPSERT leaves the reset generation alone, clears the
\* tombstone and, through the trigger, the provenance of the row.
SetProgress(file, offset, position, finished) ==
    /\ row.revision < MaxRevision
    /\ row' = [row EXCEPT !.revision = @ + 1, !.deleted = FALSE,
                          !.position = position, !.offset = offset,
                          !.file = file, !.finished = finished,
                          !.savedGeneration = None, !.savedIdentity = None,
                          !.operation = None]
    /\ UNCHANGED <<receipts, generation, files>>

DeleteProgress_MutantDropsRow ==
    /\ row.revision < MaxRevision
    /\ row' = NoRow
    /\ UNCHANGED <<receipts, generation, files>>

\* DeleteProgress and ResetEpisodeProgress: a tombstone in a new lineage.
DeleteProgress ==
    /\ row.revision < MaxRevision
    /\ row' = [NoRow EXCEPT !.revision = row.revision + 1,
                            !.reset = row.reset + 1, !.deleted = TRUE]
    /\ UNCHANGED <<receipts, generation, files>>

\* A scan inserts, replaces, reorders or loses a file; the triggers of
\* migration 0019 advance the timeline generation in the same transaction.
Rescan(fs) ==
    /\ generation < MaxGeneration
    /\ files' = fs
    /\ generation' = generation + 1
    /\ UNCHANGED <<row, receipts>>

-----------------------------------------------------------------------------
(* mediaResume and MediaSnapshot: where playback may restart.              *)

Proven_MutantAnyContent == row.savedGeneration # None

Proven == /\ row.savedGeneration # None
          /\ row.savedIdentity # None
          /\ row.savedIdentity = IdentityOf(files, row.file)

\* The saved file and offset, mapped through the current order of files.
Mapped(i) == /\ \A j \in 1..i : ~files[j].missing
             /\ KnownBefore(files, i)
             /\ files[i].duration > 0 => row.offset <= files[i].duration

Unfinished == row.revision > 0 /\ ~row.finished /\ ~row.deleted

ResumeConflict ==
    /\ Unfinished
    /\ IF row.file = None THEN row.position > 0
       ELSE IF IndexOf(files, row.file) = {} THEN TRUE
       ELSE IF ~Proven THEN row.position > 0 \/ row.offset > 0
       ELSE \A i \in IndexOf(files, row.file) : ~Mapped(i)

ResumePosition ==
    IF ResumeConflict THEN 0
    ELSE IF Unfinished /\ row.file # None /\ Proven
    THEN LET i == CHOOSE i \in IndexOf(files, row.file) : TRUE
         IN  Before(files, i) + row.offset
    ELSE row.position

\* What GET /media-progress/{kind}/{id} answers.
MediaSnapshot ==
    [generation |-> generation, revision |-> row.revision, reset |-> row.reset,
     deleted |-> row.deleted, position |-> ResumePosition,
     finished |-> row.finished, files |-> files, conflict |-> ResumeConflict]

-----------------------------------------------------------------------------
CompatibilityWrite ==
    \/ \E file \in FileIds \cup {None}, offset, position \in Positions,
          finished \in BOOLEAN :
          SetProgress(file, offset, position, finished)
    \/ DeleteProgress

Next ==
    \/ \E o \in Requests : ApplyMediaOperation(o)
    \/ CompatibilityWrite
    \/ \E fs \in FileLists : Rescan(fs)

Spec == Init /\ [][Next]_serverVars

-----------------------------------------------------------------------------
(* Properties.                                                             *)

\* The compare-and-set of ApplyMediaOperation never loses a write: every
\* accepted operation took effect directly on the row its author had seen,
\* or on the one its predecessor left, with nothing written in between.
AppliedOnItsBase ==
    \A id \in DOMAIN receipts :
        LET r == receipts[id]
        IN  IF r.envelope.predecessor = None
            THEN r.revision = r.envelope.base + 1
            ELSE /\ r.envelope.predecessor \in DOMAIN receipts
                 /\ ChainsTo(r.envelope,
                             receipts[r.envelope.predecessor].envelope)
                 /\ r.revision = receipts[r.envelope.predecessor].revision + 1

\* Every accepted operation is a write of its own: receipts never share a
\* revision, and none is ahead of the row.
OneWritePerReceipt ==
    /\ \A a, b \in DOMAIN receipts :
           receipts[a].revision = receipts[b].revision => a = b
    /\ \A id \in DOMAIN receipts : receipts[id].revision \in 1..row.revision

\* A reset fences what was queued before it: whatever is accepted after an
\* operation was made in the lineage that operation left, or in a later one.
ResetFences ==
    /\ \A a, b \in DOMAIN receipts :
           receipts[a].revision < receipts[b].revision
               => receipts[a].reset <= receipts[b].envelope.reset
    /\ \A id \in DOMAIN receipts : receipts[id].reset <= row.reset

\* The provenance columns only ever describe the write that made the row
\* what it is: a compatibility write in between must have cleared them.
ProvenanceIsOfTheRow ==
    row.operation # None =>
        /\ row.operation \in DOMAIN receipts
        /\ LET r == receipts[row.operation]
           IN  /\ r.revision = row.revision
               /\ r.reset = row.reset
               /\ r.envelope.position = row.position
               /\ r.envelope.finished = row.finished
               /\ r.envelope.generation = row.savedGeneration
               /\ IF r.envelope.intent = "reset" THEN row.deleted
                  ELSE ~row.deleted /\ r.envelope.file = row.file

\* "Resume follows proven content" (DECISIONS 62): the server never offers a
\* nonzero position in an unfinished title unless the operation that wrote
\* the row recorded the content that is still in the saved file.
ResumeFollowsProvenContent ==
    (Unfinished /\ ResumePosition > 0) =>
        /\ row.operation # None
        /\ receipts[row.operation].revision = row.revision
        /\ row.savedIdentity # None
        /\ IdentityOf(files, receipts[row.operation].envelope.file)
               = row.savedIdentity

\* A receipt is never lost or changed, every change of the row is one new
\* revision that at most one new operation accounts for, and a lineage never
\* goes back.
ReceiptsAreFinal ==
    [][/\ \A id \in DOMAIN receipts :
             id \in DOMAIN receipts' /\ receipts'[id] = receipts[id]
       /\ \A id \in DOMAIN receipts' \ DOMAIN receipts :
             /\ receipts'[id].revision = row.revision + 1
             /\ row'.operation = id
       /\ row' # row => row'.revision = row.revision + 1
       /\ row'.reset >= row.reset]_serverVars

\* Who wrote a revision, and the history of the row this implies.
Writer(rs, n) == IF \E id \in DOMAIN rs : rs[id].revision = n
                 THEN CHOOSE id \in DOMAIN rs : rs[id].revision = n
                 ELSE None

Log == [n \in 1..row.revision |-> Writer(receipts, n)]

Ledger == INSTANCE ProgressLedger
          WITH Operations <- OperationIds, Foreign <- None,
               log <- Log, lineage <- row.reset

\* The store keeps the promise of ProgressLedger: an append-only history with
\* every accepted operation in it exactly once, at the revision its receipt
\* names.
ImplementsLedger == Ledger!Spec

=============================================================================
