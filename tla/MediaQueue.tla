------------------------------ MODULE MediaQueue ------------------------------
(***************************************************************************)
(* The browser's DurableMediaQueue (web/src/mediaProgress.ts) composed with *)
(* the server of MediaOperations: the tabs of one browser and one owner     *)
(* save progress of one title, keep every operation in localStorage until   *)
(* a receipt settles it, and replay what is pending under one lock.         *)
(*                                                                         *)
(* localStorage (`store`, `quarantine`, `cached`) is shared by the tabs and *)
(* survives them; everything indexed by a tab is that page's memory.  POSTs *)
(* that a tab gave up on stay in `network` and may still reach the server.  *)
(***************************************************************************)
EXTENDS MediaOperations

CONSTANTS
    Tabs,
    Patches,     \* what the players save: records [intent, position]
    Clock,       \* what Date.now() may read: neither monotone nor unique
    Reloads,     \* TRUE: pages may be reloaded
    Leases,      \* TRUE: the IndexedDB lease, which can expire under its holder
    MaxEpoch,    \* bound: deliberate choices per playback session
    MaxDenials,  \* bound: times localStorage refuses a write
    MaxFaults    \* bound: requests given up, tabs lost, leases expired

\* The players never produce a reset.
PatchIntents == {"heartbeat", "seek", "restart", "finish"}

\* What the server may answer a request for one operation.
Replies == {"accept", "receipt", "conflict", "envelope"}

\* What GET /media-progress answers and a tab takes for its base.
Snapshot ==
    [generation: Nat, revision: Nat, reset: Nat, deleted: BOOLEAN,
     position: Nat, finished: BOOLEAN, files: Seq(File), conflict: BOOLEAN]

Chain == [session: Sessions, sequence: Nat, epoch: Nat,
          predecessor: OperationIds \cup {None}]

\* A record of localStorage, and a request for one, sent or on its way.
Stored == [operation: Envelope, createdAt: Clock]

Posted == [record: Stored, attempt: Nat]

Fetched == [snapshot: Snapshot, patch: Patches \cup {None}]

ASSUME QueueAssumption ==
    /\ None \notin Tabs \cup Sessions \cup Replies
    /\ None \notin Posted /\ None \notin Fetched
    /\ Patches \subseteq [intent: PatchIntents, position: Nat]
    /\ Clock \subseteq Nat
    /\ Reloads \in BOOLEAN /\ Leases \in BOOLEAN
    /\ MaxEpoch \in Nat /\ MaxDenials \in Nat /\ MaxFaults \in Nat

VARIABLES
    store,       \* op: keys of localStorage, records [operation, createdAt]
    quarantine,  \* ids with a quarantine: key; the record itself stays
    cached,      \* the base: key of localStorage
    base,        \* bases: the last snapshot each tab knows
    chain,       \* chains: the playback session each tab continues
    volatile,    \* records localStorage refused, retained in the tab
    fetch,       \* a snapshot on its way to the tab, and the choice it serves
    wake,        \* whether a replay is due: see below
    todo,        \* the records a running replay has still to look at
    sent,        \* the request that replay awaits, None between requests
    reply,       \* the server's answer to it
    lock,        \* holder of the replay lock
    running,     \* the tabs whose replay is in its locked section
    network,     \* POSTs that may still reach the server
    issued,      \* operation ids ever made
    opened,      \* sessions ever opened
    denials, faults

storageVars == <<store, quarantine, cached>>
pageVars == <<base, chain, volatile, fetch>>
replayVars == <<wake, todo, sent, reply, lock, running>>
idVars == <<issued, opened>>
vars == <<serverVars, storageVars, pageVars, replayVars, network, idVars,
          denials, faults>>

\* wake[t]: "none"; "timer", the retry timer is armed; "call", replay() was
\* called; "ready", it wrote out what the tab retained and waits for the lock.
\* A call made while another waits is served by the same pass.
WakeStates == {"none", "timer", "call", "ready"}

Explicit(intent) == intent \in {"seek", "restart", "reset"}

Ids(records) == {r.operation.id : r \in records}

QInit ==
    /\ Init
    /\ store = {} /\ quarantine = {} /\ cached = None
    /\ base = [t \in Tabs |-> None]
    /\ chain = [t \in Tabs |-> None]
    /\ volatile = [t \in Tabs |-> {}]
    /\ fetch = [t \in Tabs |-> None]
    /\ wake = [t \in Tabs |-> "none"]
    /\ todo = [t \in Tabs |-> {}]
    /\ sent = [t \in Tabs |-> None]
    /\ reply = [t \in Tabs |-> None]
    /\ lock = None /\ running = {}
    /\ network = {}
    /\ issued = {} /\ opened = {}
    /\ denials = 0 /\ faults = 0

\* A change of localStorage by tab t raises "storage" events in the others.
NotifyOthers(t) == wake' = [u \in Tabs |-> IF u = t THEN wake[u] ELSE "call"]


ArmTimer(t) == wake' = [wake EXCEPT ![t] = IF @ = "none" THEN "timer" ELSE @]

-----------------------------------------------------------------------------
(* Snapshots: snapshot(), rememberEdition() and prepare().                 *)

\* A page without a base asks for one; the answer may be old when it arrives.
FetchSnapshot(t) ==
    /\ base[t] = None
    /\ fetch[t] = None
    /\ fetch' = [fetch EXCEPT ![t] = [snapshot |-> MediaSnapshot, patch |-> None]]
    /\ UNCHANGED <<serverVars, storageVars, base, chain, volatile, replayVars,
                   network, idVars, denials, faults>>

Install(t, snapshot) ==
    /\ base' = [base EXCEPT ![t] = snapshot]
    /\ cached' = snapshot
    /\ IF cached' = cached THEN UNCHANGED wake ELSE NotifyOthers(t)

InstallSnapshot(t) ==
    /\ fetch[t] # None
    /\ fetch[t].patch = None
    /\ Install(t, fetch[t].snapshot)
    /\ fetch' = [fetch EXCEPT ![t] = None]
    /\ UNCHANGED <<serverVars, store, quarantine, chain, volatile, todo, sent,
                   reply, lock, running, network, idVars, denials, faults>>

AllPresent(fs) == [i \in DOMAIN fs |-> [fs[i] EXCEPT !.missing = FALSE]]

\* What the page of the work makes of the edition: no file counts as missing.
Edition == [MediaSnapshot EXCEPT !.files = AllPresent(files)]

\* Opening that page asks for the edition, in a tab that plays or does not; what
\* comes back is installed over whatever base the tab has by then.
FetchEdition(t) ==
    /\ fetch[t] = None
    /\ fetch' = [fetch EXCEPT ![t] = [snapshot |-> Edition, patch |-> None]]
    /\ UNCHANGED <<serverVars, storageVars, base, chain, volatile, replayVars,
                   network, idVars, denials, faults>>

\* prepare() prefers the base localStorage kept, which nobody verified.
AdoptCachedBase(t) ==
    /\ base[t] = None
    /\ cached # None
    /\ base' = [base EXCEPT ![t] = cached]
    /\ UNCHANGED <<serverVars, storageVars, chain, volatile, fetch, replayVars,
                   network, idVars, denials, faults>>

-----------------------------------------------------------------------------
(* enqueue().                                                              *)

NewChain(session) ==
    [session |-> session, sequence |-> 0, epoch |-> 0, predecessor |-> None]

\* The file a cumulative position falls into, or the last one.
FileAt(fs, position) ==
    CHOOSE i \in DOMAIN fs :
        /\ i = Len(fs) \/ fs[i].duration = 0 \/ Before(fs, i + 1) > position
        /\ \A j \in 1..(i - 1) :
               fs[j].duration > 0 /\ Before(fs, j + 1) <= position

\* expectedGeneration is absent, or the one the player's saver captured when
\* it opened and that the base may have left behind.
ExpectedGenerations(b) == 1..b.generation

NewOperation_MutantUnchained(id, b, c, p, expected) ==
    LET i == FileAt(b.files, p.position)
    IN  [id |-> id, session |-> c.session, sequence |-> c.sequence + 1,
         epoch |-> c.epoch, generation |-> expected, base |-> b.revision,
         reset |-> b.reset, predecessor |-> None, intent |-> p.intent,
         file |-> b.files[i].id, offset |-> p.position - Before(b.files, i),
         position |-> p.position, finished |-> p.intent = "finish"]

\* The operation for patch p in chain c, whose epoch is already advanced.
NewOperation(id, b, c, p, expected) ==
    LET i == FileAt(b.files, p.position)
    IN  [id |-> id, session |-> c.session, sequence |-> c.sequence + 1,
         epoch |-> c.epoch, generation |-> expected, base |-> b.revision,
         reset |-> b.reset, predecessor |-> c.predecessor, intent |-> p.intent,
         file |-> b.files[i].id, offset |-> p.position - Before(b.files, i),
         position |-> p.position, finished |-> p.intent = "finish"]

\* No file, or a missing one up to the one played, makes enqueue throw.
Available(b, p) ==
    /\ b.files # <<>>
    /\ \A j \in 1..FileAt(b.files, p.position) : ~b.files[j].missing

Advance(c, p) ==
    [c EXCEPT !.epoch = IF p.intent = "heartbeat" THEN @ ELSE @ + 1]

Persist_MutantNoFlag(t, b, p, r) ==
    /\ store' = store \cup {r}
    /\ base' = [base EXCEPT ![t] = [b EXCEPT !.conflict = @ /\ ~Explicit(p.intent)]]
    /\ wake' = [u \in Tabs |-> "call"]
    /\ UNCHANGED <<quarantine, volatile, denials>>

\* The record reaches localStorage.  On changed content only a deliberate
\* choice is kept for sending, and it settles the matter for this base.
Persist(t, b, p, r) ==
    /\ store' = store \cup {r}
    /\ quarantine' = IF b.conflict /\ ~Explicit(p.intent)
                     THEN quarantine \cup {r.operation.id} ELSE quarantine
    /\ base' = [base EXCEPT ![t] = [b EXCEPT !.conflict = @ /\ ~Explicit(p.intent)]]
    /\ wake' = [u \in Tabs |-> "call"]
    /\ UNCHANGED <<volatile, denials>>

\* localStorage takes the record and refuses its flag: enqueue throws, and the
\* record waits for the next replay like any other.
PersistUnflagged(t, b, p, r) ==
    /\ b.conflict /\ ~Explicit(p.intent)
    /\ denials < MaxDenials
    /\ denials' = denials + 1
    /\ store' = store \cup {r}
    /\ base' = [base EXCEPT ![t] = b]
    /\ NotifyOthers(t)
    /\ UNCHANGED <<quarantine, volatile>>

\* localStorage refuses it: the tab retains it and will try again.
Retain(t, b, r) ==
    /\ denials < MaxDenials
    /\ denials' = denials + 1
    /\ volatile' = [volatile EXCEPT ![t] = @ \cup {r}]
    /\ base' = [base EXCEPT ![t] = b]
    /\ ArmTimer(t)
    /\ UNCHANGED <<store, quarantine>>

\* Saves p on base b in chain c.  The chain advances before the write and
\* whether or not it succeeds.
Save(t, b, c, p) ==
    LET advanced == Advance(c, p)
    IN  /\ advanced.epoch <= MaxEpoch
        /\ IF Available(b, p)
           THEN \E id \in OperationIds \ issued, now \in Clock,
                   expected \in ExpectedGenerations(b) :
                LET o == NewOperation(id, b, advanced, p, expected)
                    r == [operation |-> o, createdAt |-> now]
                IN  /\ issued' = issued \cup {id}
                    /\ chain' = [chain EXCEPT ![t] =
                           [advanced EXCEPT !.sequence = o.sequence,
                                            !.predecessor = id]]
                    /\ \/ Persist(t, b, p, r)
                       \/ PersistUnflagged(t, b, p, r)
                       \/ Retain(t, b, r)
           ELSE /\ chain' = [chain EXCEPT ![t] = advanced]
                /\ base' = [base EXCEPT ![t] = b]
                /\ UNCHANGED <<store, quarantine, volatile, wake, issued, denials>>

\* The last operation of the tab's session is in conflict.
Blocked(t) == chain[t] # None /\ chain[t].predecessor \in quarantine

\* A completion that is not stored yet holds back the rest of its session.
CompletionPending(t, c) ==
    \E r \in volatile[t] : r.operation.session = c.session /\ r.operation.finished

\* Saves of a tab queue up behind one that awaits its snapshot.
Serial(t) == fetch[t] # None => fetch[t].patch = None

Enqueue(t, p) ==
    /\ base[t] # None
    /\ Serial(t)
    /\ ~Blocked(t)
    /\ \/ /\ chain[t] # None
          /\ ~CompletionPending(t, chain[t])
          /\ Save(t, base[t], chain[t], p)
          /\ UNCHANGED opened
       \/ /\ chain[t] = None
          /\ \E s \in Sessions \ opened :
                 /\ opened' = opened \cup {s}
                 /\ Save(t, base[t], NewChain(s), p)
    /\ UNCHANGED <<serverVars, cached, fetch, todo, sent, reply, lock, running,
                   network, faults>>

\* After a conflict only a deliberate choice is saved, on a fresh snapshot and
\* in a session of its own; enqueue awaits that snapshot.
BeginChoice(t, p) ==
    /\ base[t] # None
    /\ fetch[t] = None
    /\ Blocked(t)
    /\ Explicit(p.intent)
    /\ fetch' = [fetch EXCEPT ![t] = [snapshot |-> MediaSnapshot, patch |-> p]]
    /\ UNCHANGED <<serverVars, storageVars, base, chain, volatile, replayVars,
                   network, idVars, denials, faults>>

FinishChoice(t) ==
    /\ fetch[t] # None
    /\ fetch[t].patch # None
    /\ \E s \in Sessions \ opened :
           /\ opened' = opened \cup {s}
           /\ Save(t, fetch[t].snapshot, NewChain(s), fetch[t].patch)
    /\ cached' = fetch[t].snapshot
    /\ fetch' = [fetch EXCEPT ![t] = None]
    /\ UNCHANGED <<serverVars, todo, sent, reply, lock, running, network, faults>>

\* A heartbeat or a completion after a conflict is answered "quarantined".
RefuseHeartbeat(t) ==
    /\ base[t] # None
    /\ Serial(t)
    /\ Blocked(t)
    /\ wake' = [wake EXCEPT ![t] = "call"]
    /\ UNCHANGED <<serverVars, storageVars, pageVars, todo, sent, reply, lock,
                   running, network, idVars, denials, faults>>

-----------------------------------------------------------------------------
(* replay().                                                               *)

\* It first writes out what the tab retained, in the order it was saved; if
\* storage still refuses one, the timer is armed and nothing is sent.
Flush(t) ==
    /\ wake[t] \in {"call", "timer"}
    /\ volatile[t] # {}
    /\ \E kept \in SUBSET volatile[t] :
           /\ \A r \in volatile[t] \ kept, k \in kept :
                  r.operation.session = k.operation.session
                      => r.operation.sequence < k.operation.sequence
           /\ denials' = IF kept = {} THEN denials ELSE denials + 1
           /\ denials' <= MaxDenials
           /\ store' = store \cup (volatile[t] \ kept)
           /\ volatile' = [volatile EXCEPT ![t] = kept]
           /\ wake' = [u \in Tabs |->
                          IF u = t THEN IF kept = {} THEN "ready" ELSE "timer"
                          ELSE IF store' = store THEN wake[u] ELSE "call"]
    /\ UNCHANGED <<serverVars, quarantine, cached, base, chain, fetch, todo,
                   sent, reply, lock, running, network, idVars, faults>>

Due(t) == wake[t] = "ready" \/ (wake[t] \in {"call", "timer"} /\ volatile[t] = {})

Acquire_MutantSendsRetained(t) ==
    /\ wake[t] # "none"
    /\ lock = None
    /\ t \notin running
    /\ lock' = t
    /\ running' = running \cup {t}
    /\ wake' = [wake EXCEPT ![t] = "none"]
    /\ todo' = [todo EXCEPT ![t] = store \cup volatile[t]]
    /\ UNCHANGED <<serverVars, storageVars, pageVars, sent, reply, network,
                   idVars, denials, faults>>

Acquire(t) ==
    /\ Due(t)
    /\ lock = None
    /\ t \notin running
    /\ lock' = t
    /\ running' = running \cup {t}
    /\ wake' = [wake EXCEPT ![t] = "none"]
    /\ todo' = [todo EXCEPT ![t] = store]
    /\ UNCHANGED <<serverVars, storageVars, pageVars, sent, reply, network,
                   idVars, denials, faults>>

\* Without Web Locks a held lease fails the replay instead of queueing it.
LeaseHeld(t) ==
    /\ Leases
    /\ Due(t)
    /\ wake[t] # "timer"
    /\ lock # None
    /\ wake' = [wake EXCEPT ![t] = "timer"]
    /\ UNCHANGED <<serverVars, storageVars, pageVars, todo, sent, reply, lock,
                   running, network, idVars, denials, faults>>

Earlier_MutantTies(r, q) == r.createdAt < q.createdAt

\* records() sorts by creation time, then by sequence within a session; a tie
\* between sessions is broken by their random ids.
Earlier(r, q) ==
    \/ r.createdAt < q.createdAt
    \/ /\ r.createdAt = q.createdAt
       /\ r.operation.session = q.operation.session
       /\ r.operation.sequence < q.operation.sequence

\* What the loop may look at next; it passes over what is quarantined.
Heads(t) ==
    LET left == {r \in todo[t] : r.operation.id \notin quarantine}
    IN  {r \in left : \A q \in left : ~Earlier(q, r)}

Looping(t) == lock = t /\ t \in running /\ sent[t] = None

\* What depends on a conflicting save is quarantined without being sent.
CascadeConflict(t) ==
    /\ Looping(t)
    /\ \E r \in Heads(t) :
           /\ r.operation.predecessor \in quarantine
           /\ quarantine' = quarantine \cup {r.operation.id}
           /\ todo' = [todo EXCEPT ![t] = @ \ {r}]
    /\ NotifyOthers(t)
    /\ UNCHANGED <<serverVars, store, cached, pageVars, sent, reply, lock,
                   running, network, idVars, denials, faults>>

\* GET /media-operations/{id} and, on 404, POST /media-operations.  `attempt`
\* tells the requests for one operation apart.
Request(t) ==
    /\ Looping(t)
    /\ \E r \in Heads(t) :
           /\ r.operation.predecessor \notin quarantine
           /\ sent' = [sent EXCEPT ![t] = [record |-> r, attempt |-> faults]]
           /\ IF r.operation.id \in DOMAIN receipts
              THEN /\ reply' = [reply EXCEPT ![t] = "receipt"]
                   /\ UNCHANGED network
              ELSE /\ network' = network \cup {sent'[t]}
                   /\ UNCHANGED reply
    /\ UNCHANGED <<serverVars, storageVars, pageVars, wake, todo, lock, running,
                   idVars, denials, faults>>

\* The server handles a POST, which may be one its sender has given up on.
Serve(request) ==
    /\ request \in network
    /\ network' = network \ {request}
    /\ ApplyMediaOperation(request.record.operation)
    /\ reply' = [t \in Tabs |->
                    IF sent[t] = request THEN Outcome(request.record.operation)
                    ELSE reply[t]]
    /\ UNCHANGED <<storageVars, pageVars, wake, todo, sent, lock, running,
                   idVars, denials, faults>>

\* The answer was read: the loop goes on to the next record.
Answered(t) ==
    /\ lock = t /\ sent[t] # None
    /\ todo' = [todo EXCEPT ![t] = @ \ {sent[t].record}]
    /\ sent' = [sent EXCEPT ![t] = None]
    /\ reply' = [reply EXCEPT ![t] = None]
    /\ NotifyOthers(t)
    /\ UNCHANGED <<serverVars, chain, volatile, fetch, lock, running, network,
                   idVars, denials, faults>>

Acknowledged_MutantTombstone(b, o) ==
    [b EXCEPT !.revision = receipts[o.id].revision,
              !.reset = receipts[o.id].reset,
              !.position = o.position, !.finished = o.finished]

\* What operation o made of the base b.
Acknowledged(b, o) ==
    [b EXCEPT !.revision = receipts[o.id].revision,
              !.reset = receipts[o.id].reset,
              !.position = o.position, !.finished = o.finished,
              !.deleted = o.intent = "reset"]

\* A receipt moves the tab's base, and only then is the record removed.
Settle(t) ==
    /\ reply[t] \in {"accept", "receipt"}
    /\ Answered(t)
    /\ IF base[t] = None THEN UNCHANGED <<base, cached>>
       ELSE /\ base' = [base EXCEPT ![t] = Acknowledged(@, sent[t].record.operation)]
            /\ cached' = base'[t]
    /\ store' = store \ {sent[t].record}
    /\ UNCHANGED quarantine

Quarantine_MutantDiscards(t) ==
    /\ reply[t] \in {"conflict", "envelope"}
    /\ Answered(t)
    /\ quarantine' = quarantine \cup {sent[t].record.operation.id}
    /\ store' = store \ {sent[t].record}
    /\ UNCHANGED <<cached, base>>

\* 409 and 400 keep the record and flag it.
Quarantine(t) ==
    /\ reply[t] \in {"conflict", "envelope"}
    /\ Answered(t)
    /\ quarantine' = quarantine \cup {sent[t].record.operation.id}
    /\ UNCHANGED <<store, cached, base>>

\* The replay of t leaves its locked section and drops what it had read.
Leave(t) ==
    /\ running' = running \ {t}
    /\ todo' = [todo EXCEPT ![t] = {}]
    /\ sent' = [sent EXCEPT ![t] = None]
    /\ reply' = [reply EXCEPT ![t] = None]
    /\ lock' = IF lock = t THEN None ELSE lock

\* Every record was looked at; the retry timer is cancelled.
FinishReplay(t) ==
    /\ Looping(t)
    /\ Heads(t) = {}
    /\ Leave(t)
    /\ wake' = [wake EXCEPT ![t] = IF @ = "timer" THEN "none" ELSE @]
    /\ UNCHANGED <<serverVars, storageVars, pageVars, network, idVars, denials,
                   faults>>

-----------------------------------------------------------------------------
(* Failures.                                                               *)

\* A request fails or times out, before or after the server handled it: the
\* whole replay ends and the timer is armed.
GiveUp(t) ==
    /\ lock = t /\ t \in running
    /\ sent[t] # None \/ Heads(t) # {}
    /\ faults < MaxFaults
    /\ faults' = faults + 1
    /\ Leave(t)
    /\ ArmTimer(t)
    /\ UNCHANGED <<serverVars, storageVars, pageVars, network, idVars, denials>>

\* The page is reloaded or its login replaced: its memory goes, localStorage
\* and keepalive POSTs stay, and the new page's GET /me replays.
Reload(t) ==
    /\ Reloads
    /\ faults < MaxFaults
    /\ faults' = faults + 1
    /\ base' = [base EXCEPT ![t] = None]
    /\ chain' = [chain EXCEPT ![t] = None]
    /\ volatile' = [volatile EXCEPT ![t] = {}]
    /\ fetch' = [fetch EXCEPT ![t] = None]
    /\ wake' = [wake EXCEPT ![t] = "call"]
    /\ Leave(t)
    /\ UNCHANGED <<serverVars, storageVars, network, idVars, denials>>

\* Without Web Locks the lease can run out under a tab that is suspended.
ExpireLease(t) ==
    /\ Leases
    /\ lock = t
    /\ faults < MaxFaults
    /\ faults' = faults + 1
    /\ lock' = None
    /\ UNCHANGED <<serverVars, storageVars, pageVars, wake, todo, sent, reply,
                   running, network, idVars, denials>>

\* The tab notices at its next check of owns(): around a request that is an
\* error and arms the timer, between records it is a plain return.
NoticeExpiry(t) ==
    /\ t \in running /\ lock # t
    /\ Leave(t)
    /\ IF sent[t] # None THEN ArmTimer(t)
       ELSE wake' = [wake EXCEPT ![t] = IF @ = "timer" THEN "none" ELSE @]
    /\ UNCHANGED <<serverVars, storageVars, pageVars, network, idVars, denials,
                   faults>>

-----------------------------------------------------------------------------
\* What the code does of its own once a replay is due.
ReplayStep(t) ==
    \/ Flush(t) \/ Acquire(t) \/ LeaseHeld(t)
    \/ CascadeConflict(t) \/ Request(t) \/ Settle(t) \/ Quarantine(t)
    \/ FinishReplay(t) \/ NoticeExpiry(t)

TabNext(t) ==
    \/ FetchSnapshot(t) \/ InstallSnapshot(t) \/ FetchEdition(t)
    \/ AdoptCachedBase(t)
    \/ \E p \in Patches : Enqueue(t, p) \/ BeginChoice(t, p)
    \/ FinishChoice(t) \/ RefuseHeartbeat(t)
    \/ ReplayStep(t)
    \/ GiveUp(t) \/ Reload(t) \/ ExpireLease(t)

OtherWriters ==
    /\ CompatibilityWrite \/ \E fs \in FileLists : Rescan(fs)
    /\ UNCHANGED <<storageVars, pageVars, replayVars, network, idVars, denials,
                   faults>>

QNext ==
    \/ \E t \in Tabs : TabNext(t)
    \/ \E request \in network : Serve(request)
    \/ OtherWriters

QSpec == QInit /\ [][QNext]_vars

\* replay() runs on: the browser grants the lock, the timers fire and every
\* request that is not given up is answered.
Fairness ==
    /\ \A t \in Tabs : WF_vars(ReplayStep(t))
    /\ WF_vars(\E request \in network : Serve(request))

FairQSpec == QSpec /\ Fairness

-----------------------------------------------------------------------------
(* Properties.                                                             *)

\* Types, and: the replay lock is held by a tab that replays.
QTypeOK ==
    /\ TypeOK
    /\ store \subseteq Stored
    /\ quarantine \subseteq OperationIds
    /\ cached \in Snapshot \cup {None}
    /\ base \in [Tabs -> Snapshot \cup {None}]
    /\ chain \in [Tabs -> Chain \cup {None}]
    /\ volatile \in [Tabs -> SUBSET Stored]
    /\ fetch \in [Tabs -> Fetched \cup {None}]
    /\ wake \in [Tabs -> WakeStates]
    /\ todo \in [Tabs -> SUBSET Stored]
    /\ sent \in [Tabs -> Posted \cup {None}]
    /\ reply \in [Tabs -> Replies \cup {None}]
    /\ lock \in running \cup {None}
    /\ running \subseteq Tabs
    /\ network \subseteq Posted
    /\ issued \subseteq OperationIds /\ opened \subseteq Sessions
    /\ denials \in Nat /\ faults \in Nat

\* "Storage failure prevents mutation traffic" (DECISIONS 61): an operation a
\* tab could not persist is not on its way to the server, let alone applied.
PersistedBeforeSent ==
    \A t \in Tabs : \A id \in Ids(volatile[t]) :
        /\ id \notin DOMAIN receipts
        /\ \A request \in network : request.record.operation.id # id

\* Both of it, for the runs: the queue is well formed, and what it sends is in
\* localStorage first.
SentAsPersisted == QTypeOK /\ PersistedBeforeSent

\* "Operations are retained until explicit settlement" (DECISIONS 61): a
\* record leaves localStorage only when the server holds its very envelope,
\* and a refused record leaves its tab only for localStorage or with the page.
RetainedUntilSettled ==
    [][/\ \A r \in store \ store' :
             /\ r.operation.id \in DOMAIN receipts
             /\ receipts[r.operation.id].envelope = r.operation
       /\ \A t \in Tabs : \A r \in volatile[t] \ volatile'[t] :
             r \in store' \/ base'[t] = None]_vars

\* A session's operations take effect in the order they were made and as one
\* unbroken run of revisions, whatever is lost, repeated, reordered by the
\* clock or replayed by another tab.
SessionsApplyInOrder ==
    \A a, b \in DOMAIN receipts :
        LET x == receipts[a].envelope
            y == receipts[b].envelope
        IN  x.session = y.session =>
                receipts[b].revision - receipts[a].revision
                    = y.sequence - x.sequence

\* A save flagged as conflicting was not applied and never will be, so that
\* the choice that replaces it cannot be overtaken by it.  The exception is a
\* save that continues another: refused while its predecessor was missing, it
\* is accepted where the predecessor arrives and an earlier POST comes late.
ConflictsStayUnapplied ==
    \A id \in quarantine \cap DOMAIN receipts :
        receipts[id].envelope.predecessor # None

\* What a tab believes about a revision is what the server made of it: the
\* base that Settle computes locally agrees with the row at that revision.
BasesAgree ==
    \A t \in Tabs : base[t] # None =>
        /\ base[t].revision <= row.revision
        /\ base[t].revision = row.revision =>
               /\ base[t].reset = row.reset
               /\ base[t].finished = row.finished
               /\ base[t].deleted = row.deleted

\* Where nobody else writes, the timeline stands still, storage refuses nothing
\* and only messages are lost, late or repeated, nothing conflicts but a
\* heartbeat that steps back, and what was saved after it in the same session.
OnlyStepsBackConflict ==
    denials = 0 =>
        \A r \in store : r.operation.id \in quarantine =>
            \E q \in store :
                /\ q.operation.session = r.operation.session
                /\ q.operation.sequence <= r.operation.sequence
                /\ q.operation.id \in quarantine
                /\ q.operation.intent = "heartbeat"

\* "Conflicts ... require a deliberate new seek or restart" (DECISIONS 61): a
\* heartbeat or a completion takes effect over content that changed or was
\* never proven only as the first of its session, and only while a browser
\* still holds a deliberate choice that the server has not taken.  The server
\* does not check this: its clients do, on bases that may be old.
OnlyChosenContinues ==
    [][(/\ row'.operation # None
        /\ row'.operation # row.operation
        /\ ~Explicit(receipts'[row'.operation].envelope.intent)
        /\ ResumeConflict)
       => /\ receipts'[row'.operation].envelope.predecessor = None
          /\ \E r \in store : /\ Explicit(r.operation.intent)
                              /\ r.operation.id \notin DOMAIN receipts]_vars


=============================================================================
