------------------------------ MODULE ScanJobs ------------------------------
(***************************************************************************)
(* Library scans: the watcher (internal/watch/watch.go) that debounces     *)
(* file events into scans, the admission and job machinery of the core API *)
(* (internal/api/core/core.go) shared with POST /libraries/{id}/scan, the  *)
(* scan_jobs rows (internal/store/scanjobs.go) and the event stream of a   *)
(* run.  Row and goroutine identities are reused once nothing refers to    *)
(* them, so that a finite set of them serves endless behaviours.           *)
(***************************************************************************)
EXTENDS Integers, FiniteSets, Sequences

CONSTANTS ScanLibraries,  \* the libraries that may be added; none is deleted
          ScanJobIds,     \* identities of job rows
          ScanFires,      \* concurrent timer callbacks (a bound)
          ScanNone,
          ScanBudgets,    \* bounds of a behaviour: file changes, periodic sweeps, failing inserts
                          \* and updates of scan_jobs, restarts, clients of the event stream
          ScanChannel     \* capacity of a subscriber's channel (128 in the code)

ASSUME ScanAssumption == ScanNone \notin ScanLibraries \cup ScanJobIds /\ ScanChannel \in Nat

Sweeper == "sweep"
ScanCallers == ScanFires \cup {Sweeper}

VARIABLES scanRow,    \* scan_jobs.status by job
          scanLast,   \* the newest job row of a library
          scanRuns,   \* API.runs: the registered run of a library
          scanJob,    \* the goroutine of a job: where it is, its outcome, its failed writes
          scanLife,   \* "up", then the steps of a shutdown
          scanTimer,  \* Watcher.timers: whether the entry of a library holds a pending timer
          scanLoose,  \* pending timers whose entry an older callback deleted
          scanCall,   \* calls of triggerAndWait under way: timer callbacks and scanAll
          scanTodo,   \* libraries scanAll has still to visit, and which pass it makes
          scanKnown,  \* rows of libraries
          scanArmed,  \* libraries whose directories are watched
          scanUnseen, \* libraries with a change no later scan has begun for
          scanNotices,\* file events not yet handled
          scanSub,    \* one client of the event stream
          scanBudget  \* what is left of the bounds

scanJobVars == <<scanRow, scanLast, scanRuns, scanJob>>
scanWatchVars == <<scanTimer, scanLoose, scanCall, scanTodo, scanKnown, scanArmed>>
scanVars == <<scanJobVars, scanWatchVars, scanLife, scanUnseen, scanNotices, scanSub, scanBudget>>

NoJob == [at |-> "gone", outcome |-> "done", failed |-> 0, lib |-> ScanNone]
NoCall == [at |-> "idle", lib |-> ScanNone]
NoSub == [at |-> "away", run |-> ScanNone, queue |-> <<>>, got |-> "nothing"]

ScanInit ==
    /\ scanRow = [j \in ScanJobIds |-> "free"]
    /\ scanLast = [l \in ScanLibraries |-> ScanNone]
    /\ scanRuns = [l \in ScanLibraries |-> ScanNone]
    /\ scanJob = [j \in ScanJobIds |-> NoJob]
    /\ scanLife = "up"
    /\ scanTimer = [l \in ScanLibraries |-> "none"]
    /\ scanLoose = [l \in ScanLibraries |-> 0]
    /\ scanCall = [c \in ScanCallers |-> NoCall]
    /\ scanTodo = [libs |-> {}, pass |-> "due"]
    /\ scanKnown = {} /\ scanArmed = {}
    /\ scanUnseen = {} /\ scanNotices = {} /\ scanSub = NoSub
    /\ scanBudget \in ScanBudgets

Stopped == scanLife # "up"
(* scanRun.closed: finish ran; a run withdrawn before its launch never closes. *)
Closed(j) == scanJob[j].at \in {"remove", "gone"} /\ scanJob[j].outcome # "withdrawn"
Newest(l) == IF scanLast[l] = ScanNone THEN "idle" ELSE scanRow[scanLast[l]]
Terminal == {"done", "error", "interrupted"}

-----------------------------------------------------------------------------
(* The watcher.                                                            *)

AddLibrary(l) ==
    /\ l \notin scanKnown
    /\ scanKnown' = scanKnown \cup {l}
    /\ UNCHANGED <<scanJobVars, scanTimer, scanLoose, scanCall, scanTodo, scanArmed, scanLife, scanUnseen,
                    scanNotices, scanSub, scanBudget>>

FileChanges(l) ==
    /\ l \in scanKnown /\ scanBudget.changes > 0
    /\ scanBudget' = [scanBudget EXCEPT !.changes = @ - 1]
    /\ scanUnseen' = scanUnseen \cup {l}
    /\ scanNotices' = IF scanLife = "up" /\ l \in scanArmed THEN scanNotices \cup {l} ELSE scanNotices
    /\ UNCHANGED <<scanJobVars, scanWatchVars, scanLife, scanSub>>

MarkDirty(libs) == [l \in ScanLibraries |-> IF l \in libs /\ ~Stopped THEN "armed" ELSE scanTimer[l]]

(* One event, or an overflow of the event queue, which marks every library. *)
HandleEvent ==
    /\ ~Stopped
    /\ \E libs \in {{l} : l \in scanNotices} \cup {IF scanNotices = {} THEN {} ELSE ScanLibraries} :
          /\ libs # {}
          /\ scanTimer' = MarkDirty(libs)
          /\ scanNotices' = scanNotices \ libs
    /\ UNCHANGED <<scanJobVars, scanLoose, scanCall, scanTodo, scanKnown, scanArmed, scanLife, scanUnseen, scanSub, scanBudget>>

(* syncLibraries: a root armed just now is marked, for what was dropped before it was watched. *)
SyncLibraries ==
    /\ ~Stopped /\ scanKnown # scanArmed
    /\ scanArmed' = scanKnown
    /\ scanTimer' = MarkDirty(scanKnown \ scanArmed)
    /\ UNCHANGED <<scanJobVars, scanLoose, scanCall, scanTodo, scanKnown, scanLife, scanUnseen, scanNotices, scanSub, scanBudget>>

(* A debounce timer expires: its callback starts and waits for the lock.   *)
Expire(l) ==
    /\ \E c \in ScanFires :
          /\ scanCall[c].at = "idle"
          /\ scanCall' = [scanCall EXCEPT ![c] = [at |-> "callback", lib |-> l]]
    /\ \/ scanTimer[l] = "armed" /\ scanTimer' = [scanTimer EXCEPT ![l] = "none"] /\ UNCHANGED scanLoose
       \/ scanLoose[l] > 0 /\ scanLoose' = [scanLoose EXCEPT ![l] = @ - 1] /\ UNCHANGED scanTimer
    /\ UNCHANGED <<scanJobVars, scanTodo, scanKnown, scanArmed, scanLife, scanUnseen, scanNotices, scanSub, scanBudget>>

(* fire deletes the library's entry, whichever timer it holds.             *)
Fire(c) ==
    LET l == scanCall[c].lib IN
    /\ scanCall[c].at = "callback"
    /\ IF Stopped
       THEN scanCall' = [scanCall EXCEPT ![c] = NoCall] /\ UNCHANGED <<scanTimer, scanLoose>>
       ELSE /\ scanCall' = [scanCall EXCEPT ![c].at = "check"]
            /\ scanTimer' = [scanTimer EXCEPT ![l] = "none"]
            /\ scanLoose' = [scanLoose EXCEPT ![l] = IF scanTimer[l] = "armed" THEN @ + 1 ELSE @]
    /\ UNCHANGED <<scanJobVars, scanTodo, scanKnown, scanArmed, scanLife, scanUnseen, scanNotices, scanSub, scanBudget>>

StartSweep ==
    /\ ~Stopped /\ scanTodo.libs = {} /\ scanCall[Sweeper].at = "idle"
    /\ \/ scanTodo.pass = "due" /\ scanTodo' = [libs |-> scanKnown, pass |-> "boot"]
          /\ UNCHANGED scanBudget
       \/ /\ scanBudget.sweeps > 0 /\ scanTodo.pass # "due"
          /\ scanTodo' = [libs |-> scanKnown, pass |-> "sweep"]
          /\ scanBudget' = [scanBudget EXCEPT !.sweeps = @ - 1]
    /\ UNCHANGED <<scanJobVars, scanTimer, scanLoose, scanCall, scanKnown, scanArmed, scanLife, scanUnseen, scanNotices, scanSub>>

Stale_MutantNever(l) == IF Newest(l) \in {"running", "interrupted"} THEN {FALSE} ELSE {TRUE}

(* staleLibrary: a library whose last scan is done may be old enough or not. *)
Stale(l) == CASE Newest(l) = "running" -> {FALSE}
              [] Newest(l) = "done"    -> BOOLEAN
              [] OTHER                 -> {TRUE}

SweepNext(l) ==
    /\ scanCall[Sweeper].at = "idle" /\ l \in scanTodo.libs
    /\ IF Stopped
       THEN scanTodo' = [scanTodo EXCEPT !.libs = {}] /\ UNCHANGED scanCall
       ELSE /\ scanTodo' = [scanTodo EXCEPT !.libs = @ \ {l}]
            /\ \E include \in IF scanTodo.pass = "boot" THEN Stale(l) ELSE {TRUE} :
                  scanCall' = IF include THEN [scanCall EXCEPT ![Sweeper] = [at |-> "check", lib |-> l]] ELSE scanCall
    /\ UNCHANGED <<scanJobVars, scanTimer, scanLoose, scanKnown, scanArmed, scanLife, scanUnseen, scanNotices, scanSub, scanBudget>>

-----------------------------------------------------------------------------
(* Admission: TriggerScan and POST /libraries/{id}/scan.                   *)

FreeJobs == {j \in ScanJobIds : /\ scanJob[j].at = "gone"
                                /\ ~(scanSub.at \in {"lookup", "open"} /\ scanSub.run = j)
                                /\ \A l \in ScanLibraries : scanLast[l] # j /\ scanRuns[l] # j}

Open(l) == scanRuns[l] # ScanNone /\ ~Closed(scanRuns[l])

Register(l) == \E j \in FreeJobs :
    /\ scanRow' = [i \in ScanJobIds |-> IF i = j THEN "running" ELSE IF i \in FreeJobs THEN "free" ELSE scanRow[i]]
    /\ scanLast' = [scanLast EXCEPT ![l] = j]
    /\ scanRuns' = [scanRuns EXCEPT ![l] = j]
    /\ scanJob' = [i \in ScanJobIds |-> IF i = j THEN [NoJob EXCEPT !.at = "launch", !.lib = l]
                                        ELSE IF i \in FreeJobs THEN NoJob ELSE scanJob[i]]

(* The row check of TriggerScan, before its lock.                          *)
CheckRow(c) ==
    /\ scanCall[c].at = "check"
    /\ scanCall' = [scanCall EXCEPT ![c].at = IF Newest(scanCall[c].lib) = "running" THEN "rearm" ELSE "admit"]
    /\ UNCHANGED <<scanJobVars, scanTimer, scanLoose, scanTodo, scanKnown, scanArmed, scanLife, scanUnseen, scanNotices, scanSub, scanBudget>>

AdmitScan(c) ==
    LET l == scanCall[c].lib IN
    /\ scanCall[c].at = "admit"
    /\ IF Open(l)
       THEN scanCall' = [scanCall EXCEPT ![c].at = "rearm"] /\ UNCHANGED scanJobVars
       ELSE scanCall' = [scanCall EXCEPT ![c] = NoCall] /\ Register(l)
    /\ UNCHANGED <<scanTimer, scanLoose, scanTodo, scanKnown, scanArmed, scanLife, scanUnseen, scanNotices, scanSub, scanBudget>>

(* CreateScanJob fails: the entry of a closed run is gone, and the watcher drops the change. *)
AdmitScanFails(c) ==
    LET l == scanCall[c].lib IN
    /\ scanCall[c].at = "admit" /\ ~Open(l) /\ scanBudget.inserts > 0
    /\ scanRuns' = [scanRuns EXCEPT ![l] = ScanNone]
    /\ scanCall' = [scanCall EXCEPT ![c] = NoCall]
    /\ scanBudget' = [scanBudget EXCEPT !.inserts = @ - 1]
    /\ UNCHANGED <<scanRow, scanLast, scanJob, scanTimer, scanLoose, scanTodo, scanKnown, scanArmed, scanLife, scanUnseen, scanNotices, scanSub>>

Rearm_MutantDrop(c) ==
    /\ scanCall[c].at = "rearm"
    /\ scanCall' = [scanCall EXCEPT ![c] = NoCall]
    /\ scanTimer' = IF Newest(scanCall[c].lib) = "running" THEN MarkDirty({scanCall[c].lib}) ELSE scanTimer
    /\ UNCHANGED <<scanJobVars, scanLoose, scanTodo, scanKnown, scanArmed, scanLife, scanUnseen, scanNotices, scanSub, scanBudget>>

(* triggerAndWait re-arms on ErrScanRunning.                               *)
Rearm(c) ==
    /\ scanCall[c].at = "rearm"
    /\ scanTimer' = MarkDirty({scanCall[c].lib})
    /\ scanCall' = [scanCall EXCEPT ![c] = NoCall]
    /\ UNCHANGED <<scanJobVars, scanLoose, scanTodo, scanKnown, scanArmed, scanLife, scanUnseen, scanNotices, scanSub, scanBudget>>

(* The handler admits under one lock; a scan that just finished may be inside scanDedupWindow. *)
PostScan(l) ==
    /\ scanLife \in {"up", "cancelled"}
    /\ l \in scanKnown /\ ~Open(l) /\ Newest(l) # "running"
    /\ Register(l)
    /\ UNCHANGED <<scanWatchVars, scanLife, scanUnseen, scanNotices, scanSub, scanBudget>>

-----------------------------------------------------------------------------
(* The job goroutine.                                                      *)

ScanStep(j, to) == scanJob' = [scanJob EXCEPT ![j].at = to]

(* launchJob: once jobs are closing the run is withdrawn and its row failed, if that one write succeeds. *)
Launch(j) ==
    LET l == scanJob[j].lib IN
    /\ scanJob[j].at = "launch"
    /\ IF scanLife \in {"closing", "down"}
       THEN /\ scanJob' = [scanJob EXCEPT ![j].at = "gone", ![j].outcome = "withdrawn"]
            /\ scanRuns' = [scanRuns EXCEPT ![l] = ScanNone]
            /\ scanRow' \in {scanRow, [scanRow EXCEPT ![j] = "error"]}
            /\ UNCHANGED scanUnseen
       ELSE /\ ScanStep(j, "scanning")
            /\ scanUnseen' = scanUnseen \ {l}
            /\ UNCHANGED <<scanRow, scanRuns>>
    /\ UNCHANGED <<scanLast, scanWatchVars, scanLife, scanNotices, scanSub, scanBudget>>

Listening(j) == scanSub.at = "open" /\ scanSub.run = j
Sent(j, status) ==
    IF Listening(j) /\ Len(scanSub.queue) < ScanChannel
    THEN [scanSub EXCEPT !.queue = Append(@, status)] ELSE scanSub

PublishRun(j) ==
    /\ scanJob[j].at = "scanning"
    /\ Listening(j) /\ Len(scanSub.queue) < ScanChannel
    /\ scanSub' = Sent(j, "running")
    /\ UNCHANGED <<scanJobVars, scanWatchVars, scanLife, scanUnseen, scanNotices, scanBudget>>

(* The scan returns: done, failed, or cancelled by the shutdown; or it     *)
(* panics, and its registration goes before its outcome is written.        *)
RunReturns(j) ==
    /\ scanJob[j].at = "scanning"
    /\ \/ \E outcome \in IF Stopped THEN {"error"} ELSE {"done", "error"} :
             scanJob' = [scanJob EXCEPT ![j].at = "persist", ![j].outcome = outcome]
       \/ scanJob' = [scanJob EXCEPT ![j].at = "unregister", ![j].outcome = "error"]
    /\ UNCHANGED <<scanRow, scanLast, scanRuns, scanWatchVars, scanLife, scanUnseen, scanNotices, scanSub, scanBudget>>

Unregistered_MutantAny(j) == [scanRuns EXCEPT ![scanJob[j].lib] = ScanNone]

Unregistered(j) == [l \in ScanLibraries |-> IF scanRuns[l] = j THEN ScanNone ELSE scanRuns[l]]

Unregister(j) ==
    /\ scanJob[j].at \in {"unregister", "remove"}
    /\ scanRuns' = Unregistered(j)
    /\ ScanStep(j, IF scanJob[j].at = "remove" THEN "gone" ELSE "persist")
    /\ UNCHANGED <<scanRow, scanLast, scanWatchVars, scanLife, scanUnseen, scanNotices, scanSub, scanBudget>>

(* persistScanTerminal: three attempts, then the row is left as it is.     *)
Persist(j) ==
    /\ scanJob[j].at = "persist"
    /\ \/ /\ scanRow' = [scanRow EXCEPT ![j] = scanJob[j].outcome]
          /\ ScanStep(j, "finish")
          /\ UNCHANGED scanBudget
       \/ /\ scanBudget.updates > 0
          /\ scanBudget' = [scanBudget EXCEPT !.updates = @ - 1]
          /\ scanJob' = [scanJob EXCEPT ![j].failed = @ + 1, ![j].at = IF scanJob[j].failed = 2 THEN "finish" ELSE @]
          /\ UNCHANGED scanRow
    /\ UNCHANGED <<scanLast, scanRuns, scanWatchVars, scanLife, scanUnseen, scanNotices, scanSub>>

FinishRun(j) ==
    /\ scanJob[j].at = "finish"
    /\ ScanStep(j, "remove")
    /\ scanSub' = Sent(j, scanJob[j].outcome)
    /\ UNCHANGED <<scanRow, scanLast, scanRuns, scanWatchVars, scanLife, scanUnseen, scanNotices, scanBudget>>

-----------------------------------------------------------------------------
(* The event stream: scanEvents.                                           *)

AnswerSnapshot(l) == [NoSub EXCEPT !.at = "answered", !.got = Newest(l)]

ConnectStream(l) ==
    /\ scanBudget.streams /\ scanSub.at = "away" /\ ~Stopped /\ l \in scanKnown
    /\ scanSub' = IF scanRuns[l] = ScanNone THEN AnswerSnapshot(l) ELSE [NoSub EXCEPT !.at = "lookup", !.run = scanRuns[l]]
    /\ UNCHANGED <<scanJobVars, scanWatchVars, scanLife, scanUnseen, scanNotices, scanBudget>>

SubscribeRun ==
    /\ scanSub.at = "lookup"
    /\ scanSub' = IF Closed(scanSub.run) THEN AnswerSnapshot(scanJob[scanSub.run].lib)
                  ELSE [scanSub EXCEPT !.at = "open", !.got = "running"]
    /\ UNCHANGED <<scanJobVars, scanWatchVars, scanLife, scanUnseen, scanNotices, scanBudget>>

ReceiveEvent_MutantEvents ==
    /\ scanSub.at = "open" /\ scanSub.queue # <<>>
    /\ scanSub' = [scanSub EXCEPT !.got = Head(@), !.queue = Tail(@),
                                  !.at = IF Head(scanSub.queue) = "running" THEN "open" ELSE "final"]
    /\ UNCHANGED <<scanJobVars, scanWatchVars, scanLife, scanUnseen, scanNotices, scanBudget>>

ReceiveEvent ==
    /\ scanSub.at = "open"
    /\ \/ /\ scanSub.queue # <<>>
          /\ scanSub' = [scanSub EXCEPT !.got = Head(@), !.queue = Tail(@),
                                        !.at = IF Head(scanSub.queue) = "running" THEN "open" ELSE "final"]
       \/ /\ Closed(scanSub.run)
          /\ scanSub' = [scanSub EXCEPT !.got = scanJob[scanSub.run].outcome, !.at = "final"]
    /\ UNCHANGED <<scanJobVars, scanWatchVars, scanLife, scanUnseen, scanNotices, scanBudget>>

Disconnect ==
    /\ scanSub.at \notin {"away", "lookup"}
    /\ scanSub' = NoSub
    /\ UNCHANGED <<scanJobVars, scanWatchVars, scanLife, scanUnseen, scanNotices, scanBudget>>

-----------------------------------------------------------------------------
(* ShutDown (cmd/libteca/main.go), crash and restart.                      *)

(* The context is cancelled and the watcher stops its timers; then the jobs close; WaitJobs returns. *)
ShutDown ==
    /\ scanBudget.restarts > 0
    /\ scanLife' = CASE scanLife = "up" -> "cancelled" [] scanLife = "cancelled" -> "closing" [] OTHER -> "down"
    /\ scanLife = "closing" => \A j \in ScanJobIds : scanJob[j].at \in {"gone", "launch"}
    /\ scanLife # "down"
    /\ scanTimer' = IF scanLife = "up" THEN [l \in ScanLibraries |-> "none"] ELSE scanTimer
    /\ UNCHANGED <<scanJobVars, scanLoose, scanCall, scanTodo, scanKnown, scanArmed, scanUnseen, scanNotices, scanSub, scanBudget>>

(* New marks the rows a dead process left running; the boot pass follows.  Changes the dead process had not scanned are
   left to that pass, if it includes their library, and to later sweeps. *)
StartAgain ==
    /\ scanBudget.restarts > 0
    /\ scanBudget' = [scanBudget EXCEPT !.restarts = @ - 1]
    /\ scanRow' = [j \in ScanJobIds |-> IF scanRow[j] = "running" THEN "interrupted" ELSE scanRow[j]]
    /\ scanRuns' = [l \in ScanLibraries |-> ScanNone]
    /\ scanJob' = [j \in ScanJobIds |-> NoJob]
    /\ scanLife' = "up"
    /\ scanTimer' = [l \in ScanLibraries |-> "none"]
    /\ scanLoose' = [l \in ScanLibraries |-> 0]
    /\ scanCall' = [c \in ScanCallers |-> NoCall]
    /\ scanTodo' = [libs |-> {}, pass |-> "due"]
    /\ scanArmed' = scanKnown
    /\ scanNotices' = {} /\ scanSub' = NoSub
    /\ scanUnseen' = {}
    /\ UNCHANGED <<scanLast, scanKnown>>

ScanCaller(c) == Fire(c) \/ CheckRow(c) \/ AdmitScan(c) \/ Rearm(c)
ScanGoroutine(j) == Launch(j) \/ RunReturns(j) \/ Unregister(j) \/ Persist(j) \/ FinishRun(j)

ScanNext ==
    \/ HandleEvent \/ SyncLibraries \/ StartSweep
    \/ \E l \in ScanLibraries : \/ AddLibrary(l) \/ FileChanges(l) \/ Expire(l) \/ SweepNext(l)
                                \/ PostScan(l) \/ ConnectStream(l)
    \/ \E c \in ScanCallers : ScanCaller(c) \/ AdmitScanFails(c)
    \/ \E j \in ScanJobIds : ScanGoroutine(j) \/ PublishRun(j)
    \/ SubscribeRun \/ ReceiveEvent \/ Disconnect \/ ShutDown \/ StartAgain

(* The runtime schedules every goroutine, timers expire, a scan returns, and tickers keep ticking. *)
ScanFair ==
    /\ WF_scanVars(HandleEvent) /\ WF_scanVars(SyncLibraries) /\ WF_scanVars(StartSweep)
    /\ WF_scanVars(SubscribeRun \/ ReceiveEvent)
    /\ \A l \in ScanLibraries : WF_scanVars(Expire(l)) /\ WF_scanVars(SweepNext(l))
    /\ \A c \in ScanCallers : WF_scanVars(ScanCaller(c))
    /\ \A j \in ScanJobIds : WF_scanVars(ScanGoroutine(j))

ScanSpec == ScanInit /\ [][ScanNext]_scanVars
ScanLiveSpec == ScanSpec /\ ScanFair

-----------------------------------------------------------------------------
(* Properties.                                                             *)

(* Every variable keeps its type; only libraries with a row are watched, and a channel never overflows. *)
ScanTypeOK ==
    /\ scanRow \in [ScanJobIds -> Terminal \cup {"free", "running"}]
    /\ scanLast \in [ScanLibraries -> ScanJobIds \cup {ScanNone}]
    /\ scanRuns \in [ScanLibraries -> ScanJobIds \cup {ScanNone}]
    /\ \A j \in ScanJobIds :
          scanJob[j].failed \in 0..3 /\ (scanJob[j].at = "gone" \/ scanJob[j].lib \in ScanLibraries)
    /\ scanTimer \in [ScanLibraries -> {"none", "armed"}]
    /\ scanArmed \subseteq scanKnown /\ scanKnown \subseteq ScanLibraries
    /\ Len(scanSub.queue) <= ScanChannel

(* A scan under way stays registered, so that clients can follow it: the deferred removal of an older run never
   takes the entry of its successor (runScan). *)
RunsStayVisible == \A j \in ScanJobIds : scanJob[j].at = "scanning" => scanRuns[scanJob[j].lib] = j

(* A run that is over, by a return, a failure or a panic, leaves its row "running" only when three writes of
   persistScanTerminal failed, or as one that the shutdown withdrew; such a row refuses every scan of the library until
   a restart. *)
RowsSettle == \A j \in ScanJobIds :
    scanJob[j].at \in {"remove", "gone"} /\ scanRow[j] = "running" =>
        scanJob[j].failed = 3 \/ scanJob[j].outcome = "withdrawn"

(* Once WaitJobs returned no scan is running or starts, whoever was being admitted (launchJob): main closes the database next. *)
NoScanAfterWait == scanLife = "down" => \A j \in ScanJobIds : scanJob[j].at \in {"gone", "launch"}

(* All of it, for the runs: as the entries of two scans of one library would be one, no library is scanned twice at once. *)
ScansAreTracked == RunsStayVisible /\ RowsSettle /\ NoScanAfterWait

(* A change is never lost to a scan that was already running: a scan that begins after it follows (triggerAndWait),
   while the process lives. *)
ChangesAreScanned == \A l \in ScanLibraries :
    l \in scanUnseen ~> (l \notin scanUnseen \/ Stopped)

(* A scan that a crash interrupted is begun again by the boot pass, while the server stays up (staleLibrary). *)
InterruptedScansResume == \A l \in ScanLibraries : Newest(l) = "interrupted" ~> (Newest(l) # "interrupted" \/ Stopped)

(* A client of the event stream is told the end of the run, whether or not the terminal event found room in its
   channel (scanRun.finish, scanEvents); a shutdown cuts the streams. *)
StreamsEnd == scanSub.at = "open" ~> (scanSub.at # "open" \/ Stopped)

=============================================================================
