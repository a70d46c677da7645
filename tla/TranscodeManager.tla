--------------------------- MODULE TranscodeManager ---------------------------
(***************************************************************************)
(* internal/transcode: HLS playback sessions, each an ffmpeg process that   *)
(* writes into a directory named after the session, at most MaxSessions at  *)
(* a time.  Callers start and close sessions concurrently with each other,  *)
(* with the reaper and with shutdown; nobody holds the manager's lock while *)
(* a process is started, killed or cleaned up after.                       *)
(*                                                                         *)
(* A session's name may be used again (a player reopens its playlist, a     *)
(* client repeats its PlaySessionId), so sessions have an identity of their *)
(* own here, as the *Session pointers have in the code.  Calls that answer  *)
(* without changing anything (an invalid name, ErrClosed, ErrSessionParams) *)
(* are left out.  Definitions ending in _Mutant... are plausible bugs in    *)
(* the definition they precede; no specification uses them.                *)
(***************************************************************************)
EXTENDS Naturals, FiniteSets

CONSTANTS
    Sessions,      \* Session objects: bounds how many are ever started
    Names,         \* session ids, which are also directory names
    Editions,
    Callers,       \* goroutines that serve requests
    MaxSessions,
    Accelerated,   \* TRUE: ffmpeg is first started with hardware acceleration
    Idles,         \* TRUE: sessions may go unused for idleSessionTTL
    RemovalFails,  \* TRUE: os.RemoveAll of a session directory may fail
    None

Reaper == "reaper"
Shutdown == "shutdown"
Actors == Callers \cup {Reaper, Shutdown}

ASSUME TranscodeAssumption ==
    /\ None \notin Sessions \cup Names \cup Actors
    /\ Callers \cap {Reaper, Shutdown} = {}
    /\ MaxSessions \in Nat \ {0}
    /\ Accelerated \in BOOLEAN /\ Idles \in BOOLEAN /\ RemovalFails \in BOOLEAN

VARIABLES
    sessions,   \* Manager.sessions: name -> session
    closed,     \* Manager.closed
    state,      \* what each Session object knows
    dirs,       \* session directories that exist, by name
    pc,         \* where each actor is in its call
    request,    \* what a caller asks Get for
    own,        \* the session a caller is starting
    todo,       \* sessions an actor has still to finalize
    killing     \* the session it is finalizing

vars == <<sessions, closed, state, dirs, pc, request, own, todo, killing>>
callVars == <<pc, request, own>>
workVars == <<todo, killing>>

\* proc: "none" before the first start, "running", then how the last process
\* ended: "failed", or "ended" where watchFallback leaves it at that (a clean
\* exit, or the disk budget).  watch: the goroutine of watchFallback.
\* lifecycle: the actor whose kill holds the lock of that name.  cleaned: its
\* directory was removed by kill.
ProcessStates == {"none", "running", "failed", "ended"}

State == [name: Names, edition: Editions, closing: BOOLEAN, killed: BOOLEAN,
          proc: ProcessStates, pending: BOOLEAN,
          watch: {"none", "waiting", "relaunch"},
          input: {"none", "open", "closed"}, lease: BOOLEAN, stale: BOOLEAN,
          lifecycle: Actors \cup {None}, cleaned: BOOLEAN]

Phases == {"idle", "admit", "open", "mkdir", "start", "cleanup", "return"}
Requests == [name: Names, edition: Editions]

\* nil is no session and no request.
ASSUME NoneAssumption == None \notin State \cup Requests

Exists(s) == state[s] # None
Exited(s) == state[s].proc \in {"failed", "ended"}
Mapped(s) == Exists(s) /\ sessions[state[s].name] = s
Live == {n \in Names : sessions[n] # None}
Expired == {s \in Sessions : Mapped(s) /\ ~state[s].closing /\ state[s].stale}

Init ==
    /\ sessions = [n \in Names |-> None]
    /\ closed = FALSE
    /\ state = [s \in Sessions |-> None]
    /\ dirs = {}
    /\ pc = [a \in Actors |-> "idle"]
    /\ request = [c \in Callers |-> None]
    /\ own = [c \in Callers |-> None]
    /\ todo = [a \in Actors |-> {}]
    /\ killing = [a \in Actors |-> None]

\* An actor goes on with its call once it finalized what it had collected.
Free(a) == todo[a] = {} /\ killing[a] = None

Go(a, phase) == pc' = [pc EXCEPT ![a] = phase]

Answer(c) == /\ Go(c, "idle")
             /\ request' = [request EXCEPT ![c] = None]
             /\ own' = [own EXCEPT ![c] = None]

-----------------------------------------------------------------------------
(* Get: admission, under the manager's lock.                               *)

NewSession(r) ==
    [name |-> r.name, edition |-> r.edition, closing |-> FALSE,
     killed |-> FALSE, proc |-> "none", pending |-> FALSE, watch |-> "none",
     input |-> "none", lease |-> TRUE, stale |-> FALSE, lifecycle |-> None,
     cleaned |-> FALSE]

\* The map without the given sessions.
Without(gone) ==
    [n \in Names |-> IF sessions[n] \in gone THEN None ELSE sessions[n]]

Closing(collected) ==
    [s \in Sessions |-> IF s \in collected THEN [state[s] EXCEPT !.closing = TRUE]
                        ELSE state[s]]

\* A call that begins, or that comes back to the loop's head after Replace.
Asks(c, r) == \/ pc[c] = "idle"
              \/ pc[c] = "admit" /\ Free(c) /\ request[c] = r

\* Meanwhile the manager closed, or a session of that name is closing: the
\* call that replaced a session is refused.
Refuse(c, r) ==
    /\ pc[c] = "admit" /\ Asks(c, r)
    /\ LET s == sessions[r.name]
       IN  closed \/ (s # None /\ state[s].closing)
    /\ Answer(c)
    /\ UNCHANGED <<sessions, closed, state, dirs, workVars>>

\* The session of that name and edition is used again.
Reuse(c, r) ==
    /\ Asks(c, r) /\ ~closed
    /\ LET s == sessions[r.name]
       IN  /\ s # None
           /\ ~state[s].closing
           /\ state[s].edition = r.edition
           /\ state' = [state EXCEPT ![s].stale = FALSE]
    /\ Answer(c)
    /\ UNCHANGED <<sessions, closed, dirs, workVars>>

\* The name is in use for another edition: finalize that and start over.
Replace(c, r) ==
    /\ Asks(c, r) /\ ~closed
    /\ LET s == sessions[r.name]
       IN  /\ s # None
           /\ ~state[s].closing
           /\ state[s].edition # r.edition
           /\ state' = Closing({s})
           /\ todo' = [todo EXCEPT ![c] = {s}]
    /\ Go(c, "admit")
    /\ request' = [request EXCEPT ![c] = r]
    /\ UNCHANGED <<sessions, closed, dirs, own, killing>>

\* The name is free.  What went unused leaves the map before the count, and is
\* finalized after the lock is released; no slot or no disk is left for more.
Exhausted(c, r) ==
    /\ Asks(c, r) /\ ~closed
    /\ sessions[r.name] = None
    /\ sessions' = Without(Expired)
    /\ state' = Closing(Expired)
    /\ todo' = [todo EXCEPT ![c] = Expired]
    /\ Go(c, IF Expired = {} THEN "idle" ELSE "return")
    /\ request' = [request EXCEPT ![c] = None]
    /\ UNCHANGED <<closed, dirs, own, killing>>

Admit(c, r) ==
    /\ Asks(c, r) /\ ~closed
    /\ sessions[r.name] = None
    /\ Cardinality(Live) - Cardinality(Expired) < MaxSessions
    /\ \E s \in Sessions :
           /\ ~Exists(s)
           /\ sessions' = [Without(Expired) EXCEPT ![r.name] = s]
           /\ state' = [Closing(Expired) EXCEPT ![s] = NewSession(r)]
           /\ own' = [own EXCEPT ![c] = s]
    /\ todo' = [todo EXCEPT ![c] = Expired]
    /\ Go(c, "open")
    /\ request' = [request EXCEPT ![c] = None]
    /\ UNCHANGED <<closed, dirs, killing>>

-----------------------------------------------------------------------------
(* Get: the start, without the manager's lock.                             *)

Unmap(s) == sessions' = IF Mapped(s) THEN Without({s}) ELSE sessions

\* Closes the source if it is open.
Released(x) == [x EXCEPT !.input = IF @ = "open" THEN "closed" ELSE @]

OpenSource(c) ==
    /\ pc[c] = "open" /\ Free(c)
    /\ state' = [state EXCEPT ![own[c]].input = "open"]
    /\ Go(c, "mkdir")
    /\ UNCHANGED <<sessions, closed, dirs, request, own, workVars>>

MakeDir(c) ==
    /\ pc[c] = "mkdir"
    /\ dirs' = dirs \cup {state[own[c]].name}
    /\ Go(c, "start")
    /\ UNCHANGED <<sessions, closed, state, request, own, workVars>>

\* open() or MkdirAll failed.
FailEarly(c) ==
    /\ pc[c] \in {"open", "mkdir"} /\ Free(c)
    /\ Unmap(own[c])
    /\ state' = [state EXCEPT ![own[c]] = [Released(@) EXCEPT !.lease = FALSE]]
    /\ Answer(c)
    /\ UNCHANGED <<closed, dirs, workVars>>

Launchable_MutantKilled(s) == state[s].lifecycle = None

\* launch: refused once the session was killed; the lifecycle lock keeps a
\* kill from coming between that check and the start of the process.
Launchable(s) == state[s].lifecycle = None /\ ~state[s].killed

Start(c) ==
    /\ pc[c] = "start"
    /\ Launchable(own[c])
    /\ state' = [state EXCEPT ![own[c]] =
                    [@ EXCEPT !.proc = "running", !.pending = Accelerated,
                              !.watch = IF Accelerated THEN "waiting" ELSE "none"]]
    /\ Answer(c)
    /\ UNCHANGED <<sessions, closed, dirs, workVars>>

\* The session was killed, ffmpeg has no file descriptor to read from, or it
\* cannot be started.
FailStart(c) ==
    /\ pc[c] = "start"
    /\ Unmap(own[c])
    /\ state' = [state EXCEPT ![own[c]] = Released(@)]
    /\ Go(c, "cleanup")
    /\ UNCHANGED <<closed, dirs, request, own, workVars>>

CleanUp(c) ==
    /\ pc[c] = "cleanup"
    /\ \/ /\ dirs' = dirs \ {state[own[c]].name}
          /\ state' = [state EXCEPT ![own[c]].lease = FALSE]
       \/ /\ RemovalFails
          /\ UNCHANGED <<dirs, state>>
    /\ Answer(c)
    /\ UNCHANGED <<sessions, closed, workVars>>

\* The call had only sessions to finalize.
Return(c) ==
    /\ pc[c] = "return" /\ Free(c)
    /\ Answer(c)
    /\ UNCHANGED <<sessions, closed, state, dirs, workVars>>

-----------------------------------------------------------------------------
(* The process and watchFallback.                                          *)

\* ffmpeg exits of its own, for its disk budget, or because it was killed.
Exit(s) ==
    /\ Exists(s) /\ state[s].proc = "running"
    /\ \E how \in {"failed", "ended"} : state' = [state EXCEPT ![s].proc = how]
    /\ UNCHANGED <<sessions, closed, dirs, callVars, workVars>>

\* The fallback window closed, or the first process ended without a need for
\* another.
WatchEnds(s) ==
    /\ Exists(s) /\ state[s].watch = "waiting"
    /\ state' = [state EXCEPT ![s] = [@ EXCEPT !.watch = "none", !.pending = FALSE]]
    /\ UNCHANGED <<sessions, closed, dirs, callVars, workVars>>

WatchFails_MutantGivesUp(s) ==
    /\ Exists(s) /\ state[s].watch = "waiting"
    /\ state[s].proc = "failed" /\ ~state[s].killed
    /\ state' = [state EXCEPT ![s] = [@ EXCEPT !.watch = "relaunch", !.pending = FALSE]]
    /\ UNCHANGED <<sessions, closed, dirs, callVars, workVars>>

WatchFails(s) ==
    /\ Exists(s) /\ state[s].watch = "waiting"
    /\ state[s].proc = "failed" /\ ~state[s].killed
    /\ state' = [state EXCEPT ![s].watch = "relaunch"]
    /\ UNCHANGED <<sessions, closed, dirs, callVars, workVars>>

Relaunch(s) ==
    /\ Exists(s) /\ state[s].watch = "relaunch"
    /\ Launchable(s)
    /\ state' = [state EXCEPT ![s] = [@ EXCEPT !.proc = "running", !.watch = "none",
                                              !.pending = FALSE]]
    /\ UNCHANGED <<sessions, closed, dirs, callVars, workVars>>

\* The session was killed meanwhile, or the software encoder fails to start.
RelaunchFails(s) ==
    /\ Exists(s) /\ state[s].watch = "relaunch"
    /\ state' = [state EXCEPT ![s] = [@ EXCEPT !.watch = "none", !.pending = FALSE]]
    /\ UNCHANGED <<sessions, closed, dirs, callVars, workVars>>

\* isDead: the answer that ends every wait for a segment.
Dead(s) == Exists(s) /\ Exited(s) /\ ~state[s].pending

-----------------------------------------------------------------------------
(* Use and teardown.                                                       *)

\* A segment request, or Existing.
Touch(n) ==
    /\ sessions[n] # None
    /\ state[sessions[n]].stale
    /\ state' = [state EXCEPT ![sessions[n]].stale = FALSE]
    /\ UNCHANGED <<sessions, closed, dirs, callVars, workVars>>

\* A session was not used for idleSessionTTL.
Age(n) ==
    /\ Idles
    /\ sessions[n] # None
    /\ ~state[sessions[n]].stale
    /\ state' = [state EXCEPT ![sessions[n]].stale = TRUE]
    /\ UNCHANGED <<sessions, closed, dirs, callVars, workVars>>

Close_MutantFreesSlot(c, n) ==
    /\ pc[c] = "idle"
    /\ sessions[n] # None
    /\ ~state[sessions[n]].closing
    /\ state' = Closing({sessions[n]})
    /\ todo' = [todo EXCEPT ![c] = {sessions[n]}]
    /\ sessions' = [sessions EXCEPT ![n] = None]
    /\ Go(c, "return")
    /\ UNCHANGED <<closed, dirs, request, own, killing>>

\* Close: the client stopped playing.
Close(c, n) ==
    /\ pc[c] = "idle"
    /\ sessions[n] # None
    /\ ~state[sessions[n]].closing
    /\ state' = Closing({sessions[n]})
    /\ todo' = [todo EXCEPT ![c] = {sessions[n]}]
    /\ Go(c, "return")
    /\ UNCHANGED <<sessions, closed, dirs, request, own, killing>>

Unfinished == {s \in Sessions : Mapped(s) /\ state[s].closing}

Reap_MutantNoRetry ==
    /\ ~closed
    /\ Free(Reaper)
    /\ Expired # {}
    /\ sessions' = Without(Expired)
    /\ state' = Closing(Expired)
    /\ todo' = [todo EXCEPT ![Reaper] = Expired]
    /\ UNCHANGED <<closed, dirs, callVars, killing>>

\* A tick of the reaper: retries what is closing, and takes what went unused
\* out of the map.
Reap ==
    /\ ~closed
    /\ Free(Reaper)
    /\ Unfinished \cup Expired # {}
    /\ sessions' = Without(Expired)
    /\ state' = Closing(Expired)
    /\ todo' = [todo EXCEPT ![Reaper] = Unfinished \cup Expired]
    /\ UNCHANGED <<closed, dirs, callVars, killing>>

\* CloseAll empties the map of what is not already closing.
CloseAll ==
    /\ ~closed
    /\ closed' = TRUE
    /\ LET all == {s \in Sessions : Mapped(s)}
       IN  /\ sessions' = Without(all \ Unfinished)
           /\ state' = Closing(all)
           /\ todo' = [todo EXCEPT ![Shutdown] = all]
    /\ UNCHANGED <<dirs, callVars, killing>>

-----------------------------------------------------------------------------
(* finalize and kill.                                                      *)

Kill(a) ==
    /\ killing[a] = None
    /\ \E s \in todo[a] :
           /\ state[s].lifecycle = None
           /\ state' = [state EXCEPT ![s] = [@ EXCEPT !.killed = TRUE, !.lifecycle = a]]
           /\ todo' = [todo EXCEPT ![a] = @ \ {s}]
           /\ killing' = [killing EXCEPT ![a] = s]
    /\ UNCHANGED <<sessions, closed, dirs, callVars>>

InKill(a) == killing[a] # None /\ state[killing[a]].lifecycle = a

\* The process is still there after two seconds: the directory stays.
GiveUp(a) ==
    /\ InKill(a)
    /\ state[killing[a]].proc = "running"
    /\ state' = [state EXCEPT ![killing[a]] = [Released(@) EXCEPT !.lifecycle = None]]
    /\ killing' = [killing EXCEPT ![a] = None]
    /\ UNCHANGED <<sessions, closed, dirs, callVars, todo>>

\* No process is left: the directory and its disk reservation go.
RemoveDir(a) ==
    /\ InKill(a)
    /\ state[killing[a]].proc # "running"
    /\ dirs' = dirs \ {state[killing[a]].name}
    /\ state' = [state EXCEPT ![killing[a]] =
                    [Released(@) EXCEPT !.lifecycle = None, !.lease = FALSE,
                                        !.cleaned = TRUE]]
    /\ UNCHANGED <<sessions, closed, callVars, workVars>>

RemovalFailed(a) ==
    /\ RemovalFails
    /\ InKill(a)
    /\ state[killing[a]].proc # "running"
    /\ state' = [state EXCEPT ![killing[a]] = [Released(@) EXCEPT !.lifecycle = None]]
    /\ killing' = [killing EXCEPT ![a] = None]
    /\ UNCHANGED <<sessions, closed, dirs, callVars, todo>>

\* Only now does finalize give up the name and the slot.
Unreserve(a) ==
    /\ killing[a] # None
    /\ state[killing[a]].lifecycle # a
    /\ Unmap(killing[a])
    /\ killing' = [killing EXCEPT ![a] = None]
    /\ UNCHANGED <<closed, state, dirs, callVars, todo>>

Finalize(a) ==
    Kill(a) \/ GiveUp(a) \/ RemoveDir(a) \/ RemovalFailed(a) \/ Unreserve(a)

-----------------------------------------------------------------------------
GetNext(c) ==
    \/ \E r \in Requests :
           Refuse(c, r) \/ Reuse(c, r) \/ Replace(c, r) \/ Exhausted(c, r) \/ Admit(c, r)
    \/ OpenSource(c) \/ MakeDir(c) \/ FailEarly(c)
    \/ Start(c) \/ FailStart(c) \/ CleanUp(c) \/ Return(c)

SessionNext(s) ==
    \/ Exit(s) \/ WatchEnds(s) \/ WatchFails(s)
    \/ Relaunch(s) \/ RelaunchFails(s)

Next ==
    \/ \E c \in Callers : GetNext(c) \/ \E n \in Names : Close(c, n)
    \/ \E s \in Sessions : SessionNext(s)
    \/ \E n \in Names : Touch(n) \/ Age(n)
    \/ Reap \/ CloseAll
    \/ \E a \in Actors : Finalize(a)

Spec == Init /\ [][Next]_vars

\* Goroutines run on, the reaper ticks, and a process that was killed exits
\* in the end, if not within the two seconds kill waits for it.
Fairness ==
    /\ \A c \in Callers : WF_vars(pc[c] # "idle" /\ GetNext(c))
    /\ \A a \in Actors : WF_vars(Finalize(a))
    /\ WF_vars(Reap)
    /\ \A s \in Sessions :
           /\ WF_vars(state[s] # None /\ state[s].killed /\ Exit(s))
           /\ WF_vars(Relaunch(s) \/ RelaunchFails(s))

FairSpec == Spec /\ Fairness

-----------------------------------------------------------------------------
(* Properties.                                                             *)

\* Types, and: a session in the map is there under its own name, a caller owns
\* a session exactly while it starts it, and whoever holds a lifecycle lock is
\* inside kill.
TranscodeTypeOK ==
    /\ sessions \in [Names -> Sessions \cup {None}]
    /\ closed \in BOOLEAN
    /\ state \in [Sessions -> State \cup {None}]
    /\ dirs \subseteq Names
    /\ pc \in [Actors -> Phases]
    /\ request \in [Callers -> Requests \cup {None}]
    /\ own \in [Callers -> Sessions \cup {None}]
    /\ todo \in [Actors -> SUBSET Sessions]
    /\ killing \in [Actors -> Sessions \cup {None}]
    /\ \A n \in Names : sessions[n] # None =>
           Exists(sessions[n]) /\ state[sessions[n]].name = n
    /\ \A c \in Callers :
           /\ request[c] # None <=> pc[c] = "admit"
           /\ own[c] # None <=> pc[c] \in {"open", "mkdir", "start", "cleanup"}
    /\ \A s \in Sessions : Exists(s) /\ state[s].lifecycle # None =>
           killing[state[s].lifecycle] = s

\* Nothing resurrects a session: once kill has cleaned up after it, no ffmpeg
\* runs for it, whatever its start or its software fallback was about to do.
NoProcessAfterCleanup ==
    \A s \in Sessions : Exists(s) /\ state[s].cleaned => state[s].proc # "running"

\* The source descriptor of a session that was killed is closed, once Get is
\* done with it.
SourcesClose ==
    \A s \in Sessions : (/\ Exists(s) /\ state[s].killed
                         /\ state[s].lifecycle = None
                         /\ \A c \in Callers : own[c] # s)
                        => state[s].input # "open"

\* A process and its disk reservation go together: no ffmpeg writes without
\* one.
ProcessesHoldLeases ==
    \A s \in Sessions : Exists(s) /\ state[s].proc = "running" => state[s].lease

\* What kill leaves behind, for the runs: the manager's state is well formed,
\* and no process, source or reservation outlives the session it was for.
NothingOutlivesItsSession ==
    TranscodeTypeOK /\ NoProcessAfterCleanup /\ SourcesClose /\ ProcessesHoldLeases

\* "isDead reports whether the session's ffmpeg has exited for good": a wait
\* for a segment that it ended would not have succeeded later.
DeadIsFinal ==
    [][\A s \in Sessions : Dead(s) => Dead(s)']_vars

\* "concurrent starts cannot exceed MaxSessions, and closing sessions keep
\* their slot ... until cleanup has actually finished": no more than that many
\* ffmpeg processes run at a time.
ProcessesBounded ==
    Cardinality({s \in Sessions : Exists(s) /\ state[s].proc = "running"})
        <= MaxSessions

\* "A kill that times out keeps the reservation so the reaper can retry": a
\* session that still has a process or a disk reservation is in the map, or
\* somebody is at work on it.
LeftoversAreMapped ==
    ~closed => \A s \in Sessions :
        (/\ Exists(s) /\ (state[s].lease \/ state[s].proc = "running")
         /\ \A a \in Actors : s \notin todo[a] /\ killing[a] # s
         /\ \A c \in Callers : own[c] # s)
        => Mapped(s)

\* What a slot stands for, for the runs: it is held for as long as there is a
\* process, and by a session that the reaper can still reach.
SlotsAreHeld == ProcessesBounded /\ LeftoversAreMapped

\* Every teardown that began while the manager is open is completed, even if
\* its first attempts time out: the disk reservation comes back.
TeardownCompletes ==
    \A s \in Sessions :
        (Exists(s) /\ state[s].killed) ~> (closed \/ (Exists(s) /\ ~state[s].lease))

=============================================================================
