------------------------ MODULE TranscodeManager_proofs ------------------------
(***************************************************************************)
(* Proofs about TranscodeManager, for every number of sessions, names,     *)
(* callers and slots, with and without hardware acceleration, idle         *)
(* sessions and directories that cannot be removed.                        *)
(***************************************************************************)
EXTENDS TranscodeManager, FiniteSetTheorems, FunctionTheorems, TLAPS

USE TranscodeAssumption, NoneAssumption DEF Actors

Starting == {"open", "mkdir", "start", "cleanup"}

Typed ==
    /\ sessions \in [Names -> Sessions \cup {None}]
    /\ closed \in BOOLEAN
    /\ state \in [Sessions -> State \cup {None}]
    /\ dirs \subseteq Names
    /\ pc \in [Actors -> Phases]
    /\ request \in [Callers -> Requests \cup {None}]
    /\ own \in [Callers -> Sessions \cup {None}]
    /\ todo \in [Actors -> SUBSET Sessions]
    /\ killing \in [Actors -> Sessions \cup {None}]

MapAgrees(n) == sessions[n] # None => Exists(sessions[n]) /\ state[sessions[n]].name = n

(* A caller owns the session it starts, alone, and until the process is there. *)
CallerAgrees(c) ==
    /\ request[c] # None <=> pc[c] = "admit"
    /\ own[c] # None <=> pc[c] \in Starting
    /\ own[c] # None => /\ Exists(own[c])
                        /\ state[own[c]].proc = "none" /\ state[own[c]].watch = "none"
                        /\ \A d \in Callers : own[d] = own[c] => d = c
    /\ pc[c] = "cleanup" => state[own[c]].input # "open"

ActorAgrees(a) ==
    /\ \A s \in todo[a] : Exists(s)
    /\ killing[a] # None => Exists(killing[a]) /\ state[killing[a]].killed

(* Without a reservation there is no process and none will be started; what was killed is not started again; a fallback
   that is still to come is announced. *)
SessionAgrees(s) ==
    LET k == state[s] IN
    Exists(s) =>
        /\ k.cleaned => k.killed /\ k.proc # "running"
        /\ k.proc = "running" => k.lease
        /\ ~k.lease => k.killed \/ (k.watch = "none" /\ \A c \in Callers : own[c] = s => pc[c] = "cleanup")
        /\ k.lifecycle # None => killing[k.lifecycle] = s
        /\ k.killed /\ k.lifecycle = None /\ (\A c \in Callers : own[c] # s) => k.input # "open"
        /\ k.watch # "none" => k.pending

Agrees ==
    /\ Typed
    /\ \A n \in Names : MapAgrees(n)
    /\ \A c \in Callers : CallerAgrees(c)
    /\ \A a \in Actors : ActorAgrees(a)
    /\ \A s \in Sessions : SessionAgrees(s)

LEMMA AgreesAtFirst == Init => Agrees
    BY DEF Init, Agrees, Typed, MapAgrees, CallerAgrees, ActorAgrees, SessionAgrees, Exists, Phases, Starting

-----------------------------------------------------------------------------
(* Steps that only mark sessions: closing, stale.                          *)

Alike(k, l) ==
    /\ k.name = l.name /\ k.killed = l.killed /\ k.proc = l.proc /\ k.pending = l.pending /\ k.watch = l.watch
    /\ k.input = l.input /\ k.lease = l.lease /\ k.lifecycle = l.lifecycle /\ k.cleaned = l.cleaned

Marks(s) ==
    /\ state'[s] \in State \cup {None}
    /\ state'[s] = None <=> state[s] = None
    /\ state[s] # None => Alike(state'[s], state[s])

(* A caller that starts nothing asks, waits for what it finalizes, or answers. *)
Asking(c) ==
    /\ pc[c] \notin Starting /\ pc'[c] \in {"idle", "admit", "return"}
    /\ request'[c] \in Requests \cup {None} /\ (request'[c] # None <=> pc'[c] = "admit")

LEMMA MarkStep ==
    ASSUME Agrees, own' = own, killing' = killing, dirs' = dirs,
           closed' \in BOOLEAN, DOMAIN state' = Sessions, state' = [s \in Sessions |-> state'[s]],
           \A s \in Sessions : Marks(s),
           sessions' \in [Names -> Sessions \cup {None}], \A n \in Names : sessions'[n] \in {sessions[n], None},
           pc' \in [Actors -> Phases], request' \in [Callers -> Requests \cup {None}],
           \A c \in Callers : Asking(c) \/ (pc'[c] = pc[c] /\ request'[c] = request[c]),
           todo' \in [Actors -> SUBSET Sessions], \A a \in Actors : \A s \in todo'[a] : Exists(s)
    PROVE  Agrees'
<1>1. Typed'
    BY DEF Agrees, Typed, Marks
<1>2. ASSUME NEW s \in Sessions PROVE Exists(s)' <=> Exists(s)
    BY DEF Marks, Exists
<1>3. ASSUME NEW n \in Names PROVE MapAgrees(n)'
    BY <1>2 DEF Agrees, Typed, MapAgrees, Exists, Marks, Alike
<1>4. ASSUME NEW c \in Callers PROVE CallerAgrees(c)'
    <2>1. CallerAgrees(c) /\ own[c] \in Sessions \cup {None}
        BY DEF Agrees, Typed
    <2>2. own[c] # None => /\ Exists(own[c])' /\ state'[own[c]].proc = "none" /\ state'[own[c]].watch = "none"
                           /\ state'[own[c]].input = state[own[c]].input
        BY <2>1, <1>2 DEF CallerAgrees, Exists, Marks, Alike
    <2>3. pc'[c] \in Starting <=> pc[c] \in Starting
        BY DEF Asking, Starting
    <2>4. pc'[c] = "cleanup" => pc[c] = "cleanup" /\ own[c] # None
        BY <2>1 DEF Asking, Starting, CallerAgrees
    <2> QED
        BY <2>1, <2>2, <2>3, <2>4 DEF CallerAgrees, Asking
<1>5. ASSUME NEW a \in Actors PROVE ActorAgrees(a)'
    <2>1. ActorAgrees(a) /\ killing[a] \in Sessions \cup {None}
        BY DEF Agrees, Typed
    <2>2. \A s \in todo'[a] : s \in Sessions /\ Exists(s)'
        BY <1>2
    <2>3. killing[a] # None => Exists(killing[a])' /\ state'[killing[a]].killed
        BY <2>1 DEF ActorAgrees, Exists, Marks, Alike
    <2> QED
        BY <2>2, <2>3 DEF ActorAgrees
<1>6. ASSUME NEW s \in Sessions PROVE SessionAgrees(s)'
    <2>1. SessionAgrees(s) /\ Marks(s)
        BY DEF Agrees
    <2>2. \A c \in Callers : own[c] = s /\ pc[c] = "cleanup" => pc'[c] = "cleanup"
        BY DEF Asking, Starting
    <2> QED
        BY <2>1, <2>2 DEF SessionAgrees, Exists, Marks, Alike
<1> QED
    BY <1>1, <1>3, <1>4, <1>5, <1>6 DEF Agrees

-----------------------------------------------------------------------------
(* Steps of one session's process, which nobody is starting.               *)

LEMMA ProcessStep ==
    ASSUME Agrees, NEW s \in Sessions, Exists(s), \A c \in Callers : own[c] # s,
           NEW k \in State, state' = [state EXCEPT ![s] = k],
           UNCHANGED <<sessions, closed, dirs, callVars, workVars>>,
           k.name = state[s].name, k.killed = state[s].killed, k.lifecycle = state[s].lifecycle,
           k.cleaned = state[s].cleaned, k.lease = state[s].lease, k.input = state[s].input,
           k.proc = "running" => state[s].proc = "running" \/ (~state[s].killed /\ state[s].watch # "none"),
           k.watch # "none" => state[s].watch # "none" /\ k.pending
    PROVE  Agrees'
<1>0. Typed /\ SessionAgrees(s) /\ k # None
    BY DEF Agrees
<1>1. state'[s] = k /\ \A r \in Sessions : r # s => state'[r] = state[r]
    BY <1>0 DEF Typed
<1>2. Typed'
    BY <1>0 DEF Typed, callVars, workVars
<1>3. \A r \in Sessions : (Exists(r)' <=> Exists(r)) /\ (Exists(r) => state'[r].name = state[r].name /\ state'[r].killed = state[r].killed)
    BY <1>0, <1>1 DEF Exists
<1>4. ASSUME NEW n \in Names PROVE MapAgrees(n)'
    BY <1>0, <1>3 DEF Agrees, Typed, MapAgrees
<1>5. ASSUME NEW c \in Callers PROVE CallerAgrees(c)'
    BY <1>0, <1>1, <1>3 DEF Agrees, Typed, CallerAgrees, callVars, Starting
<1>6. ASSUME NEW a \in Actors PROVE ActorAgrees(a)'
    BY <1>0, <1>3 DEF Agrees, Typed, ActorAgrees, workVars
<1>7. ASSUME NEW r \in Sessions PROVE SessionAgrees(r)'
    <2>1. CASE r = s
        BY <1>0, <1>1, <2>1 DEF SessionAgrees, callVars, workVars, Exists
    <2>2. CASE r # s
        BY <1>1, <2>2 DEF Agrees, SessionAgrees, callVars, workVars, Exists
    <2> QED
        BY <2>1, <2>2
<1> QED
    BY <1>2, <1>4, <1>5, <1>6, <1>7 DEF Agrees

-----------------------------------------------------------------------------
(* Steps of a start.                                                       *)

(* A caller goes on with the session it starts, or is done with it. *)
LEMMA StartStep ==
    ASSUME Agrees, NEW c \in Callers, pc[c] \in Starting,
           NEW k \in State, state' = [state EXCEPT ![own[c]] = k],
           k.name = state[own[c]].name, k.killed = state[own[c]].killed, k.lifecycle = state[own[c]].lifecycle,
           k.cleaned = state[own[c]].cleaned,
           sessions' \in [Names -> Sessions \cup {None}], \A n \in Names : sessions'[n] \in {sessions[n], None},
           dirs' \subseteq Names, UNCHANGED <<closed, workVars>>,
           NEW phase \in Phases, pc' = [pc EXCEPT ![c] = phase],
           request' \in [Callers -> Requests \cup {None}], request'[c] = None,
           \A d \in Callers : d # c => request'[d] = request[d],
           \/ /\ own' = own /\ phase \in Starting /\ k.proc = "none" /\ k.watch = "none"
              /\ (phase = "cleanup" => k.input # "open") /\ (pc[c] = "cleanup" => phase = "cleanup")
              /\ k.lease = state[own[c]].lease
           \/ /\ own' = [own EXCEPT ![c] = None] /\ phase = "idle"
              /\ (k.killed /\ k.lifecycle = None => k.input # "open")
              /\ \/ k.proc = "none" /\ k.watch = "none"
                 \/ /\ pc[c] # "cleanup" /\ ~k.killed /\ k.lease = state[own[c]].lease
                    /\ k.watch # "none" => k.pending
    PROVE  Agrees'
<1> DEFINE s == own[c]
<1>0. Typed /\ CallerAgrees(c) /\ k # None /\ c \in Actors
    BY DEF Agrees
<1>1. s \in Sessions /\ Exists(s) /\ SessionAgrees(s) /\ state[s].proc = "none" /\ state[s].watch = "none"
    BY <1>0 DEF Typed, CallerAgrees, Agrees, Exists
<1>2. \A d \in Callers : d # c => own[d] # s /\ own'[d] = own[d] /\ pc'[d] = pc[d]
    BY <1>0, <1>1 DEF CallerAgrees, Typed, Exists
<1>3. own'[c] \in {s, None} /\ pc'[c] = phase
    BY <1>0 DEF Typed
<1> HIDE DEF s
<1>4. state'[s] = k /\ \A r \in Sessions : r # s => state'[r] = state[r]
    BY <1>0, <1>1 DEF Typed, s
<1>5. Typed'
    BY <1>0, <1>1 DEF Typed, workVars, s
<1>6. \A r \in Sessions : (Exists(r)' <=> Exists(r)) /\ (Exists(r) => state'[r].name = state[r].name /\ state'[r].killed = state[r].killed)
    BY <1>0, <1>1, <1>4 DEF Exists, s
<1>7. ASSUME NEW n \in Names PROVE MapAgrees(n)'
    BY <1>0, <1>6 DEF Agrees, Typed, MapAgrees
<1>8. ASSUME NEW a \in Actors PROVE ActorAgrees(a)'
    BY <1>0, <1>6 DEF Agrees, Typed, ActorAgrees, workVars
<1>9. ASSUME NEW d \in Callers PROVE CallerAgrees(d)'
    <2>1. CASE d = c
        <3>1. request'[c] = None /\ phase # "admit"
            BY DEF Starting
        <3>2. own'[c] # None <=> phase \in Starting
            BY <1>0, <1>1 DEF Typed, Starting, s, Exists
        <3>3. own'[c] # None => own'[c] = s /\ k.proc = "none" /\ k.watch = "none" /\ (phase = "cleanup" => k.input # "open")
            BY <1>0, <1>3 DEF Typed, s
        <3> QED
            BY <1>1, <1>2, <1>3, <1>4, <1>6, <2>1, <3>1, <3>2, <3>3 DEF CallerAgrees, Starting
    <2>2. CASE d # c
        <3>1. CallerAgrees(d) /\ own[d] \in Sessions \cup {None} /\ own'[d] = own[d] /\ own[d] # s /\ pc'[d] = pc[d]
            BY <1>0, <1>2, <2>2 DEF Agrees, Typed
        <3>2. own[d] # None => state'[own[d]] = state[own[d]] /\ own'[c] # own[d]
            BY <1>3, <1>4, <3>1
        <3>3. pc[d] = "cleanup" => own[d] # None
            BY <3>1 DEF CallerAgrees, Starting
        <3> QED
            BY <1>2, <2>2, <3>1, <3>2, <3>3 DEF CallerAgrees, Exists
    <2> QED
        BY <2>1, <2>2
<1>10. ASSUME NEW r \in Sessions PROVE SessionAgrees(r)'
    <2>1. CASE r = s
        <3>1. CASE own'[c] = s
            <4>1. own' = own /\ phase \in Starting /\ k.proc = "none" /\ k.watch = "none" /\ k.lease = state[s].lease
                  /\ (pc[c] = "cleanup" => phase = "cleanup")
                BY <1>0, <1>1, <3>1 DEF Typed, s, Starting, Exists
            <4>2. \A d \in Callers : own[d] = s => d = c
                BY <1>2
            <4> QED
                BY <1>1, <1>3, <1>4, <2>1, <3>1, <4>1, <4>2 DEF SessionAgrees, workVars, s
        <3>2. CASE own'[c] # s
            <4>1. \A d \in Callers : own'[d] # s
                BY <1>2, <3>2
            <4>2. /\ k.killed /\ k.lifecycle = None => k.input # "open"
                  /\ \/ k.proc = "none" /\ k.watch = "none"
                     \/ /\ pc[c] # "cleanup" /\ ~k.killed /\ k.lease = state[s].lease
                        /\ k.watch # "none" => k.pending
                BY <3>2 DEF s
            <4>3. CASE k.proc = "none" /\ k.watch = "none"
                BY <1>1, <1>4, <2>1, <4>1, <4>2, <4>3 DEF SessionAgrees, workVars, s
            <4>4. CASE pc[c] # "cleanup" /\ ~k.killed /\ k.lease = state[s].lease /\ (k.watch # "none" => k.pending)
                <5>1. state[s].lease
                    BY <1>1, <4>4 DEF SessionAgrees, s
                <5>2. /\ k.lease /\ ~k.killed /\ ~k.cleaned /\ (k.watch # "none" => k.pending)
                      /\ (k.lifecycle # None => killing[k.lifecycle] = s)
                    BY <1>1, <4>4, <5>1 DEF SessionAgrees, s
                <5> QED
                    BY <1>4, <2>1, <5>2 DEF SessionAgrees, workVars
            <4> QED
                BY <4>2, <4>3, <4>4
        <3> QED
            BY <3>1, <3>2
    <2>2. CASE r # s
        <3>1. SessionAgrees(r) /\ state'[r] = state[r]
            BY <1>4, <2>2 DEF Agrees
        <3>2. \A d \in Callers : own'[d] = r => own[d] = r /\ d # c
            BY <1>1, <1>2, <1>3, <2>2
        <3>3. \A d \in Callers : own[d] = r => own'[d] = r \/ r = None
            BY <1>2, <2>2 DEF s
        <3>4. Exists(r) => r # None
            BY DEF Exists
        <3> QED
            BY <1>2, <3>1, <3>2, <3>3, <3>4 DEF SessionAgrees, workVars, Exists
    <2> QED
        BY <2>1, <2>2
<1> QED
    BY <1>5, <1>7, <1>8, <1>9, <1>10 DEF Agrees

-----------------------------------------------------------------------------
(* Steps of kill and finalize.                                             *)

LEMMA KillStep ==
    ASSUME Agrees, NEW a \in Actors, NEW s \in Sessions, Exists(s),
           NEW k \in State, state' = [state EXCEPT ![s] = k],
           k.name = state[s].name, k.killed, k.proc = state[s].proc, k.watch = state[s].watch, k.pending = state[s].pending,
           UNCHANGED <<sessions, closed, callVars>>, dirs' \subseteq Names,
           todo' \in [Actors -> SUBSET Sessions], \A b \in Actors : todo'[b] \subseteq todo[b],
           killing' \in [Actors -> Sessions \cup {None}], \A b \in Actors : b # a => killing'[b] = killing[b],
           killing'[a] \in {s, None},
           killing[a] = s \/ (killing[a] = None /\ state[s].lifecycle = None),
           killing[a] = s => state[s].lifecycle = a,
           k.lifecycle = None \/ (k.lifecycle = a /\ killing'[a] = s),
           k.lifecycle = None => k.input # "open",
           k.input # "open" \/ k.input = state[s].input,
           k.cleaned => state[s].cleaned \/ k.proc # "running",
           k.lease = state[s].lease \/ k.proc # "running"
    PROVE  Agrees'
<1>0. Typed /\ SessionAgrees(s) /\ k # None /\ ActorAgrees(a) /\ a # None /\ s # None
    BY DEF Agrees
<1>1. state'[s] = k /\ \A r \in Sessions : r # s => state'[r] = state[r]
    BY <1>0 DEF Typed
<1>2. Typed'
    BY <1>0 DEF Typed, callVars
<1>3. \A r \in Sessions : (Exists(r)' <=> Exists(r)) /\ (Exists(r) => state'[r].name = state[r].name /\ (state[r].killed => state'[r].killed))
    BY <1>0, <1>1 DEF Exists
<1>4. ASSUME NEW n \in Names PROVE MapAgrees(n)'
    BY <1>0, <1>3 DEF Agrees, Typed, MapAgrees
<1>5. ASSUME NEW c \in Callers PROVE CallerAgrees(c)'
    BY <1>0, <1>1, <1>3 DEF Agrees, Typed, CallerAgrees, callVars, Starting
<1>6. ASSUME NEW b \in Actors PROVE ActorAgrees(b)'
    <2>1. ActorAgrees(b) /\ killing[b] \in Sessions \cup {None} /\ todo'[b] \subseteq Sessions
        BY <1>0, <1>2 DEF Agrees, Typed
    <2>2. CASE b = a
        BY <1>1, <1>3, <2>1, <2>2 DEF ActorAgrees
    <2>3. CASE b # a
        BY <1>1, <1>3, <2>1, <2>3 DEF ActorAgrees
    <2> QED
        BY <2>2, <2>3
<1>7. ASSUME NEW r \in Sessions PROVE SessionAgrees(r)'
    <2>1. CASE r = s
        BY <1>0, <1>1, <2>1 DEF SessionAgrees, callVars, Exists
    <2>2. CASE r # s
        <3>1. SessionAgrees(r) /\ state'[r] = state[r]
            BY <1>1, <2>2 DEF Agrees
        <3>2. Exists(r) /\ state[r].lifecycle # None => state[r].lifecycle \in Actors
            BY <1>0 DEF Typed, State, Exists
        <3>3. Exists(r) /\ state[r].lifecycle # None => state[r].lifecycle # a
            BY <1>0, <2>2, <3>1 DEF SessionAgrees, Exists
        <3> QED
            BY <1>1, <3>1, <3>2, <3>3 DEF SessionAgrees, callVars, Exists
    <2> QED
        BY <2>1, <2>2
<1> QED
    BY <1>2, <1>4, <1>5, <1>6, <1>7 DEF Agrees

-----------------------------------------------------------------------------
(* What the actions do, in the terms of the lemmas.                        *)

LEMMA ClosingMarks ==
    ASSUME Typed, NEW gone \in SUBSET Sessions, \A s \in gone : Exists(s)
    PROVE  /\ DOMAIN Closing(gone) = Sessions /\ Closing(gone) = [s \in Sessions |-> Closing(gone)[s]]
           /\ \A s \in Sessions : /\ Closing(gone)[s] \in State \cup {None}
                                  /\ Closing(gone)[s] = None <=> state[s] = None
                                  /\ state[s] # None => Alike(Closing(gone)[s], state[s])
<1>1. DOMAIN Closing(gone) = Sessions /\ Closing(gone) = [s \in Sessions |-> Closing(gone)[s]]
    BY DEF Closing
<1>2. ASSUME NEW s \in Sessions
      PROVE  /\ Closing(gone)[s] \in State \cup {None}
             /\ Closing(gone)[s] = None <=> state[s] = None
             /\ state[s] # None => Alike(Closing(gone)[s], state[s])
    <2>1. CASE s \in gone
        <3>1. state[s] \in State /\ Closing(gone)[s] = [state[s] EXCEPT !.closing = TRUE]
            BY <2>1 DEF Typed, Exists, Closing
        <3>2. [state[s] EXCEPT !.closing = TRUE] \in State
            BY <3>1 DEF State
        <3>3. Alike([state[s] EXCEPT !.closing = TRUE], state[s])
            BY <3>1 DEF Alike, State
        <3> QED
            BY <3>1, <3>2, <3>3
    <2>2. CASE s \notin gone
        BY <2>2 DEF Typed, Closing, Alike
    <2> QED
        BY <2>1, <2>2
<1> QED
    BY <1>1, <1>2

LEMMA WithoutShrinks ==
    ASSUME Typed, NEW gone
    PROVE  Without(gone) \in [Names -> Sessions \cup {None}] /\ \A n \in Names : Without(gone)[n] \in {sessions[n], None}
    BY DEF Without, Typed

LEMMA UnmapShrinks ==
    ASSUME Typed, NEW s, Unmap(s)
    PROVE  sessions' \in [Names -> Sessions \cup {None}] /\ \A n \in Names : sessions'[n] \in {sessions[n], None}
    BY WithoutShrinks DEF Unmap, Typed

LEMMA MappedExist == Typed => \A s \in Sessions : Mapped(s) => Exists(s)
    BY DEF Mapped

LEMMA AnswerAsks ==
    ASSUME Agrees, NEW c \in Callers, pc[c] \notin Starting, Answer(c)
    PROVE  /\ own' = own /\ pc' \in [Actors -> Phases] /\ request' \in [Callers -> Requests \cup {None}]
           /\ \A d \in Callers : Asking(d) \/ (pc'[d] = pc[d] /\ request'[d] = request[d])
<1>1. Typed /\ own[c] = None /\ c \in Actors
    BY DEF Agrees, CallerAgrees
<1> QED
    BY <1>1 DEF Typed, Answer, Go, Asking, Phases

LEMMA AsksIsIdle ==
    ASSUME NEW c \in Callers, NEW r, Asks(c, r)
    PROVE  pc[c] \notin Starting
    BY DEF Asks, Starting

LEMMA AdmitAgrees ==
    ASSUME Agrees, NEW c \in Callers, NEW r \in Requests, Admit(c, r)
    PROVE  Agrees'
<1>1. PICK s \in Sessions : /\ ~Exists(s)
                           /\ sessions' = [Without(Expired) EXCEPT ![r.name] = s]
                           /\ state' = [Closing(Expired) EXCEPT ![s] = NewSession(r)]
                           /\ own' = [own EXCEPT ![c] = s]
    BY DEF Admit
<1>2. /\ todo' = [todo EXCEPT ![c] = Expired] /\ pc' = [pc EXCEPT ![c] = "open"] /\ request' = [request EXCEPT ![c] = None]
      /\ UNCHANGED <<closed, dirs, killing>>
      /\ pc[c] \notin Starting
    BY AsksIsIdle DEF Admit, Go
<1>3. Typed /\ CallerAgrees(c) /\ c \in Actors /\ own[c] = None /\ s # None
    BY <1>2 DEF Agrees, CallerAgrees
<1>4. Expired \in SUBSET Sessions /\ \A x \in Expired : Exists(x)
    BY DEF Expired, Mapped
<1>5. NewSession(r) \in State /\ r.name \in Names
    BY DEF NewSession, State, Requests, ProcessStates
<1> DEFINE k == NewSession(r)
<1>6. k.name = r.name /\ ~k.killed /\ k.proc = "none" /\ k.watch = "none" /\ k.lease /\ k.lifecycle = None /\ ~k.cleaned /\ k # None
    BY <1>5 DEF NewSession
<1> HIDE DEF k
<1>7. state'[s] = k /\ \A x \in Sessions : x # s => state'[x] = Closing(Expired)[x]
    BY <1>1, <1>3, <1>4, ClosingMarks DEF k
<1>8. ASSUME NEW x \in Sessions, x # s PROVE Marks(x) /\ (Exists(x)' <=> Exists(x))
    BY <1>3, <1>4, <1>7, <1>8, ClosingMarks DEF Marks, Exists
<1>9. Typed'
    <2>1. state' \in [Sessions -> State \cup {None}]
        BY <1>1, <1>3, <1>4, <1>5, ClosingMarks
    <2>2. sessions' \in [Names -> Sessions \cup {None}]
        BY <1>1, <1>3, <1>5, WithoutShrinks
    <2>3. pc' \in [Actors -> Phases]
        BY <1>2, <1>3 DEF Typed, Phases
    <2> QED
        BY <1>1, <1>2, <1>3, <1>4, <2>1, <2>2, <2>3 DEF Typed
<1>10. ASSUME NEW n \in Names PROVE MapAgrees(n)'
    <2>1. CASE n = r.name
        <3>1. sessions'[n] = s
            BY <1>1, <1>3, <1>5, <2>1, WithoutShrinks
        <3> QED
            BY <1>6, <1>7, <2>1, <3>1 DEF MapAgrees, Exists
    <2>2. CASE n # r.name
        <3>1. sessions'[n] \in {sessions[n], None} /\ sessions[n] \in Sessions \cup {None}
            BY <1>1, <1>3, <1>5, <2>2, WithoutShrinks DEF Typed
        <3>2. sessions[n] # None => sessions[n] # s
            BY <1>1 DEF Agrees, MapAgrees
        <3> QED
            BY <1>8, <3>1, <3>2 DEF Agrees, MapAgrees, Marks, Alike, Exists
    <2> QED
        BY <2>1, <2>2
<1>11. ASSUME NEW a \in Actors PROVE ActorAgrees(a)'
    <2>1. ActorAgrees(a) /\ killing[a] \in Sessions \cup {None} /\ todo[a] \subseteq Sessions
        BY <1>3 DEF Agrees, Typed
    <2>2. \A x \in todo'[a] : x \in Sessions /\ Exists(x)
        BY <1>2, <1>3, <1>4, <2>1 DEF Typed, ActorAgrees
    <2>3. \A x \in todo'[a] : Exists(x)'
        BY <1>1, <1>8, <2>2
    <2>4. killing[a] # None => killing[a] # s /\ Exists(killing[a])' /\ state'[killing[a]].killed
        <3>1. killing[a] # None => killing[a] \in Sessions /\ killing[a] # s /\ Exists(killing[a]) /\ state[killing[a]].killed
            BY <1>1, <2>1 DEF ActorAgrees
        <3>2. \A x \in Sessions : x # s /\ Exists(x) => Exists(x)' /\ state'[x].killed = state[x].killed
            BY <1>8 DEF Marks, Alike, Exists
        <3> QED
            BY <1>2, <3>1, <3>2 DEF Exists
    <2> QED
        BY <1>2, <2>3, <2>4 DEF ActorAgrees
<1>12. ASSUME NEW d \in Callers PROVE CallerAgrees(d)'
    <2>1. \A e \in Callers : e # c => own'[e] = own[e] /\ own[e] # s /\ pc'[e] = pc[e] /\ request'[e] = request[e]
        BY <1>1, <1>2, <1>3 DEF Agrees, Typed, CallerAgrees
    <2>2. own'[c] = s /\ pc'[c] = "open" /\ request'[c] = None
        BY <1>1, <1>2, <1>3 DEF Typed
    <2>3. CASE d = c
        BY <1>3, <1>6, <1>7, <2>1, <2>2, <2>3 DEF CallerAgrees, Starting, Exists
    <2>4. CASE d # c
        <3>1. CallerAgrees(d) /\ own[d] \in Sessions \cup {None}
            BY <1>3 DEF Agrees, Typed
        <3>2. own[d] # None => Exists(own[d])' /\ Alike(state'[own[d]], state[own[d]])
            BY <1>8, <2>1, <2>4, <3>1 DEF CallerAgrees, Marks, Exists
        <3>3. pc[d] = "cleanup" => own[d] # None
            BY <3>1 DEF CallerAgrees, Starting
        <3> QED
            BY <2>1, <2>2, <2>4, <3>1, <3>2, <3>3 DEF CallerAgrees, Alike
    <2> QED
        BY <2>3, <2>4
<1>13. ASSUME NEW x \in Sessions PROVE SessionAgrees(x)'
    <2>1. CASE x = s
        BY <1>6, <1>7, <2>1 DEF SessionAgrees
    <2>2. CASE x # s
        <3>1. SessionAgrees(x) /\ Marks(x) /\ (Exists(x)' <=> Exists(x))
            BY <1>8, <2>2 DEF Agrees
        <3>2. \A d \in Callers : own'[d] = x <=> own[d] = x
            BY <1>1, <1>3, <2>2 DEF Typed
        <3>3. \A d \in Callers : own[d] = x /\ pc[d] = "cleanup" => pc'[d] = "cleanup"
            BY <1>2, <1>3 DEF Typed, Starting
        <3> QED
            BY <1>2, <3>1, <3>2, <3>3 DEF SessionAgrees, Marks, Alike, Exists
    <2> QED
        BY <2>1, <2>2
<1> QED
    BY <1>9, <1>10, <1>11, <1>12, <1>13 DEF Agrees

-----------------------------------------------------------------------------
(* One step.                                                               *)

LEMMA AskingAgrees ==
    ASSUME Agrees, NEW c \in Callers, NEW r \in Requests,
           Refuse(c, r) \/ Reuse(c, r) \/ Replace(c, r) \/ Exhausted(c, r)
    PROVE  Agrees'
<1>1. Typed /\ c \in Actors /\ pc[c] \notin Starting /\ own[c] = None
    BY AsksIsIdle DEF Agrees, CallerAgrees, Refuse, Reuse, Replace, Exhausted
<1>2. Expired \in SUBSET Sessions /\ \A x \in Expired : Exists(x)
    BY DEF Expired, Mapped
<1>3. sessions[r.name] \in Sessions \cup {None} /\ (sessions[r.name] # None => Exists(sessions[r.name]))
    BY <1>1 DEF Agrees, MapAgrees, Typed, Requests
<1>4. CASE Refuse(c, r)
    <2>1. Answer(c) /\ UNCHANGED <<sessions, closed, state, dirs, todo, killing>>
        BY <1>4 DEF Refuse, workVars
    <2>2. \A s \in Sessions : Marks(s)
        BY <1>1, <2>1 DEF Marks, Alike, Typed
    <2> QED
        BY <1>1, <2>1, <2>2, AnswerAsks, MarkStep DEF Agrees, Typed, ActorAgrees
<1>5. CASE Reuse(c, r)
    <2> DEFINE s == sessions[r.name]
    <2>1. Answer(c) /\ UNCHANGED <<sessions, closed, dirs, todo, killing>> /\ s # None /\ state' = [state EXCEPT ![s].stale = FALSE]
        BY <1>5 DEF Reuse, workVars
    <2>2. state[s] \in State /\ s \in Sessions
        BY <1>1, <1>3, <2>1 DEF Typed, Exists
    <2> DEFINE k == [state[s] EXCEPT !.stale = FALSE]
    <2>3. k \in State /\ Alike(k, state[s])
        BY <2>2 DEF State, Alike
    <2>4. state' = [state EXCEPT ![s] = k]
        BY <1>1, <2>1, <2>2 DEF Typed
    <2> HIDE DEF k, s
    <2>5. DOMAIN state' = Sessions /\ state' = [x \in Sessions |-> state'[x]] /\ \A x \in Sessions : Marks(x)
        BY <1>1, <2>2, <2>3, <2>4 DEF Typed, Marks, Alike
    <2> QED
        BY <1>1, <2>1, <2>5, AnswerAsks, MarkStep DEF Agrees, Typed, ActorAgrees
<1>6. ASSUME NEW gone \in SUBSET Sessions, \A x \in gone : Exists(x), state' = Closing(gone),
             todo' = [todo EXCEPT ![c] = gone],
             sessions' \in {sessions, Without(Expired)}, UNCHANGED <<closed, dirs, own, killing>>,
             NEW phase \in {"idle", "admit", "return"}, pc' = [pc EXCEPT ![c] = phase],
             NEW asked \in {r, None}, request' = [request EXCEPT ![c] = asked], asked # None <=> phase = "admit"
      PROVE  Agrees'
    <2>1. \A s \in Sessions : Marks(s)
        BY <1>1, <1>6, ClosingMarks DEF Marks
    <2>2. sessions' \in [Names -> Sessions \cup {None}] /\ \A n \in Names : sessions'[n] \in {sessions[n], None}
        BY <1>1, <1>6, WithoutShrinks DEF Typed
    <2>3. todo' \in [Actors -> SUBSET Sessions] /\ \A a \in Actors : \A s \in todo'[a] : Exists(s)
        BY <1>1, <1>6 DEF Typed, Agrees, ActorAgrees
    <2>4. pc' \in [Actors -> Phases] /\ request' \in [Callers -> Requests \cup {None}]
        BY <1>1, <1>6 DEF Typed, Phases
    <2>5. \A d \in Callers : Asking(d) \/ (pc'[d] = pc[d] /\ request'[d] = request[d])
        BY <1>1, <1>6 DEF Typed, Asking
    <2>6. DOMAIN state' = Sessions /\ state' = [s \in Sessions |-> state'[s]] /\ closed' \in BOOLEAN
        BY <1>1, <1>6, ClosingMarks DEF Typed
    <2> QED
        BY <1>6, <2>1, <2>2, <2>3, <2>4, <2>5, <2>6, MarkStep
<1>7. CASE Replace(c, r)
    <2> DEFINE gone == {sessions[r.name]}
    <2>1. gone \in SUBSET Sessions /\ (\A x \in gone : Exists(x))
        BY <1>3, <1>7 DEF Replace
    <2>2. /\ state' = Closing(gone) /\ todo' = [todo EXCEPT ![c] = gone] /\ sessions' = sessions
          /\ UNCHANGED <<closed, dirs, own, killing>>
          /\ pc' = [pc EXCEPT ![c] = "admit"] /\ request' = [request EXCEPT ![c] = r]
        BY <1>7 DEF Replace, Go
    <2> HIDE DEF gone
    <2>3. r # None
        OBVIOUS
    <2> QED
        BY <1>6, <2>1, <2>2, <2>3
<1>8. CASE Exhausted(c, r)
    <2> DEFINE phase == IF Expired = {} THEN "idle" ELSE "return"
    <2>1. /\ state' = Closing(Expired) /\ todo' = [todo EXCEPT ![c] = Expired] /\ sessions' = Without(Expired)
          /\ UNCHANGED <<closed, dirs, own, killing>>
          /\ pc' = [pc EXCEPT ![c] = phase] /\ request' = [request EXCEPT ![c] = None]
        BY <1>8 DEF Exhausted, Go
    <2>2. phase \in {"idle", "return"}
        OBVIOUS
    <2> HIDE DEF phase
    <2> QED
        BY <1>2, <1>6, <2>1, <2>2
<1> QED
    BY <1>4, <1>5, <1>7, <1>8

LEMMA StartingAgrees ==
    ASSUME Agrees, NEW c \in Callers,
           OpenSource(c) \/ MakeDir(c) \/ FailEarly(c) \/ Start(c) \/ FailStart(c) \/ CleanUp(c)
    PROVE  Agrees'
<1> DEFINE s == own[c]
<1>1. Typed /\ c \in Actors /\ pc[c] \in Starting /\ own[c] # None /\ request[c] = None
    BY DEF Agrees, CallerAgrees, OpenSource, MakeDir, FailEarly, Start, FailStart, CleanUp, Starting
<1>2. s \in Sessions /\ state[s] \in State /\ state[s].proc = "none" /\ state[s].watch = "none" /\ SessionAgrees(s) /\ Exists(s)
    BY <1>1 DEF Agrees, CallerAgrees, Typed, Exists
<1>3. pc[c] = "cleanup" => state[s].input # "open"
    BY DEF Agrees, CallerAgrees
<1>4. Released(state[s]) \in State /\ Released(state[s]).input # "open" /\ Released(state[s]).name = state[s].name
      /\ Released(state[s]).killed = state[s].killed /\ Released(state[s]).lifecycle = state[s].lifecycle
      /\ Released(state[s]).cleaned = state[s].cleaned /\ Released(state[s]).lease = state[s].lease
      /\ Released(state[s]).proc = "none" /\ Released(state[s]).watch = "none"
    BY <1>2 DEF Released, State
<1>5. ASSUME Answer(c)
      PROVE  /\ pc' = [pc EXCEPT ![c] = "idle"] /\ own' = [own EXCEPT ![c] = None]
             /\ request' \in [Callers -> Requests \cup {None}] /\ request'[c] = None
             /\ \A d \in Callers : d # c => request'[d] = request[d]
    BY <1>1, <1>5 DEF Answer, Go, Typed
<1>6. UNCHANGED request => /\ request' \in [Callers -> Requests \cup {None}] /\ request'[c] = None
                           /\ \A d \in Callers : d # c => request'[d] = request[d]
    BY <1>1 DEF Typed
<1>7. sessions' = sessions => /\ sessions' \in [Names -> Sessions \cup {None}]
                              /\ \A n \in Names : sessions'[n] \in {sessions[n], None}
    BY <1>1 DEF Typed
<1>8. CASE OpenSource(c)
    <2> DEFINE k == [state[s] EXCEPT !.input = "open"]
    <2>1. /\ pc[c] = "open" /\ state' = [state EXCEPT ![s] = k] /\ pc' = [pc EXCEPT ![c] = "mkdir"]
          /\ UNCHANGED <<sessions, closed, dirs, request, own, workVars>>
        BY <1>1, <1>2, <1>8 DEF OpenSource, Go, Typed
    <2>2. k \in State /\ k.name = state[s].name /\ k.killed = state[s].killed /\ k.lifecycle = state[s].lifecycle
          /\ k.cleaned = state[s].cleaned /\ k.lease = state[s].lease /\ k.proc = "none" /\ k.watch = "none"
        BY <1>2 DEF State
    <2> HIDE DEF k
    <2> QED
        BY <1>1, <1>6, <1>7, <2>1, <2>2, StartStep DEF Starting, Phases, Typed
<1>9. CASE MakeDir(c)
    <2>1. /\ pc[c] = "mkdir" /\ state' = [state EXCEPT ![s] = state[s]] /\ pc' = [pc EXCEPT ![c] = "start"]
          /\ UNCHANGED <<sessions, closed, request, own, workVars>> /\ dirs' = dirs \cup {state[s].name}
        BY <1>1, <1>2, <1>9 DEF MakeDir, Go, Typed
    <2>2. state[s].name \in Names
        BY <1>2 DEF State
    <2> HIDE DEF s
    <2> QED
        BY <1>1, <1>2, <1>6, <1>7, <2>1, <2>2, StartStep DEF Starting, Phases, Typed, s
<1>10. CASE FailEarly(c)
    <2> DEFINE k == [Released(state[s]) EXCEPT !.lease = FALSE]
    <2>1. /\ pc[c] # "cleanup" /\ state' = [state EXCEPT ![s] = k] /\ Answer(c) /\ Unmap(s)
          /\ UNCHANGED <<closed, dirs, workVars>>
        BY <1>1, <1>2, <1>10 DEF FailEarly, Typed
    <2>2. k \in State /\ k.name = state[s].name /\ k.killed = state[s].killed /\ k.lifecycle = state[s].lifecycle
          /\ k.cleaned = state[s].cleaned /\ k.proc = "none" /\ k.watch = "none" /\ k.input # "open"
        BY <1>4 DEF State
    <2> HIDE DEF k
    <2> QED
        BY <1>1, <1>5, <2>1, <2>2, StartStep, UnmapShrinks DEF Phases, Typed
<1>11. CASE Start(c)
    <2> DEFINE k == [state[s] EXCEPT !.proc = "running", !.pending = Accelerated,
                                     !.watch = IF Accelerated THEN "waiting" ELSE "none"]
    <2>1. /\ pc[c] # "cleanup" /\ state' = [state EXCEPT ![s] = k] /\ Answer(c) /\ ~state[s].killed
          /\ UNCHANGED <<sessions, closed, dirs, workVars>>
        BY <1>11 DEF Start, Launchable
    <2>2. k \in State /\ k.name = state[s].name /\ k.killed = state[s].killed /\ k.lifecycle = state[s].lifecycle
          /\ k.cleaned = state[s].cleaned /\ k.lease = state[s].lease /\ (k.watch # "none" => k.pending)
        BY <1>2 DEF State, ProcessStates
    <2> HIDE DEF k
    <2> QED
        BY <1>1, <1>5, <1>7, <2>1, <2>2, StartStep DEF Phases, Typed
<1>12. CASE FailStart(c)
    <2> DEFINE k == Released(state[s])
    <2>1. /\ pc[c] = "start" /\ state' = [state EXCEPT ![s] = k] /\ pc' = [pc EXCEPT ![c] = "cleanup"] /\ Unmap(s)
          /\ UNCHANGED <<closed, dirs, request, own, workVars>>
        BY <1>12 DEF FailStart, Go
    <2> QED
        BY <1>1, <1>4, <1>6, <2>1, StartStep, UnmapShrinks DEF Starting, Phases, Typed
<1>13. CASE CleanUp(c)
    <2>1. pc[c] = "cleanup" /\ Answer(c) /\ UNCHANGED <<sessions, closed, workVars>>
        BY <1>13 DEF CleanUp
    <2> DEFINE k == [state[s] EXCEPT !.lease = FALSE]
    <2>2. k \in State /\ k.name = state[s].name /\ k.killed = state[s].killed /\ k.lifecycle = state[s].lifecycle
          /\ k.cleaned = state[s].cleaned /\ k.proc = "none" /\ k.watch = "none" /\ k.input = state[s].input
        BY <1>2 DEF State
    <2>3. CASE dirs' = dirs \ {state[s].name} /\ state' = [state EXCEPT ![s].lease = FALSE]
        <3>1. state' = [state EXCEPT ![s] = k] /\ dirs' \subseteq Names
            BY <1>1, <2>3 DEF Typed
        <3> HIDE DEF k
        <3> QED
            BY <1>1, <1>3, <1>5, <1>7, <2>1, <2>2, <3>1, StartStep DEF Phases, Typed
    <2>4. CASE UNCHANGED <<dirs, state>>
        <3>1. state' = [state EXCEPT ![s] = state[s]]
            BY <1>1, <2>4 DEF Typed
        <3> QED
            BY <1>1, <1>2, <1>3, <1>5, <1>7, <2>1, <2>4, <3>1, StartStep DEF Phases, Typed
    <2> QED
        BY <1>13, <2>3, <2>4 DEF CleanUp
<1> QED
    BY <1>8, <1>9, <1>10, <1>11, <1>12, <1>13

LEMMA CallerStep == ASSUME Agrees, NEW c \in Callers, GetNext(c) \/ \E n \in Names : Close(c, n) PROVE Agrees'
<1>1. CASE Return(c)
    <2>1. /\ Typed /\ pc[c] \notin Starting /\ Answer(c) /\ UNCHANGED <<sessions, closed, state, dirs, todo, killing>>
          /\ \A s \in Sessions : Marks(s)
        BY <1>1 DEF Return, Starting, workVars, Marks, Alike, Agrees, Typed
    <2> QED
        BY <2>1, AnswerAsks, MarkStep DEF Agrees, Typed, ActorAgrees
<1>2. ASSUME NEW n \in Names, Close(c, n) PROVE Agrees'
    <2> DEFINE gone == {sessions[n]}
    <2>1. /\ Typed /\ c \in Actors /\ pc[c] = "idle" /\ sessions[n] # None /\ state' = Closing(gone)
          /\ todo' = [todo EXCEPT ![c] = gone] /\ pc' = [pc EXCEPT ![c] = "return"]
          /\ UNCHANGED <<sessions, closed, dirs, request, own, killing>>
        BY <1>2 DEF Close, Agrees, Go
    <2>2. gone \in SUBSET Sessions /\ \A x \in gone : Exists(x)
        BY <2>1 DEF Agrees, MapAgrees, Typed
    <2> HIDE DEF gone
    <2>3. request[c] = None /\ pc[c] \notin Starting
        BY <2>1 DEF Agrees, CallerAgrees, Starting
    <2>4. \A s \in Sessions : Marks(s)
        BY <2>1, <2>2, ClosingMarks DEF Marks
    <2>5. DOMAIN state' = Sessions /\ state' = [s \in Sessions |-> state'[s]]
        BY <2>1, <2>2, ClosingMarks
    <2>6. todo' \in [Actors -> SUBSET Sessions] /\ \A a \in Actors : \A s \in todo'[a] : Exists(s)
        BY <2>1, <2>2 DEF Typed, Agrees, ActorAgrees
    <2>7. pc' \in [Actors -> Phases] /\ \A d \in Callers : Asking(d) \/ (pc'[d] = pc[d] /\ request'[d] = request[d])
        BY <2>1, <2>3 DEF Typed, Asking, Phases
    <2> QED
        BY <2>1, <2>4, <2>5, <2>6, <2>7, MarkStep DEF Typed
<1> QED
    BY <1>1, <1>2, AskingAgrees, AdmitAgrees, StartingAgrees DEF GetNext

LEMMA SessionStep == ASSUME Agrees, NEW s \in Sessions, SessionNext(s) PROVE Agrees'
<1>1. Typed /\ Exists(s) /\ state[s] \in State /\ SessionAgrees(s)
    BY DEF Agrees, Typed, Exists, SessionNext, Exit, WatchEnds, WatchFails, Relaunch, RelaunchFails
<1>2. state[s].proc # "none" \/ state[s].watch # "none" => \A c \in Callers : own[c] # s
    BY <1>1 DEF Agrees, CallerAgrees, Exists
<1>3. CASE Exit(s)
    <2>1. state[s].proc = "running" /\ UNCHANGED <<sessions, closed, dirs, callVars, workVars>>
        BY <1>3 DEF Exit
    <2>2. PICK how \in {"failed", "ended"} : state' = [state EXCEPT ![s].proc = how]
        BY <1>3 DEF Exit
    <2> DEFINE k == [state[s] EXCEPT !.proc = how]
    <2>3. state' = [state EXCEPT ![s] = k]
        BY <1>1, <2>2 DEF Typed
    <2>4. /\ k \in State /\ k.name = state[s].name /\ k.killed = state[s].killed /\ k.lifecycle = state[s].lifecycle
          /\ k.cleaned = state[s].cleaned /\ k.lease = state[s].lease /\ k.input = state[s].input
          /\ k.proc # "running" /\ k.watch = state[s].watch /\ k.pending = state[s].pending
        BY <1>1, <2>2 DEF State, ProcessStates
    <2> HIDE DEF k
    <2> QED
        BY <1>1, <1>2, <2>1, <2>3, <2>4, ProcessStep DEF SessionAgrees
<1>4. CASE WatchEnds(s) \/ RelaunchFails(s)
    <2> DEFINE k == [state[s] EXCEPT !.watch = "none", !.pending = FALSE]
    <2>1. state[s].watch # "none" /\ UNCHANGED <<sessions, closed, dirs, callVars, workVars>> /\ state' = [state EXCEPT ![s] = k]
        BY <1>4 DEF WatchEnds, RelaunchFails
    <2>4. /\ k \in State /\ k.name = state[s].name /\ k.killed = state[s].killed /\ k.lifecycle = state[s].lifecycle
          /\ k.cleaned = state[s].cleaned /\ k.lease = state[s].lease /\ k.input = state[s].input
          /\ k.proc = state[s].proc /\ k.watch = "none"
        BY <1>1 DEF State
    <2> HIDE DEF k
    <2> QED
        BY <1>1, <1>2, <2>1, <2>4, ProcessStep
<1>5. CASE WatchFails(s)
    <2> DEFINE k == [state[s] EXCEPT !.watch = "relaunch"]
    <2>1. state[s].watch = "waiting" /\ UNCHANGED <<sessions, closed, dirs, callVars, workVars>> /\ state' = [state EXCEPT ![s] = k]
        BY <1>1, <1>5 DEF WatchFails, Typed
    <2>4. /\ k \in State /\ k.name = state[s].name /\ k.killed = state[s].killed /\ k.lifecycle = state[s].lifecycle
          /\ k.cleaned = state[s].cleaned /\ k.lease = state[s].lease /\ k.input = state[s].input
          /\ k.proc = state[s].proc /\ k.pending = state[s].pending
        BY <1>1 DEF State
    <2>5. state[s].pending
        BY <1>1, <2>1 DEF SessionAgrees
    <2> HIDE DEF k
    <2> QED
        BY <1>1, <1>2, <2>1, <2>4, <2>5, ProcessStep
<1>6. CASE Relaunch(s)
    <2> DEFINE k == [state[s] EXCEPT !.proc = "running", !.watch = "none", !.pending = FALSE]
    <2>1. /\ state[s].watch = "relaunch" /\ ~state[s].killed /\ UNCHANGED <<sessions, closed, dirs, callVars, workVars>>
          /\ state' = [state EXCEPT ![s] = k]
        BY <1>6 DEF Relaunch, Launchable
    <2>4. /\ k \in State /\ k.name = state[s].name /\ k.killed = state[s].killed /\ k.lifecycle = state[s].lifecycle
          /\ k.cleaned = state[s].cleaned /\ k.lease = state[s].lease /\ k.input = state[s].input
          /\ k.watch = "none"
        BY <1>1 DEF State, ProcessStates
    <2> HIDE DEF k
    <2> QED
        BY <1>1, <1>2, <2>1, <2>4, ProcessStep
<1> QED
    BY <1>3, <1>4, <1>5, <1>6 DEF SessionNext

LEMMA UseStep == ASSUME Agrees, NEW n \in Names, Touch(n) \/ Age(n) PROVE Agrees'
<1> DEFINE s == sessions[n]
<1>1. Typed /\ s \in Sessions /\ Exists(s) /\ state[s] \in State
    BY DEF Agrees, Typed, MapAgrees, Touch, Age, Exists
<1>2. PICK stale \in BOOLEAN : state' = [state EXCEPT ![s].stale = stale]
    BY DEF Touch, Age
<1> DEFINE k == [state[s] EXCEPT !.stale = stale]
<1>3. k \in State /\ Alike(k, state[s]) /\ state' = [state EXCEPT ![s] = k]
    BY <1>1, <1>2 DEF State, Alike, Typed
<1>4. UNCHANGED <<sessions, closed, dirs, pc, request, own, todo, killing>>
    BY DEF Touch, Age, callVars, workVars
<1> HIDE DEF k, s
<1>5. DOMAIN state' = Sessions /\ state' = [x \in Sessions |-> state'[x]] /\ \A x \in Sessions : Marks(x)
    BY <1>1, <1>3 DEF Typed, Marks, Alike
<1> QED
    BY <1>1, <1>4, <1>5, MarkStep DEF Typed, Agrees, ActorAgrees

LEMMA CollectStep == ASSUME Agrees, Reap \/ CloseAll PROVE Agrees'
<1>1. Typed
    BY DEF Agrees
<1>2. ASSUME NEW a \in Actors, NEW gone \in SUBSET Sessions, \A x \in gone : Exists(x), state' = Closing(gone),
             NEW work \in SUBSET Sessions, \A x \in work : Exists(x), todo' = [todo EXCEPT ![a] = work],
             NEW out, sessions' = Without(out), closed' \in BOOLEAN, UNCHANGED <<dirs, callVars, killing>>
      PROVE  Agrees'
    <2>1. \A s \in Sessions : Marks(s)
        BY <1>1, <1>2, ClosingMarks DEF Marks
    <2>2. sessions' \in [Names -> Sessions \cup {None}] /\ \A n \in Names : sessions'[n] \in {sessions[n], None}
        BY <1>1, <1>2, WithoutShrinks
    <2>3. todo' \in [Actors -> SUBSET Sessions] /\ \A b \in Actors : \A s \in todo'[b] : Exists(s)
        BY <1>1, <1>2 DEF Typed, Agrees, ActorAgrees
    <2>4. DOMAIN state' = Sessions /\ state' = [s \in Sessions |-> state'[s]]
        BY <1>1, <1>2, ClosingMarks
    <2> QED
        BY <1>1, <1>2, <2>1, <2>2, <2>3, <2>4, MarkStep DEF callVars, Typed
<1>3. /\ Expired \in SUBSET Sessions /\ \A x \in Expired : Exists(x)
    BY DEF Expired, Mapped
<1>4. /\ Unfinished \in SUBSET Sessions /\ \A x \in Unfinished : Exists(x)
    BY DEF Unfinished, Mapped
<1>5. CASE Reap
    <2>1. /\ state' = Closing(Expired) /\ todo' = [todo EXCEPT ![Reaper] = Unfinished \cup Expired] /\ sessions' = Without(Expired)
          /\ closed' \in BOOLEAN /\ UNCHANGED <<dirs, callVars, killing>> /\ Reaper \in Actors
        BY <1>1, <1>5 DEF Reap, Typed
    <2>2. Unfinished \cup Expired \in SUBSET Sessions /\ \A x \in Unfinished \cup Expired : Exists(x)
        BY <1>3, <1>4
    <2> QED
        BY <1>2, <1>3, <2>1, <2>2
<1>6. CASE CloseAll
    <2> DEFINE all == {s \in Sessions : Mapped(s)}
    <2>1. /\ state' = Closing(all) /\ todo' = [todo EXCEPT ![Shutdown] = all] /\ sessions' = Without(all \ Unfinished)
          /\ closed' \in BOOLEAN /\ UNCHANGED <<dirs, callVars, killing>> /\ Shutdown \in Actors
        BY <1>6 DEF CloseAll
    <2>2. all \in SUBSET Sessions /\ \A x \in all : Exists(x)
        BY DEF Mapped
    <2> HIDE DEF all
    <2> QED
        BY <1>2, <2>1, <2>2
<1> QED
    BY <1>5, <1>6

LEMMA FinalizeStep == ASSUME Agrees, NEW a \in Actors, Finalize(a) PROVE Agrees'
<1>1. Typed /\ ActorAgrees(a) /\ a # None
    BY DEF Agrees
<1>2. CASE Kill(a)
    <2>1. PICK s \in todo[a] : /\ state[s].lifecycle = None
                               /\ state' = [state EXCEPT ![s] = [@ EXCEPT !.killed = TRUE, !.lifecycle = a]]
                               /\ todo' = [todo EXCEPT ![a] = @ \ {s}]
                               /\ killing' = [killing EXCEPT ![a] = s]
        BY <1>2 DEF Kill
    <2>2. s \in Sessions /\ Exists(s) /\ state[s] \in State
        BY <1>1 DEF Typed, ActorAgrees, Exists
    <2> DEFINE k == [state[s] EXCEPT !.killed = TRUE, !.lifecycle = a]
    <2>3. state' = [state EXCEPT ![s] = k] /\ killing[a] = None /\ UNCHANGED <<sessions, closed, dirs, callVars>>
        BY <1>2, <2>1 DEF Kill
    <2>4. /\ k \in State /\ k.name = state[s].name /\ k.killed /\ k.proc = state[s].proc /\ k.watch = state[s].watch
          /\ k.pending = state[s].pending /\ k.lifecycle = a /\ k.input = state[s].input /\ k.cleaned = state[s].cleaned
          /\ k.lease = state[s].lease
        BY <2>2 DEF State
    <2> HIDE DEF k
    <2>5. todo' \in [Actors -> SUBSET Sessions] /\ \A b \in Actors : todo'[b] \subseteq todo[b]
        BY <1>1, <2>1 DEF Typed
    <2>6. dirs' \subseteq Names /\ s # None /\ state[s].lifecycle = None
        BY <1>1, <2>1, <2>2, <2>3 DEF Typed
    <2>7. /\ killing' \in [Actors -> Sessions \cup {None}] /\ killing'[a] = s
          /\ \A b \in Actors : b # a => killing'[b] = killing[b]
        BY <1>1, <2>1, <2>2 DEF Typed
    <2>8. /\ k.cleaned => state[s].cleaned \/ k.proc # "running"
          /\ k.lease = state[s].lease \/ k.proc # "running"
          /\ k.input # "open" \/ k.input = state[s].input
        BY <1>1, <2>4
    <2> QED
        BY <1>1, <2>2, <2>3, <2>4, <2>5, <2>6, <2>7, <2>8, KillStep
<1> DEFINE s == killing[a]
<1>3. s # None => /\ s \in Sessions /\ Exists(s) /\ state[s] \in State /\ state[s].killed
                  /\ Released(state[s]) \in State /\ Released(state[s]).input # "open" /\ Released(state[s]).name = state[s].name
                  /\ Released(state[s]).killed = state[s].killed /\ Released(state[s]).proc = state[s].proc
                  /\ Released(state[s]).watch = state[s].watch /\ Released(state[s]).pending = state[s].pending
                  /\ Released(state[s]).cleaned = state[s].cleaned /\ Released(state[s]).lease = state[s].lease
    <2> SUFFICES ASSUME s # None PROVE <1>3!2
        OBVIOUS
    <2>1. s \in Sessions /\ Exists(s) /\ state[s] \in State /\ state[s].killed
        BY <1>1 DEF Typed, ActorAgrees, Exists
    <2> QED
        BY <2>1 DEF Released, State
<1>4. todo \in [Actors -> SUBSET Sessions] /\ dirs \subseteq Names
    BY <1>1 DEF Typed
<1>5. CASE GiveUp(a) \/ RemovalFailed(a)
    <2> DEFINE k == [Released(state[s]) EXCEPT !.lifecycle = None]
    <2>1. /\ s # None /\ state[s].lifecycle = a /\ state' = [state EXCEPT ![s] = k]
          /\ UNCHANGED <<sessions, closed, dirs, callVars, todo>>
        BY <1>5 DEF GiveUp, RemovalFailed, InKill
    <2>2. killing' = [killing EXCEPT ![a] = None]
        BY <1>5 DEF GiveUp, RemovalFailed
    <2>4. /\ k \in State /\ k.name = state[s].name /\ k.killed /\ k.proc = state[s].proc /\ k.watch = state[s].watch
          /\ k.pending = state[s].pending /\ k.lifecycle = None /\ k.input # "open" /\ k.cleaned = state[s].cleaned
          /\ k.lease = state[s].lease
        BY <1>3, <2>1 DEF State
    <2>5. /\ killing' \in [Actors -> Sessions \cup {None}] /\ killing'[a] = None
          /\ \A b \in Actors : b # a => killing'[b] = killing[b]
        BY <1>1, <2>2 DEF Typed
    <2>6. s \in Sessions /\ Exists(s) /\ s = killing[a]
        BY <1>3, <2>1
    <2>7. todo' \in [Actors -> SUBSET Sessions] /\ dirs' \subseteq Names /\ \A b \in Actors : todo'[b] \subseteq todo[b]
        BY <1>4, <2>1
    <2> HIDE DEF k, s
    <2>8. /\ k.cleaned => state[s].cleaned \/ k.proc # "running"
          /\ k.lease = state[s].lease \/ k.proc # "running"
          /\ k.input # "open" \/ k.input = state[s].input
        BY <2>4, <2>6
    <2> QED
        BY <2>1, <2>4, <2>5, <2>6, <2>7, <2>8, KillStep
<1>6. CASE RemoveDir(a)
    <2> DEFINE k == [Released(state[s]) EXCEPT !.lifecycle = None, !.lease = FALSE, !.cleaned = TRUE]
    <2>1. /\ s # None /\ state[s].lifecycle = a /\ state' = [state EXCEPT ![s] = k] /\ state[s].proc # "running"
          /\ UNCHANGED <<sessions, closed, callVars, todo, killing>> /\ dirs' \subseteq Names
        BY <1>4, <1>6 DEF RemoveDir, InKill, workVars
    <2>4. /\ k \in State /\ k.name = state[s].name /\ k.killed /\ k.proc = state[s].proc /\ k.watch = state[s].watch
          /\ k.pending = state[s].pending /\ k.lifecycle = None /\ k.input # "open"
        BY <1>3, <2>1 DEF State
    <2>5. /\ killing' \in [Actors -> Sessions \cup {None}] /\ killing'[a] = s
          /\ \A b \in Actors : b # a => killing'[b] = killing[b]
        BY <1>1, <2>1 DEF Typed
    <2>6. s \in Sessions /\ Exists(s) /\ s = killing[a] /\ k.proc # "running"
        BY <1>3, <2>1, <2>4
    <2>7. todo' \in [Actors -> SUBSET Sessions] /\ \A b \in Actors : todo'[b] \subseteq todo[b]
        BY <1>4, <2>1
    <2> HIDE DEF k, s
    <2>8. /\ k.cleaned => state[s].cleaned \/ k.proc # "running"
          /\ k.lease = state[s].lease \/ k.proc # "running"
          /\ k.input # "open" \/ k.input = state[s].input
        BY <2>4, <2>6
    <2> QED
        BY <1>1, <2>1, <2>4, <2>5, <2>6, <2>7, <2>8, KillStep
<1>7. CASE Unreserve(a)
    <2>1. /\ s # None /\ state[s].lifecycle # a /\ killing' = [killing EXCEPT ![a] = None] /\ Unmap(s)
          /\ UNCHANGED <<closed, state, dirs, callVars, todo>>
        BY <1>7 DEF Unreserve
    <2>2. sessions' \in [Names -> Sessions \cup {None}] /\ \A n \in Names : sessions'[n] \in {sessions[n], None}
        BY <1>1, <2>1, UnmapShrinks
    <2>3. Typed'
        BY <1>1, <2>1, <2>2 DEF Typed, callVars
    <2>4. ASSUME NEW n \in Names PROVE MapAgrees(n)'
        BY <2>1, <2>2 DEF Agrees, MapAgrees, Exists
    <2>5. ASSUME NEW c \in Callers PROVE CallerAgrees(c)'
        BY <2>1 DEF Agrees, CallerAgrees, callVars, Exists
    <2>6. ASSUME NEW b \in Actors PROVE ActorAgrees(b)'
        BY <1>1, <2>1 DEF Agrees, ActorAgrees, Typed, Exists
    <2>7. ASSUME NEW r \in Sessions PROVE SessionAgrees(r)'
        <3>1. SessionAgrees(r) /\ (Exists(r) /\ state[r].lifecycle # None => state[r].lifecycle \in Actors)
            BY <1>1 DEF Agrees, Typed, State, Exists
        <3>2. Exists(r) /\ state[r].lifecycle # None => state[r].lifecycle # a
            BY <2>1, <3>1 DEF SessionAgrees
        <3>3. Exists(r) /\ state[r].lifecycle # None => killing'[state[r].lifecycle] = r
            BY <1>1, <2>1, <3>1, <3>2 DEF SessionAgrees, Typed
        <3> QED
            BY <2>1, <3>1, <3>3 DEF SessionAgrees, callVars, Exists
    <2> QED
        BY <2>3, <2>4, <2>5, <2>6, <2>7 DEF Agrees
<1> QED
    BY <1>2, <1>5, <1>6, <1>7 DEF Finalize

LEMMA AgreesAfterwards == Agrees /\ [Next]_vars => Agrees'
<1> SUFFICES ASSUME Agrees, [Next]_vars PROVE Agrees'
    OBVIOUS
<1>1. CASE UNCHANGED vars
    BY <1>1 DEF vars, callVars, workVars, Agrees, Typed, MapAgrees, CallerAgrees, ActorAgrees, SessionAgrees, Exists
<1> QED
    BY <1>1, CallerStep, SessionStep, UseStep, CollectStep, FinalizeStep DEF Next

LEMMA AgreesAlways == Spec => []Agrees
    BY AgreesAtFirst, AgreesAfterwards, PTL DEF Spec

-----------------------------------------------------------------------------
(* Theorems.                                                               *)

(* Types, and who holds what: names, starts and lifecycle locks (Manager). *)
THEOREM TranscodeTypeCorrect == Spec => []TranscodeTypeOK
<1>1. Agrees => TranscodeTypeOK
    BY DEF Agrees, Typed, MapAgrees, CallerAgrees, SessionAgrees, TranscodeTypeOK, Starting
<1> QED
    BY <1>1, AgreesAlways, PTL

(* No process, source or reservation outlives its session, whoever starts, closes, reaps or shuts down meanwhile (kill). *)
THEOREM NothingOutlives == Spec => []NothingOutlivesItsSession
<1>1. Agrees => NoProcessAfterCleanup /\ SourcesClose /\ ProcessesHoldLeases
    BY DEF Agrees, SessionAgrees, NoProcessAfterCleanup, SourcesClose, ProcessesHoldLeases
<1> QED
    BY <1>1, TranscodeTypeCorrect, AgreesAlways, PTL DEF NothingOutlivesItsSession

-----------------------------------------------------------------------------
(* Death is final.                                                         *)

(* Nothing of a session changes that its death depends on. *)
Same(s) ==
    /\ state'[s] # None
    /\ state'[s].proc = state[s].proc /\ state'[s].pending = state[s].pending

LEMMA DeadStay == ASSUME NEW s \in Sessions, Dead(s), Same(s) PROVE Dead(s)'
    BY DEF Dead, Exited, Exists, Same

(* What can be said of a dead session: nobody starts it, nobody watches it. *)
LEMMA DeadSession ==
    ASSUME Agrees, NEW s \in Sessions, Dead(s)
    PROVE  /\ Typed /\ state[s] \in State /\ Exists(s) /\ state[s].proc \in {"failed", "ended"} /\ ~state[s].pending
           /\ state[s].watch = "none" /\ \A c \in Callers : own[c] # s
    BY DEF Agrees, SessionAgrees, CallerAgrees, Dead, Exited, Exists, Typed

LEMMA ClosingSame ==
    ASSUME Agrees, NEW s \in Sessions, Dead(s), NEW gone, state' = Closing(gone)
    PROVE  Same(s)
<1>1. Typed /\ state[s] \in State /\ state[s] # None
    BY DeadSession DEF Exists
<1>2. state'[s] = IF s \in gone THEN [state[s] EXCEPT !.closing = TRUE] ELSE state[s]
    BY DEF Closing
<1>3. [state[s] EXCEPT !.closing = TRUE] \in State
    BY <1>1 DEF State
<1>4. /\ [state[s] EXCEPT !.closing = TRUE].proc = state[s].proc
      /\ [state[s] EXCEPT !.closing = TRUE].pending = state[s].pending
    BY <1>1 DEF State
<1> QED
    BY <1>1, <1>2, <1>3, <1>4 DEF Same

LEMMA StaleSame ==
    ASSUME Agrees, NEW s \in Sessions, Dead(s), NEW r, NEW b \in BOOLEAN, state' = [state EXCEPT ![r].stale = b]
    PROVE  Same(s)
<1> DEFINE k == [state[s] EXCEPT !.stale = b]
<1>1. Typed /\ state[s] \in State /\ state[s] # None
    BY DeadSession DEF Exists
<1>2. state'[s] = state[s] \/ state'[s] = k
    BY <1>1 DEF Typed
<1>3. k \in State /\ k.proc = state[s].proc /\ k.pending = state[s].pending
    BY <1>1 DEF State
<1> HIDE DEF k
<1> QED
    BY <1>1, <1>2, <1>3 DEF Same

LEMMA CallerKeepsDead ==
    ASSUME Agrees, NEW s \in Sessions, Dead(s), NEW c \in Callers, GetNext(c) \/ \E n \in Names : Close(c, n)
    PROVE  Dead(s)'
<1>1. Typed /\ state[s] \in State /\ Exists(s) /\ own[c] # s
    BY DeadSession
<1>2. UNCHANGED state => Dead(s)'
    BY DEF Dead, Exited, Exists
<1>3. ASSUME NEW r \in Requests, Refuse(c, r) \/ Reuse(c, r) \/ Replace(c, r) \/ Exhausted(c, r) \/ Admit(c, r)
      PROVE  Dead(s)'
    <2>1. CASE Refuse(c, r)
        BY <1>2, <2>1 DEF Refuse
    <2>2. CASE Reuse(c, r)
        BY <2>2, StaleSame, DeadStay DEF Reuse
    <2>3. CASE Replace(c, r) \/ Exhausted(c, r)
        BY <2>3, ClosingSame, DeadStay DEF Replace, Exhausted
    <2>4. CASE Admit(c, r)
        <3>1. PICK x \in Sessions : ~Exists(x) /\ state' = [Closing(Expired) EXCEPT ![x] = NewSession(r)]
            BY <2>4 DEF Admit
        <3>2. x # s /\ state'[s] = Closing(Expired)[s]
            BY <1>1, <3>1 DEF Closing
        <3>3. Closing(Expired)[s] \in State /\ Alike(Closing(Expired)[s], state[s])
            BY <1>1, ClosingMarks DEF Expired, Mapped, Exists
        <3> QED
            BY <3>2, <3>3, DeadStay DEF Same, Alike
    <2> QED
        BY <1>3, <2>1, <2>2, <2>3, <2>4
<1>4. CASE OpenSource(c) \/ MakeDir(c) \/ FailEarly(c) \/ Start(c) \/ FailStart(c) \/ CleanUp(c)
    <2>1. UNCHANGED state \/ \A x \in Sessions : x # own[c] => state'[x] = state[x]
        BY <1>1, <1>4 DEF Typed, OpenSource, MakeDir, FailEarly, Start, FailStart, CleanUp
    <2> QED
        BY <1>1, <1>2, <2>1, DeadStay DEF Same, Exists
<1>5. CASE Return(c)
    BY <1>2, <1>5 DEF Return
<1>6. ASSUME NEW n \in Names, Close(c, n) PROVE Dead(s)'
    BY <1>6, ClosingSame, DeadStay DEF Close
<1> QED
    BY <1>3, <1>4, <1>5, <1>6 DEF GetNext

LEMMA OthersKeepDead ==
    ASSUME Agrees, NEW s \in Sessions, Dead(s),
           \/ \E r \in Sessions : SessionNext(r)
           \/ \E n \in Names : Touch(n) \/ Age(n)
           \/ Reap \/ CloseAll
           \/ \E a \in Actors : Finalize(a)
    PROVE  Dead(s)'
<1>1. Typed /\ state[s] \in State /\ Exists(s) /\ state[s].watch = "none" /\ state[s].proc # "running"
    BY DeadSession
<1>2. UNCHANGED state => Dead(s)'
    BY DEF Dead, Exited, Exists
<1>3. ASSUME NEW r \in Sessions, SessionNext(r) PROVE Dead(s)'
    <2>1. r # s
        BY <1>1, <1>3 DEF SessionNext, Exit, WatchEnds, WatchFails, Relaunch, RelaunchFails
    <2>2. \A x \in Sessions : x # r => state'[x] = state[x]
        BY <1>1, <1>3 DEF Typed, SessionNext, Exit, WatchEnds, WatchFails, Relaunch, RelaunchFails
    <2> QED
        BY <1>1, <2>1, <2>2, DeadStay DEF Same, Exists
<1>4. ASSUME NEW n \in Names, Touch(n) \/ Age(n) PROVE Dead(s)'
    BY <1>4, StaleSame, DeadStay DEF Touch, Age
<1>5. CASE Reap \/ CloseAll
    BY <1>5, ClosingSame, DeadStay DEF Reap, CloseAll
<1>6. ASSUME NEW a \in Actors, Finalize(a) PROVE Dead(s)'
    <2>1. CASE Kill(a)
        <3>1. PICK x \in todo[a] : state' = [state EXCEPT ![x] = [@ EXCEPT !.killed = TRUE, !.lifecycle = a]]
            BY <2>1 DEF Kill
        <3>2. state'[s] = state[s] \/ state'[s] = [state[s] EXCEPT !.killed = TRUE, !.lifecycle = a]
            BY <1>1, <3>1 DEF Typed
        <3>3. [state[s] EXCEPT !.killed = TRUE, !.lifecycle = a] \in State
            BY <1>1 DEF State
        <3> QED
            BY <1>1, <3>2, <3>3, DeadStay DEF Same, Exists, State
    <2>2. CASE GiveUp(a) \/ RemovalFailed(a)
        <3>1. \/ state'[s] = state[s]
              \/ state'[s] = [Released(state[s]) EXCEPT !.lifecycle = None]
            BY <1>1, <2>2 DEF Typed, GiveUp, RemovalFailed
        <3>2. [Released(state[s]) EXCEPT !.lifecycle = None] \in State
            BY <1>1 DEF State, Released
        <3>3. LET k == [Released(state[s]) EXCEPT !.lifecycle = None]
              IN  k.proc = state[s].proc /\ k.pending = state[s].pending
            BY <1>1 DEF State, Released
        <3> QED
            BY <1>1, <3>1, <3>2, <3>3, DeadStay DEF Same, Exists
    <2>3. CASE RemoveDir(a)
        <3> DEFINE k == [Released(state[s]) EXCEPT !.lifecycle = None, !.lease = FALSE, !.cleaned = TRUE]
        <3>1. state'[s] = state[s] \/ state'[s] = k
            BY <1>1, <2>3 DEF Typed, RemoveDir
        <3>2. k \in State /\ k.proc = state[s].proc /\ k.pending = state[s].pending
            BY <1>1 DEF State, Released
        <3> HIDE DEF k
        <3> QED
            BY <1>1, <3>1, <3>2, DeadStay DEF Same, Exists
    <2>4. CASE Unreserve(a)
        BY <1>2, <2>4 DEF Unreserve
    <2> QED
        BY <1>6, <2>1, <2>2, <2>3, <2>4 DEF Finalize
<1> QED
    BY <1>3, <1>4, <1>5, <1>6

(* A session that isDead called dead stays so: no start and no software fallback comes after that answer. *)
THEOREM DeathIsFinal == Spec => DeadIsFinal
<1> DEFINE Final == \A s \in Sessions : Dead(s) => Dead(s)'
<1>1. ASSUME Agrees, [Next]_vars, NEW s \in Sessions, Dead(s) PROVE Dead(s)'
    <2>1. CASE UNCHANGED vars
        BY <1>1, <2>1 DEF vars, Dead, Exited, Exists
    <2>2. CASE Next
        BY <1>1, <2>2, CallerKeepsDead, OthersKeepDead DEF Next
    <2> QED
        BY <1>1, <2>1, <2>2
<1>2. Agrees /\ [Next]_vars => Final
    BY <1>1
<1> QED
    BY <1>2, AgreesAlways, PTL DEF Spec, DeadIsFinal

-----------------------------------------------------------------------------
(* Slots, where no session goes unused so long that the reaper drops it.   *)

(* There is an ffmpeg for the session, or its start or its software fallback may still come to one. *)
CanRun(s) ==
    /\ Exists(s)
    /\ \/ state[s].proc = "running"
       \/ ~state[s].killed /\ \/ state[s].watch # "none"
                              \/ \E c \in Callers : own[c] = s /\ pc[c] # "cleanup"

(* Nobody gave the session up: its slot has to be held. *)
Holds(s) ==
    \/ CanRun(s)
    \/ ~RemovalFails /\ Exists(s) /\ state[s].lease /\ \A c \in Callers : own[c] = s => pc[c] # "cleanup"

Able == {s \in Sessions : CanRun(s)}

(* An open manager keeps in its map whatever holds a slot; a closed one starts nothing more. *)
Slots ==
    /\ \A s \in Sessions : Exists(s) => ~state[s].stale
    /\ ~closed => /\ IsFiniteSet(Live) /\ Cardinality(Live) <= MaxSessions
                  /\ \A s \in Sessions : Holds(s) => Mapped(s)
    /\ closed => IsFiniteSet(Able) /\ Cardinality(Able) <= MaxSessions

(* finalize gives a name up only after kill cleaned up after the session. *)
CleanedUp(a) == killing[a] # None /\ state[killing[a]].lifecycle # a => ~state[killing[a]].lease

SlotsAgree == (\A a \in Actors : CleanedUp(a)) /\ (~Idles => Slots)

LEMMA LiveGrows ==
    ASSUME IsFiniteSet(Live), NEW n
    PROVE  /\ Cardinality(Live) \in Nat /\ IsFiniteSet(Live \cup {n})
           /\ Cardinality(Live \cup {n}) <= Cardinality(Live) + 1
<1>1. Cardinality(Live) \in Nat
    BY FS_CardinalityType
<1>2. /\ IsFiniteSet(Live \cup {n})
      /\ Cardinality(Live \cup {n}) = IF n \in Live THEN Cardinality(Live) ELSE Cardinality(Live) + 1
    BY FS_AddElement
<1> QED
    BY <1>1, <1>2

(* Every session that can run has a slot of its own. *)
LEMMA AbleIsBounded ==
    ASSUME Agrees, Slots
    PROVE  IsFiniteSet(Able) /\ Cardinality(Able) <= MaxSessions
<1>1. CASE closed
    BY <1>1 DEF Slots
<1>2. CASE ~closed
    <2>1. IsFiniteSet(Live) /\ Cardinality(Live) <= MaxSessions
        BY <1>2 DEF Slots
    <2>2. ASSUME NEW s \in Able PROVE s \in Sessions /\ Exists(s) /\ state[s].name \in Live /\ sessions[state[s].name] = s
        <3>1. s \in Sessions /\ Mapped(s) /\ Exists(s)
            BY <1>2, <2>2 DEF Slots, Able, Holds, CanRun
        <3>2. state[s].name \in Names
            BY <3>1 DEF Agrees, Typed, Exists, State
        <3> QED
            BY <3>1, <3>2 DEF Mapped, Live, Agrees, Typed
    <2> DEFINE named == [s \in Able |-> state[s].name]
    <2>3. named \in Injection(Able, Live)
        BY <2>2 DEF Injection, IsInjective
    <2> HIDE DEF named
    <2>4. IsFiniteSet(Able) /\ Cardinality(Able) <= Cardinality(Live)
        BY <2>1, <2>3, FS_Injection
    <2> QED
        BY <2>1, <2>4, FS_CardinalityType
<1> QED
    BY <1>1, <1>2

(* Every step but an admission only gives up. *)
LEMMA SlotStep ==
    ASSUME Agrees, Slots, closed' \in BOOLEAN, closed => closed',
           \A n \in Names : sessions'[n] \in {sessions[n], None},
           \A s \in Sessions : Exists(s)' => Exists(s) /\ (state'[s].stale => state[s].stale),
           \A s \in Sessions : CanRun(s)' => CanRun(s),
           ~closed' => \A s \in Sessions : Holds(s)' => Holds(s) /\ (Mapped(s) => Mapped(s)')
    PROVE  Slots'
<1>1. \A s \in Sessions : Exists(s)' => ~state'[s].stale
    BY DEF Slots
<1>2. ASSUME ~closed' PROVE IsFiniteSet(Live)' /\ (Cardinality(Live) <= MaxSessions)'
    <2>1. IsFiniteSet(Live) /\ Cardinality(Live) <= MaxSessions /\ Live' \in SUBSET Live
        BY <1>2 DEF Slots, Live
    <2>2. IsFiniteSet(Live') /\ Cardinality(Live') <= Cardinality(Live)
        BY <2>1, FS_Subset
    <2>3. Cardinality(Live) \in Nat /\ Cardinality(Live') \in Nat
        BY <2>1, <2>2, FS_CardinalityType
    <2> QED
        BY <2>1, <2>2, <2>3
<1>3. ASSUME ~closed' PROVE \A s \in Sessions : Holds(s)' => Mapped(s)'
    BY <1>3 DEF Slots
<1>4. IsFiniteSet(Able') /\ Cardinality(Able') <= MaxSessions
    <2>1. IsFiniteSet(Able) /\ Cardinality(Able) <= MaxSessions /\ Able' \in SUBSET Able
        BY AbleIsBounded DEF Able
    <2>2. IsFiniteSet(Able') /\ Cardinality(Able') <= Cardinality(Able)
        BY <2>1, FS_Subset
    <2>3. Cardinality(Able) \in Nat /\ Cardinality(Able') \in Nat
        BY <2>1, <2>2, FS_CardinalityType
    <2> QED
        BY <2>1, <2>2, <2>3
<1> QED
    BY <1>1, <1>2, <1>3, <1>4 DEF Slots

(* A step that leaves the map and the phase of every start alone, and changes one session or none. *)
Abides(s) ==
    /\ Exists(s)' <=> Exists(s)
    /\ Exists(s) => /\ state'[s].name = state[s].name
                    /\ state'[s].stale => state[s].stale
                    /\ state'[s].lease => state[s].lease
                    /\ state[s].killed => state'[s].killed
                    /\ state'[s].proc = "running" => CanRun(s)
                    /\ state'[s].watch # "none" => state[s].watch # "none"

LEMMA AbidingStep ==
    ASSUME Agrees, ~Idles => Slots, closed' \in BOOLEAN, closed => closed', own' = own,
           \A c \in Callers : own[c] # None => (pc'[c] = "cleanup" <=> pc[c] = "cleanup"),
           \A n \in Names : sessions'[n] \in {sessions[n], None}, ~Idles /\ ~closed' => sessions' = sessions,
           ~Idles => \A s \in Sessions : Abides(s)
    PROVE  ~Idles => Slots'
<1> SUFFICES ASSUME ~Idles PROVE Slots'
    OBVIOUS
<1>1. ASSUME NEW s \in Sessions PROVE CanRun(s)' => CanRun(s)
    BY DEF CanRun, Abides, Exists
<1>2. ASSUME NEW s \in Sessions PROVE Holds(s)' => Holds(s)
    BY <1>1 DEF Holds, Abides, Exists
<1>3. ASSUME NEW s \in Sessions, ~closed', Holds(s)', Mapped(s) PROVE Mapped(s)'
    BY <1>3 DEF Mapped, Abides, Exists
<1>4. \A s \in Sessions : Exists(s)' => Exists(s) /\ (state'[s].stale => state[s].stale)
    BY DEF Abides
<1> QED
    BY <1>1, <1>2, <1>3, <1>4, SlotStep

(* Nothing is ever expired, and the map stays as it is. *)
LEMMA NothingExpires ==
    ASSUME Agrees, Slots
    PROVE  Expired = {} /\ Without(Expired) = sessions
<1>1. Expired = {}
    BY DEF Expired, Slots, Mapped
<1>2. Without({}) = sessions
    BY DEF Without, Agrees, Typed
<1> QED
    BY <1>1, <1>2

(* Marking: no lifecycle lock, lease or process changes. *)
LEMMA MarkKeepsSlots ==
    ASSUME Agrees, SlotsAgree, own' = own, killing' = killing, closed' \in BOOLEAN, closed => closed',
           \A s \in Sessions : Marks(s),
           ~Idles => \A s \in Sessions : state'[s] # None /\ state'[s].stale => state[s].stale,
           \A n \in Names : sessions'[n] \in {sessions[n], None}, ~Idles /\ ~closed' => sessions' = sessions,
           \A c \in Callers : Asking(c) \/ pc'[c] = pc[c]
    PROVE  SlotsAgree'
<1>1. ASSUME NEW a \in Actors PROVE CleanedUp(a)'
    <2>1. CleanedUp(a) /\ killing[a] \in Sessions \cup {None} /\ (killing[a] # None => state[killing[a]] # None)
        BY DEF SlotsAgree, Agrees, Typed, ActorAgrees, Exists
    <2>2. killing[a] # None => Alike(state'[killing[a]], state[killing[a]])
        BY <2>1 DEF Marks
    <2> QED
        BY <2>1, <2>2 DEF CleanedUp, Alike
<1>2. ASSUME ~Idles, NEW s \in Sessions PROVE Abides(s)
    BY <1>2 DEF Abides, Marks, Alike, Exists, CanRun
<1>3. ASSUME NEW c \in Callers, own[c] # None PROVE pc'[c] = pc[c]
    BY <1>3 DEF Agrees, CallerAgrees, Asking
<1> QED
    BY <1>1, <1>2, <1>3, AbidingStep DEF SlotsAgree

LEMMA ClosingFresh ==
    ASSUME Typed, NEW gone \in SUBSET Sessions, \A s \in gone : Exists(s), NEW s \in Sessions
    PROVE  Closing(gone)[s] # None /\ Closing(gone)[s].stale => state[s].stale
<1>1. CASE s \in gone
    <2>1. state[s] \in State /\ Closing(gone)[s] = [state[s] EXCEPT !.closing = TRUE]
        BY <1>1 DEF Typed, Exists, Closing
    <2> QED
        BY <2>1 DEF State
<1>2. CASE s \notin gone
    BY <1>2 DEF Closing
<1> QED
    BY <1>1, <1>2

LEMMA AskingKeepsSlots ==
    ASSUME Agrees, SlotsAgree, NEW c \in Callers, NEW r \in Requests,
           Refuse(c, r) \/ Reuse(c, r) \/ Replace(c, r) \/ Exhausted(c, r)
    PROVE  SlotsAgree'
<1>1. Typed /\ c \in Actors /\ pc[c] \notin Starting
    BY AsksIsIdle DEF Agrees, Refuse, Reuse, Replace, Exhausted
<1>2. Expired \in SUBSET Sessions /\ \A x \in Expired : Exists(x)
    BY DEF Expired, Mapped
<1>3. sessions[r.name] \in Sessions \cup {None} /\ (sessions[r.name] # None => Exists(sessions[r.name]))
    BY <1>1 DEF Agrees, MapAgrees, Typed, Requests
<1>4. CASE Refuse(c, r)
    <2>1. Answer(c) /\ UNCHANGED <<sessions, closed, state, dirs, todo, killing>>
        BY <1>4 DEF Refuse, workVars
    <2>2. \A s \in Sessions : Marks(s)
        BY <1>1, <2>1 DEF Marks, Alike, Typed
    <2> QED
        BY <1>1, <2>1, <2>2, AnswerAsks, MarkKeepsSlots DEF Typed
<1>5. CASE Reuse(c, r)
    <2> DEFINE s == sessions[r.name]
    <2>1. Answer(c) /\ UNCHANGED <<sessions, closed, dirs, todo, killing>> /\ s # None /\ state' = [state EXCEPT ![s].stale = FALSE]
        BY <1>5 DEF Reuse, workVars
    <2>2. state[s] \in State /\ s \in Sessions
        BY <1>1, <1>3, <2>1 DEF Typed, Exists
    <2> DEFINE k == [state[s] EXCEPT !.stale = FALSE]
    <2>3. k \in State /\ Alike(k, state[s]) /\ ~k.stale
        BY <2>2 DEF State, Alike
    <2>4. state' = [state EXCEPT ![s] = k]
        BY <1>1, <2>1, <2>2 DEF Typed
    <2> HIDE DEF k, s
    <2>5. \A x \in Sessions : Marks(x) /\ (state'[x] # None /\ state'[x].stale => state[x].stale)
        BY <1>1, <2>2, <2>3, <2>4 DEF Typed, Marks, Alike
    <2> QED
        BY <1>1, <2>1, <2>5, AnswerAsks, MarkKeepsSlots DEF Typed
<1>6. ASSUME NEW gone \in SUBSET Sessions, \A x \in gone : Exists(x), state' = Closing(gone),
             sessions' \in {sessions, Without(Expired)}, UNCHANGED <<closed, dirs, own, killing>>,
             NEW phase \in {"idle", "admit", "return"}, pc' = [pc EXCEPT ![c] = phase],
             NEW asked \in {r, None}, request' = [request EXCEPT ![c] = asked], asked # None <=> phase = "admit"
      PROVE  SlotsAgree'
    <2>1. \A s \in Sessions : Marks(s) /\ (state'[s] # None /\ state'[s].stale => state[s].stale)
        BY <1>1, <1>6, ClosingMarks, ClosingFresh DEF Marks
    <2>2. \A n \in Names : sessions'[n] \in {sessions[n], None}
        BY <1>1, <1>6, WithoutShrinks DEF Typed
    <2>3. ~Idles => sessions' = sessions
        BY <1>6, NothingExpires DEF SlotsAgree
    <2>4. \A d \in Callers : Asking(d) \/ pc'[d] = pc[d]
        BY <1>1, <1>6 DEF Typed, Asking
    <2> QED
        BY <1>1, <1>6, <2>1, <2>2, <2>3, <2>4, MarkKeepsSlots DEF Typed
<1>7. CASE Replace(c, r)
    <2> DEFINE gone == {sessions[r.name]}
    <2>1. gone \in SUBSET Sessions /\ (\A x \in gone : Exists(x))
        BY <1>3, <1>7 DEF Replace
    <2>2. /\ state' = Closing(gone) /\ sessions' = sessions /\ UNCHANGED <<closed, dirs, own, killing>>
          /\ pc' = [pc EXCEPT ![c] = "admit"] /\ request' = [request EXCEPT ![c] = r] /\ r # None
        BY <1>7 DEF Replace, Go
    <2> HIDE DEF gone
    <2> QED
        BY <1>6, <2>1, <2>2
<1>8. CASE Exhausted(c, r)
    <2> DEFINE phase == IF Expired = {} THEN "idle" ELSE "return"
    <2>1. /\ state' = Closing(Expired) /\ sessions' = Without(Expired) /\ UNCHANGED <<closed, dirs, own, killing>>
          /\ pc' = [pc EXCEPT ![c] = phase] /\ request' = [request EXCEPT ![c] = None]
        BY <1>8 DEF Exhausted, Go
    <2>2. phase \in {"idle", "return"}
        OBVIOUS
    <2> HIDE DEF phase
    <2> QED
        BY <1>2, <1>6, <2>1, <2>2
<1> QED
    BY <1>4, <1>5, <1>7, <1>8

LEMMA AdmitKeepsSlots ==
    ASSUME Agrees, SlotsAgree, NEW c \in Callers, NEW r \in Requests, Admit(c, r)
    PROVE  SlotsAgree'
<1>1. PICK s \in Sessions : /\ ~Exists(s)
                           /\ sessions' = [Without(Expired) EXCEPT ![r.name] = s]
                           /\ state' = [Closing(Expired) EXCEPT ![s] = NewSession(r)]
                           /\ own' = [own EXCEPT ![c] = s]
    BY DEF Admit
<1>2. /\ sessions[r.name] = None /\ ~closed /\ Cardinality(Live) - Cardinality(Expired) < MaxSessions
      /\ pc' = [pc EXCEPT ![c] = "open"] /\ UNCHANGED <<closed, killing>> /\ pc[c] \notin Starting
    BY AsksIsIdle DEF Admit, Go
<1>3. Typed /\ c \in Actors /\ own[c] = None /\ r.name \in Names /\ s # None
    BY <1>2 DEF Agrees, CallerAgrees, Requests
<1> DEFINE k == NewSession(r)
<1>4. k.name = r.name /\ ~k.stale /\ k # None
    <2>1. k \in State
        BY <1>3 DEF NewSession, State, Requests, ProcessStates
    <2> QED
        BY <2>1 DEF NewSession
<1> HIDE DEF k
<1>5. Expired \in SUBSET Sessions /\ \A x \in Expired : Exists(x)
    BY DEF Expired, Mapped
<1>6. state'[s] = k /\ \A x \in Sessions : x # s => state'[x] = Closing(Expired)[x]
    BY <1>1, <1>3, <1>5, ClosingMarks DEF k
<1>7. ASSUME NEW a \in Actors PROVE CleanedUp(a)'
    <2>1. CleanedUp(a) /\ killing[a] \in Sessions \cup {None} /\ (killing[a] # None => Exists(killing[a]))
        BY <1>3 DEF SlotsAgree, Agrees, Typed, ActorAgrees
    <2>2. killing[a] # None => Alike(state'[killing[a]], state[killing[a]])
        BY <1>1, <1>3, <1>5, <1>6, <2>1, ClosingMarks DEF Exists
    <2> QED
        BY <1>2, <2>1, <2>2 DEF CleanedUp, Alike
<1>8. ASSUME ~Idles PROVE Slots'
    <2>1. Slots /\ Expired = {} /\ Without(Expired) = sessions
        BY <1>8, NothingExpires DEF SlotsAgree
    <2>2. sessions' = [sessions EXCEPT ![r.name] = s] /\ \A x \in Sessions : x # s => state'[x] = state[x]
        BY <1>1, <1>6, <2>1 DEF Closing
    <2>3. \A x \in Sessions : Exists(x)' => ~state'[x].stale
        BY <1>4, <1>6, <2>1, <2>2 DEF Exists, Slots
    <2>4. IsFiniteSet(Live') /\ Cardinality(Live') <= MaxSessions
        <3>1. IsFiniteSet(Live) /\ Cardinality(Live) < MaxSessions
            <4>1. IsFiniteSet(Live) /\ Cardinality(Live) \in Nat
                BY <1>2, <2>1, FS_CardinalityType DEF Slots
            <4>2. Cardinality(Expired) = 0
                BY <2>1, FS_EmptySet
            <4> QED
                BY <1>2, <4>1, <4>2
        <3>2. Live' = Live \cup {r.name}
            BY <1>3, <2>2 DEF Live, Typed
        <3>3. /\ Cardinality(Live) \in Nat /\ IsFiniteSet(Live \cup {r.name})
              /\ Cardinality(Live \cup {r.name}) <= Cardinality(Live) + 1
            BY <3>1, LiveGrows
        <3>4. Cardinality(Live \cup {r.name}) \in Nat
            BY <3>3, FS_CardinalityType
        <3> QED
            BY <3>1, <3>2, <3>3, <3>4
    <2>5. ASSUME NEW x \in Sessions, Holds(x)' PROVE Mapped(x)'
        <3>1. CASE x = s
            BY <1>3, <1>4, <1>6, <2>2, <3>1 DEF Mapped, Exists, Typed
        <3>2. CASE x # s
            <4>1. state'[x] = state[x] /\ \A d \in Callers : own'[d] = x <=> own[d] = x
                BY <1>1, <1>3, <2>2, <3>2 DEF Typed
            <4>2. \A d \in Callers : d # c => pc'[d] = pc[d]
                BY <1>2, <1>3 DEF Typed
            <4>3. own[c] # x
                BY <1>3, <2>5, <4>1 DEF Holds, CanRun, Exists
            <4>4. Holds(x)
                BY <2>5, <4>1, <4>2, <4>3 DEF Holds, CanRun, Exists
            <4>5. Mapped(x)
                BY <1>2, <2>1, <4>4 DEF Slots
            <4> QED
                BY <1>2, <2>2, <4>1, <4>5 DEF Mapped, Exists, Agrees, Typed
        <3> QED
            BY <3>1, <3>2
    <2> QED
        BY <1>2, <2>3, <2>4, <2>5 DEF Slots
<1> QED
    BY <1>7, <1>8 DEF SlotsAgree

(* A caller goes on with its start, fails and cleans up, or is done with it. *)
LEMMA StartKeepsSlots ==
    ASSUME Agrees, SlotsAgree, NEW c \in Callers, pc[c] \in Starting,
           NEW k \in State, state' = [state EXCEPT ![own[c]] = k],
           k.name = state[own[c]].name, k.killed = state[own[c]].killed, k.lifecycle = state[own[c]].lifecycle,
           k.stale = state[own[c]].stale, k.lease => state[own[c]].lease,
           \A n \in Names : sessions'[n] = sessions[n] \/ (sessions'[n] = None /\ sessions[n] = own[c]),
           UNCHANGED <<closed, killing>>,
           NEW phase, pc' = [pc EXCEPT ![c] = phase],
           \/ /\ own' = own /\ k.proc = "none" /\ k.watch = "none"
              /\ phase = "cleanup" \/ (sessions' = sessions /\ pc[c] # "cleanup")
           \/ /\ own' = [own EXCEPT ![c] = None] /\ k.proc = "none" /\ k.watch = "none" /\ (~k.lease \/ RemovalFails)
           \/ /\ own' = [own EXCEPT ![c] = None] /\ sessions' = sessions /\ pc[c] # "cleanup" /\ ~k.killed
    PROVE  SlotsAgree'
<1>0. Typed /\ CallerAgrees(c) /\ k # None /\ c \in Actors
    BY DEF Agrees
<1>1. PICK s \in Sessions : s = own[c] /\ Exists(s)
    BY <1>0 DEF Typed, CallerAgrees
<1>2. \A d \in Callers : d # c => own[d] # s /\ own'[d] = own[d] /\ pc'[d] = pc[d]
    BY <1>0, <1>1 DEF CallerAgrees, Typed, Exists
<1>3. own'[c] \in {s, None} /\ pc'[c] = phase /\ (own' = own => own'[c] = s) /\ s # None
    BY <1>0, <1>1 DEF Typed, Exists
<1>4. state'[s] = k /\ \A r \in Sessions : r # s => state'[r] = state[r]
    BY <1>0, <1>1 DEF Typed
<1>5. /\ k.name = state[s].name /\ k.killed = state[s].killed /\ k.lifecycle = state[s].lifecycle
      /\ k.stale = state[s].stale /\ (k.lease => state[s].lease)
    BY <1>1
<1>6. \/ /\ own' = own /\ k.proc = "none" /\ k.watch = "none"
         /\ phase = "cleanup" \/ (sessions' = sessions /\ pc[c] # "cleanup")
      \/ /\ own'[c] = None /\ k.proc = "none" /\ k.watch = "none" /\ (~k.lease \/ RemovalFails)
      \/ /\ own'[c] = None /\ sessions' = sessions /\ pc[c] # "cleanup" /\ ~k.killed
    BY <1>0 DEF Typed
<1>7. \A n \in Names : sessions'[n] = sessions[n] \/ (sessions'[n] = None /\ sessions[n] = s)
    BY <1>1
<1>8. ASSUME NEW a \in Actors PROVE CleanedUp(a)'
    <2>1. CleanedUp(a) /\ killing[a] \in Sessions \cup {None}
        BY <1>0 DEF SlotsAgree, Typed
    <2> QED
        BY <1>4, <1>5, <2>1 DEF CleanedUp
<1>9. ASSUME NEW r \in Sessions, r # s PROVE (Holds(r)' <=> Holds(r)) /\ (CanRun(r)' <=> CanRun(r))
    <2>1. state'[r] = state[r] /\ \A d \in Callers : own'[d] = r <=> own[d] = r
        BY <1>1, <1>2, <1>3, <1>4, <1>9 DEF Exists
    <2>2. \A d \in Callers : own[d] = r => pc'[d] = pc[d]
        BY <1>1, <1>2, <1>9
    <2> QED
        BY <2>1, <2>2 DEF Holds, CanRun, Exists
<1>10. CanRun(s)' => CanRun(s)
    <2>1. CASE own' = own /\ k.proc = "none" /\ k.watch = "none"
        <3>1. (\E d \in Callers : own'[d] = s /\ pc'[d] # "cleanup") => phase # "cleanup"
            BY <1>2, <1>3
        <3>2. (\E d \in Callers : own'[d] = s /\ pc'[d] # "cleanup") => pc[c] # "cleanup"
            BY <1>6, <2>1, <3>1, <1>3
        <3> QED
            BY <1>1, <1>4, <1>5, <2>1, <3>2 DEF CanRun, Exists
    <2>2. CASE own'[c] = None /\ k.proc = "none" /\ k.watch = "none"
        BY <1>2, <1>3, <1>4, <2>2 DEF CanRun, Exists
    <2>3. CASE pc[c] # "cleanup" /\ ~k.killed
        BY <1>1, <1>5, <2>3 DEF CanRun
    <2> QED
        BY <1>6, <2>1, <2>2, <2>3
<1>11. Holds(s)' => Holds(s) /\ sessions' = sessions
    <2>1. CASE own' = own /\ k.proc = "none" /\ k.watch = "none"
        <3>1. Holds(s)' => phase # "cleanup"
            BY <1>2, <1>3, <1>4, <2>1 DEF Holds, CanRun, Exists
        <3>2. pc[c] # "cleanup" => (\A d \in Callers : own[d] = s => pc[d] # "cleanup")
            BY <1>2
        <3> QED
            BY <1>1, <1>3, <1>4, <1>5, <1>6, <1>10, <2>1, <3>1, <3>2 DEF Holds, Exists
    <2>2. CASE own'[c] = None /\ k.proc = "none" /\ k.watch = "none" /\ (~k.lease \/ RemovalFails)
        BY <1>2, <1>3, <1>4, <2>2 DEF Holds, CanRun, Exists
    <2>3. CASE pc[c] # "cleanup" /\ ~k.killed /\ sessions' = sessions
        BY <1>1, <1>5, <2>3 DEF Holds, CanRun
    <2> QED
        BY <1>6, <2>1, <2>2, <2>3
<1>12. ASSUME ~Idles PROVE Slots'
    <2>1. ASSUME NEW r \in Sessions, Holds(r)' PROVE Holds(r) /\ (Mapped(r) => Mapped(r)')
        <3>1. CASE r = s
            BY <1>1, <1>4, <1>5, <1>11, <2>1, <3>1 DEF Mapped, Exists
        <3>2. CASE r # s
            <4>1. Holds(r) /\ state'[r] = state[r]
                BY <1>4, <1>9, <2>1, <3>2
            <4>2. Mapped(r) => state[r].name \in Names /\ sessions'[state[r].name] = r
                BY <1>0, <1>7, <3>2 DEF Mapped, Exists, Typed, State
            <4> QED
                BY <4>1, <4>2 DEF Mapped, Exists
        <3> QED
            BY <3>1, <3>2
    <2>2. \A r \in Sessions : Exists(r)' => Exists(r) /\ (state'[r].stale => state[r].stale)
        BY <1>1, <1>4, <1>5 DEF Exists
    <2>3. \A r \in Sessions : CanRun(r)' => CanRun(r)
        BY <1>9, <1>10
    <2>4. \A n \in Names : sessions'[n] \in {sessions[n], None}
        BY <1>7
    <2>5. Slots /\ closed' = closed /\ closed' \in BOOLEAN
        BY <1>0, <1>12 DEF SlotsAgree, Typed
    <2> QED
        BY <2>1, <2>2, <2>3, <2>4, <2>5, SlotStep
<1> QED
    BY <1>8, <1>12 DEF SlotsAgree

LEMMA UnmapTakes ==
    ASSUME Typed, NEW s \in Sessions, Unmap(s)
    PROVE  \A n \in Names : sessions'[n] = sessions[n] \/ (sessions'[n] = None /\ sessions[n] = s)
    BY DEF Unmap, Without, Typed

LEMMA StartingKeepsSlots ==
    ASSUME Agrees, SlotsAgree, NEW c \in Callers,
           OpenSource(c) \/ MakeDir(c) \/ FailEarly(c) \/ Start(c) \/ FailStart(c) \/ CleanUp(c)
    PROVE  SlotsAgree'
<1> DEFINE s == own[c]
<1>1. Typed /\ c \in Actors /\ pc[c] \in Starting /\ own[c] # None
    BY DEF Agrees, CallerAgrees, OpenSource, MakeDir, FailEarly, Start, FailStart, CleanUp, Starting
<1>2. s \in Sessions /\ state[s] \in State /\ state[s].proc = "none" /\ state[s].watch = "none" /\ Exists(s)
    BY <1>1 DEF Agrees, CallerAgrees, Typed, Exists
<1>3. Released(state[s]) \in State /\ Released(state[s]).name = state[s].name
      /\ Released(state[s]).killed = state[s].killed /\ Released(state[s]).lifecycle = state[s].lifecycle
      /\ Released(state[s]).stale = state[s].stale /\ Released(state[s]).lease = state[s].lease
      /\ Released(state[s]).proc = "none" /\ Released(state[s]).watch = "none"
    BY <1>2 DEF Released, State
<1>4. sessions' = sessions => \A n \in Names : sessions'[n] = sessions[n] \/ (sessions'[n] = None /\ sessions[n] = s)
    OBVIOUS
<1>5. CASE OpenSource(c)
    <2> DEFINE k == [state[s] EXCEPT !.input = "open"]
    <2>1. /\ pc[c] = "open" /\ state' = [state EXCEPT ![s] = k] /\ pc' = [pc EXCEPT ![c] = "mkdir"]
          /\ UNCHANGED <<sessions, closed, own, killing>>
        BY <1>1, <1>2, <1>5 DEF OpenSource, Go, Typed, workVars
    <2>2. k \in State /\ k.name = state[s].name /\ k.killed = state[s].killed /\ k.lifecycle = state[s].lifecycle
          /\ k.stale = state[s].stale /\ k.lease = state[s].lease /\ k.proc = "none" /\ k.watch = "none"
        BY <1>2 DEF State
    <2> HIDE DEF k
    <2> QED
        BY <1>1, <1>4, <2>1, <2>2, StartKeepsSlots
<1>6. CASE MakeDir(c)
    <2>1. /\ pc[c] = "mkdir" /\ state' = [state EXCEPT ![s] = state[s]] /\ pc' = [pc EXCEPT ![c] = "start"]
          /\ UNCHANGED <<sessions, closed, own, killing>>
        BY <1>1, <1>2, <1>6 DEF MakeDir, Go, Typed, workVars
    <2> QED
        BY <1>1, <1>2, <1>4, <2>1, StartKeepsSlots
<1>7. CASE FailEarly(c)
    <2> DEFINE k == [Released(state[s]) EXCEPT !.lease = FALSE]
    <2>1. /\ state' = [state EXCEPT ![s] = k] /\ own' = [own EXCEPT ![c] = None] /\ Unmap(s)
          /\ pc' = [pc EXCEPT ![c] = "idle"] /\ UNCHANGED <<closed, killing>>
        BY <1>1, <1>2, <1>7 DEF FailEarly, Typed, Answer, Go, workVars
    <2>2. k \in State /\ k.name = state[s].name /\ k.killed = state[s].killed /\ k.lifecycle = state[s].lifecycle
          /\ k.stale = state[s].stale /\ ~k.lease /\ k.proc = "none" /\ k.watch = "none"
        BY <1>3 DEF State
    <2> HIDE DEF k
    <2>3. \A n \in Names : sessions'[n] = sessions[n] \/ (sessions'[n] = None /\ sessions[n] = s)
        BY <1>1, <1>2, <2>1, UnmapTakes
    <2> QED
        BY <1>1, <2>1, <2>2, <2>3, StartKeepsSlots
<1>8. CASE Start(c)
    <2> DEFINE k == [state[s] EXCEPT !.proc = "running", !.pending = Accelerated,
                                     !.watch = IF Accelerated THEN "waiting" ELSE "none"]
    <2>1. /\ pc[c] = "start" /\ state' = [state EXCEPT ![s] = k] /\ own' = [own EXCEPT ![c] = None] /\ ~state[s].killed
          /\ pc' = [pc EXCEPT ![c] = "idle"] /\ UNCHANGED <<sessions, closed, killing>>
        BY <1>8 DEF Start, Launchable, Answer, Go, workVars
    <2>2. k \in State /\ k.name = state[s].name /\ k.killed = state[s].killed /\ k.lifecycle = state[s].lifecycle
          /\ k.stale = state[s].stale /\ k.lease = state[s].lease
        BY <1>2 DEF State, ProcessStates
    <2> HIDE DEF k
    <2> QED
        BY <1>1, <1>4, <2>1, <2>2, StartKeepsSlots
<1>9. CASE FailStart(c)
    <2>1. /\ pc[c] = "start" /\ state' = [state EXCEPT ![s] = Released(state[s])] /\ pc' = [pc EXCEPT ![c] = "cleanup"]
          /\ Unmap(s) /\ UNCHANGED <<closed, own, killing>>
        BY <1>1, <1>2, <1>9 DEF FailStart, Go, Typed, workVars
    <2>2. \A n \in Names : sessions'[n] = sessions[n] \/ (sessions'[n] = None /\ sessions[n] = s)
        BY <1>1, <1>2, <2>1, UnmapTakes
    <2> QED
        BY <1>1, <1>3, <2>1, <2>2, StartKeepsSlots
<1>10. CASE CleanUp(c)
    <2>1. /\ own' = [own EXCEPT ![c] = None] /\ pc' = [pc EXCEPT ![c] = "idle"] /\ UNCHANGED <<sessions, closed, killing>>
        BY <1>10 DEF CleanUp, Answer, Go, workVars
    <2> DEFINE k == [state[s] EXCEPT !.lease = FALSE]
    <2>2. k \in State /\ k.name = state[s].name /\ k.killed = state[s].killed /\ k.lifecycle = state[s].lifecycle
          /\ k.stale = state[s].stale /\ ~k.lease /\ k.proc = "none" /\ k.watch = "none"
        BY <1>2 DEF State
    <2>3. CASE state' = [state EXCEPT ![s].lease = FALSE]
        <3>1. state' = [state EXCEPT ![s] = k]
            BY <1>1, <2>3 DEF Typed
        <3> HIDE DEF k
        <3> QED
            BY <1>1, <1>4, <2>1, <2>2, <3>1, StartKeepsSlots
    <2>4. CASE RemovalFails /\ UNCHANGED state
        <3>1. state' = [state EXCEPT ![s] = state[s]]
            BY <1>1, <2>4 DEF Typed
        <3> QED
            BY <1>1, <1>2, <1>4, <2>1, <2>4, <3>1, StartKeepsSlots
    <2> QED
        BY <1>10, <2>3, <2>4 DEF CleanUp
<1> QED
    BY <1>5, <1>6, <1>7, <1>8, <1>9, <1>10

LEMMA CallerKeepsSlots ==
    ASSUME Agrees, SlotsAgree, NEW c \in Callers, GetNext(c) \/ \E n \in Names : Close(c, n)
    PROVE  SlotsAgree'
<1>1. CASE Return(c)
    <2>1. /\ Typed /\ pc[c] \notin Starting /\ Answer(c) /\ UNCHANGED <<sessions, closed, state, dirs, todo, killing>>
          /\ \A s \in Sessions : Marks(s)
        BY <1>1 DEF Return, Starting, workVars, Marks, Alike, Agrees, Typed
    <2> QED
        BY <2>1, AnswerAsks, MarkKeepsSlots DEF Typed
<1>2. ASSUME NEW n \in Names, Close(c, n) PROVE SlotsAgree'
    <2> DEFINE gone == {sessions[n]}
    <2>1. /\ Typed /\ c \in Actors /\ pc[c] = "idle" /\ sessions[n] # None /\ state' = Closing(gone)
          /\ pc' = [pc EXCEPT ![c] = "return"] /\ UNCHANGED <<sessions, closed, dirs, request, own, killing>>
        BY <1>2 DEF Close, Agrees, Go
    <2>2. gone \in SUBSET Sessions /\ \A x \in gone : Exists(x)
        BY <2>1 DEF Agrees, MapAgrees, Typed
    <2> HIDE DEF gone
    <2>3. request[c] = None /\ pc[c] \notin Starting
        BY <2>1 DEF Agrees, CallerAgrees, Starting
    <2>4. \A s \in Sessions : Marks(s) /\ (state'[s] # None /\ state'[s].stale => state[s].stale)
        BY <2>1, <2>2, ClosingMarks, ClosingFresh DEF Marks
    <2>5. \A d \in Callers : Asking(d) \/ pc'[d] = pc[d]
        BY <2>1, <2>3 DEF Typed, Asking
    <2> QED
        BY <2>1, <2>4, <2>5, MarkKeepsSlots DEF Typed
<1> QED
    BY <1>1, <1>2, AskingKeepsSlots, AdmitKeepsSlots, StartingKeepsSlots DEF GetNext

(* The process or its watcher goes on, or kill does; the map stays. *)
LEMMA SessionChangeKeepsSlots ==
    ASSUME Agrees, SlotsAgree, NEW s \in Sessions, Exists(s), NEW k \in State, state' = [state EXCEPT ![s] = k],
           UNCHANGED <<sessions, closed, callVars>>,
           k.name = state[s].name, k.stale = state[s].stale, k.lease => state[s].lease, state[s].killed => k.killed,
           k.proc = "running" => CanRun(s), k.watch # "none" => state[s].watch # "none",
           \A a \in Actors : CleanedUp(a)'
    PROVE  SlotsAgree'
<1>1. Typed /\ k # None /\ state'[s] = k /\ \A r \in Sessions : r # s => state'[r] = state[r]
    BY DEF Agrees, Typed
<1>2. ASSUME NEW r \in Sessions PROVE Abides(r)
    <2>1. CASE r = s
        BY <1>1, <2>1 DEF Abides, Exists
    <2>2. CASE r # s
        BY <1>1, <2>2 DEF Abides, Exists, CanRun
    <2> QED
        BY <2>1, <2>2
<1>3. closed' \in BOOLEAN /\ own' = own /\ pc' = pc /\ sessions' = sessions /\ closed' = closed
    BY <1>1 DEF Typed, callVars
<1>4. ~Idles => Slots'
    BY <1>2, <1>3, AbidingStep DEF SlotsAgree
<1> QED
    BY <1>4 DEF SlotsAgree

(* Only kill touches lifecycle locks. *)
LEMMA SameLocks ==
    ASSUME Agrees, SlotsAgree, NEW s \in Sessions, NEW k, state' = [state EXCEPT ![s] = k],
           k.lifecycle = state[s].lifecycle, k.lease => state[s].lease, killing' = killing
    PROVE  \A a \in Actors : CleanedUp(a)'
<1> TAKE a \in Actors
<1>1. Typed /\ CleanedUp(a) /\ killing[a] \in Sessions \cup {None}
    BY DEF Agrees, Typed, SlotsAgree
<1>2. state'[s] = k /\ \A r \in Sessions : r # s => state'[r] = state[r]
    BY <1>1 DEF Typed
<1> QED
    BY <1>1, <1>2 DEF CleanedUp

LEMMA SessionKeepsSlots == ASSUME Agrees, SlotsAgree, NEW s \in Sessions, SessionNext(s) PROVE SlotsAgree'
<1>1. Typed /\ Exists(s) /\ state[s] \in State
    BY DEF Agrees, Typed, Exists, SessionNext, Exit, WatchEnds, WatchFails, Relaunch, RelaunchFails
<1>2. UNCHANGED <<sessions, closed, callVars>> /\ killing' = killing
    BY DEF SessionNext, Exit, WatchEnds, WatchFails, Relaunch, RelaunchFails, workVars
<1>3. ASSUME NEW k \in State, state' = [state EXCEPT ![s] = k], k.lifecycle = state[s].lifecycle,
             k.name = state[s].name, k.stale = state[s].stale, k.lease = state[s].lease, k.killed = state[s].killed,
             k.proc = "running" => CanRun(s), k.watch # "none" => state[s].watch # "none"
      PROVE  SlotsAgree'
    <2>1. \A a \in Actors : CleanedUp(a)'
        BY <1>2, <1>3, SameLocks
    <2> QED
        BY <1>1, <1>2, <1>3, <2>1, SessionChangeKeepsSlots
<1>4. CASE Exit(s)
    <2>1. PICK how \in {"failed", "ended"} : state' = [state EXCEPT ![s].proc = how]
        BY <1>4 DEF Exit
    <2> DEFINE k == [state[s] EXCEPT !.proc = how]
    <2>2. state' = [state EXCEPT ![s] = k]
        BY <1>1, <2>1 DEF Typed
    <2>3. /\ k \in State /\ k.lifecycle = state[s].lifecycle /\ k.name = state[s].name /\ k.stale = state[s].stale
          /\ k.lease = state[s].lease /\ k.killed = state[s].killed /\ k.proc # "running" /\ k.watch = state[s].watch
        BY <1>1 DEF State, ProcessStates
    <2> HIDE DEF k
    <2> QED
        BY <1>3, <2>2, <2>3
<1>5. CASE WatchEnds(s) \/ RelaunchFails(s)
    <2> DEFINE k == [state[s] EXCEPT !.watch = "none", !.pending = FALSE]
    <2>1. state' = [state EXCEPT ![s] = k]
        BY <1>5 DEF WatchEnds, RelaunchFails
    <2>2. /\ k \in State /\ k.lifecycle = state[s].lifecycle /\ k.name = state[s].name /\ k.stale = state[s].stale
          /\ k.lease = state[s].lease /\ k.killed = state[s].killed /\ k.proc = state[s].proc /\ k.watch = "none"
        BY <1>1 DEF State
    <2> HIDE DEF k
    <2>3. k.proc = "running" => CanRun(s)
        BY <1>1, <2>2 DEF CanRun
    <2> QED
        BY <1>3, <2>1, <2>2, <2>3
<1>6. CASE WatchFails(s)
    <2> DEFINE k == [state[s] EXCEPT !.watch = "relaunch"]
    <2>1. state' = [state EXCEPT ![s] = k] /\ state[s].watch = "waiting"
        BY <1>1, <1>6 DEF WatchFails, Typed
    <2>2. /\ k \in State /\ k.lifecycle = state[s].lifecycle /\ k.name = state[s].name /\ k.stale = state[s].stale
          /\ k.lease = state[s].lease /\ k.killed = state[s].killed /\ k.proc = state[s].proc
        BY <1>1 DEF State
    <2> HIDE DEF k
    <2>3. k.proc = "running" => CanRun(s)
        BY <1>1, <2>2 DEF CanRun
    <2> QED
        BY <1>3, <2>1, <2>2, <2>3
<1>7. CASE Relaunch(s)
    <2> DEFINE k == [state[s] EXCEPT !.proc = "running", !.watch = "none", !.pending = FALSE]
    <2>1. state' = [state EXCEPT ![s] = k] /\ CanRun(s)
        BY <1>7 DEF Relaunch, Launchable, CanRun
    <2>2. /\ k \in State /\ k.lifecycle = state[s].lifecycle /\ k.name = state[s].name /\ k.stale = state[s].stale
          /\ k.lease = state[s].lease /\ k.killed = state[s].killed /\ k.watch = "none"
        BY <1>1 DEF State, ProcessStates
    <2> HIDE DEF k
    <2> QED
        BY <1>3, <2>1, <2>2
<1> QED
    BY <1>4, <1>5, <1>6, <1>7 DEF SessionNext

(* Age happens only where sessions may go unused. *)
LEMMA UseKeepsSlots == ASSUME Agrees, SlotsAgree, NEW n \in Names, Touch(n) \/ Age(n) PROVE SlotsAgree'
<1> DEFINE s == sessions[n]
<1>1. Typed /\ s \in Sessions /\ Exists(s) /\ state[s] \in State
    BY DEF Agrees, Typed, MapAgrees, Touch, Age, Exists
<1>2. PICK stale \in BOOLEAN : state' = [state EXCEPT ![s].stale = stale] /\ (stale => Idles)
    BY DEF Touch, Age
<1> DEFINE k == [state[s] EXCEPT !.stale = stale]
<1>3. k \in State /\ Alike(k, state[s]) /\ k.stale = stale /\ state' = [state EXCEPT ![s] = k]
    BY <1>1, <1>2 DEF State, Alike, Typed
<1>4. UNCHANGED <<sessions, closed, pc, own, killing>>
    BY DEF Touch, Age, callVars, workVars
<1> HIDE DEF k, s
<1>5. \A x \in Sessions : Marks(x) /\ (~Idles => (state'[x] # None /\ state'[x].stale => state[x].stale))
    BY <1>1, <1>2, <1>3 DEF Typed, Marks, Alike
<1> QED
    BY <1>1, <1>4, <1>5, MarkKeepsSlots DEF Typed

LEMMA CollectKeepsSlots == ASSUME Agrees, SlotsAgree, Reap \/ CloseAll PROVE SlotsAgree'
<1>1. Typed
    BY DEF Agrees
<1>2. ASSUME NEW gone \in SUBSET Sessions, \A x \in gone : Exists(x), state' = Closing(gone),
             NEW out, sessions' = Without(out), closed' \in BOOLEAN, closed => closed', UNCHANGED <<callVars, killing>>,
             ~Idles /\ ~closed' => sessions' = sessions
      PROVE  SlotsAgree'
    <2>1. \A s \in Sessions : Marks(s) /\ (state'[s] # None /\ state'[s].stale => state[s].stale)
        BY <1>1, <1>2, ClosingMarks, ClosingFresh DEF Marks
    <2>2. \A n \in Names : sessions'[n] \in {sessions[n], None}
        BY <1>1, <1>2, WithoutShrinks
    <2> QED
        BY <1>1, <1>2, <2>1, <2>2, MarkKeepsSlots DEF callVars
<1>3. CASE Reap
    <2>1. /\ Expired \in SUBSET Sessions /\ \A x \in Expired : Exists(x)
        BY DEF Expired, Mapped
    <2>2. /\ state' = Closing(Expired) /\ sessions' = Without(Expired) /\ closed' \in BOOLEAN /\ closed' = closed
          /\ UNCHANGED <<callVars, killing>>
        BY <1>1, <1>3 DEF Reap, Typed
    <2>3. ~Idles => sessions' = sessions
        BY <2>2, NothingExpires DEF SlotsAgree
    <2> QED
        BY <1>2, <2>1, <2>2, <2>3
<1>4. CASE CloseAll
    <2> DEFINE all == {s \in Sessions : Mapped(s)}
    <2>1. /\ state' = Closing(all) /\ sessions' = Without(all \ Unfinished) /\ closed' \in BOOLEAN /\ closed'
          /\ UNCHANGED <<callVars, killing>>
        BY <1>4 DEF CloseAll
    <2>2. all \in SUBSET Sessions /\ \A x \in all : Exists(x)
        BY DEF Mapped
    <2> HIDE DEF all
    <2> QED
        BY <1>2, <2>1, <2>2
<1> QED
    BY <1>3, <1>4

(* kill holds the lock of its session, and a lock is released with the reservation gone or with the session given up. *)
LEMMA KillKeepsSlots ==
    ASSUME Agrees, SlotsAgree, NEW a \in Actors, NEW s \in Sessions, Exists(s), NEW k \in State, state' = [state EXCEPT ![s] = k],
           UNCHANGED <<sessions, closed, callVars>>,
           k.name = state[s].name, k.stale = state[s].stale, k.lease => state[s].lease, k.killed,
           k.proc = state[s].proc, k.watch = state[s].watch,
           killing' \in [Actors -> Sessions \cup {None}], \A b \in Actors : b # a => killing'[b] = killing[b],
           killing'[a] \in {s, None}, killing'[a] = s => k.lifecycle = a \/ ~k.lease,
           state[s].lifecycle \in {a, None}
    PROVE  SlotsAgree'
<1>1. Typed /\ state'[s] = k /\ \A r \in Sessions : r # s => state'[r] = state[r]
    BY DEF Agrees, Typed
<1>2. ASSUME NEW b \in Actors PROVE CleanedUp(b)'
    <2>1. CASE b = a
        BY <1>1, <2>1 DEF CleanedUp
    <2>2. CASE b # a
        <3>1. CleanedUp(b) /\ killing'[b] = killing[b] /\ killing[b] \in Sessions \cup {None} /\ b # None
            BY <1>1, <2>2 DEF SlotsAgree, Typed
        <3>2. CASE killing[b] = s
            BY <1>1, <2>2, <3>1, <3>2 DEF CleanedUp
        <3>3. CASE killing[b] # s
            BY <1>1, <3>1, <3>3 DEF CleanedUp
        <3> QED
            BY <3>2, <3>3
    <2> QED
        BY <2>1, <2>2
<1>3. k.proc = "running" => CanRun(s)
    BY DEF CanRun
<1> QED
    BY <1>2, <1>3, SessionChangeKeepsSlots

LEMMA FinalizeKeepsSlots == ASSUME Agrees, SlotsAgree, NEW a \in Actors, Finalize(a) PROVE SlotsAgree'
<1>1. Typed /\ ActorAgrees(a) /\ a # None
    BY DEF Agrees
<1>2. CASE Kill(a)
    <2>1. PICK s \in todo[a] : /\ state[s].lifecycle = None
                               /\ state' = [state EXCEPT ![s] = [@ EXCEPT !.killed = TRUE, !.lifecycle = a]]
                               /\ killing' = [killing EXCEPT ![a] = s]
        BY <1>2 DEF Kill
    <2>2. s \in Sessions /\ Exists(s) /\ state[s] \in State
        BY <1>1 DEF Typed, ActorAgrees, Exists
    <2> DEFINE k == [state[s] EXCEPT !.killed = TRUE, !.lifecycle = a]
    <2>3. state' = [state EXCEPT ![s] = k] /\ UNCHANGED <<sessions, closed, callVars>> /\ state[s].lifecycle = None
        BY <1>2, <2>1 DEF Kill
    <2>4. /\ k \in State /\ k.name = state[s].name /\ k.killed /\ k.proc = state[s].proc /\ k.watch = state[s].watch
          /\ k.lifecycle = a /\ k.stale = state[s].stale /\ k.lease = state[s].lease
        BY <2>2 DEF State
    <2> HIDE DEF k
    <2>5. /\ killing' \in [Actors -> Sessions \cup {None}] /\ killing'[a] = s
          /\ \A b \in Actors : b # a => killing'[b] = killing[b]
        BY <1>1, <2>1, <2>2 DEF Typed
    <2> QED
        BY <2>2, <2>3, <2>4, <2>5, KillKeepsSlots
<1>3. CASE GiveUp(a) \/ RemovalFailed(a) \/ RemoveDir(a)
    <2>1. PICK s \in Sessions : s = killing[a] /\ Exists(s) /\ state[s].lifecycle = a
        BY <1>1, <1>3 DEF GiveUp, RemovalFailed, RemoveDir, InKill, Typed, ActorAgrees
    <2>2. state[s] \in State /\ state[s].killed
        BY <1>1, <2>1 DEF Typed, ActorAgrees, Exists
    <2>3. /\ Released(state[s]) \in State /\ Released(state[s]).name = state[s].name
          /\ Released(state[s]).killed /\ Released(state[s]).proc = state[s].proc
          /\ Released(state[s]).watch = state[s].watch /\ Released(state[s]).stale = state[s].stale
          /\ Released(state[s]).lease = state[s].lease
        BY <2>2 DEF Released, State
    <2>4. UNCHANGED <<sessions, closed, callVars>>
        BY <1>3 DEF GiveUp, RemovalFailed, RemoveDir
    <2>5. CASE GiveUp(a) \/ RemovalFailed(a)
        <3> DEFINE k == [Released(state[s]) EXCEPT !.lifecycle = None]
        <3>1. state' = [state EXCEPT ![s] = k] /\ killing' = [killing EXCEPT ![a] = None]
            BY <2>1, <2>5 DEF GiveUp, RemovalFailed
        <3>2. /\ k \in State /\ k.name = state[s].name /\ k.killed /\ k.proc = state[s].proc /\ k.watch = state[s].watch
              /\ k.stale = state[s].stale /\ k.lease = state[s].lease
            BY <2>3 DEF State
        <3>3. /\ killing' \in [Actors -> Sessions \cup {None}] /\ killing'[a] = None
              /\ \A b \in Actors : b # a => killing'[b] = killing[b]
            BY <1>1, <3>1 DEF Typed
        <3> HIDE DEF k
        <3>4. s # None
            BY <2>1, <1>1
        <3> QED
            BY <2>1, <2>4, <3>1, <3>2, <3>3, <3>4, KillKeepsSlots
    <2>6. CASE RemoveDir(a)
        <3> DEFINE k == [Released(state[s]) EXCEPT !.lifecycle = None, !.lease = FALSE, !.cleaned = TRUE]
        <3>1. state' = [state EXCEPT ![s] = k] /\ killing' = killing
            BY <2>1, <2>6 DEF RemoveDir, workVars
        <3>2. /\ k \in State /\ k.name = state[s].name /\ k.killed /\ k.proc = state[s].proc /\ k.watch = state[s].watch
              /\ k.stale = state[s].stale /\ ~k.lease
            BY <2>3 DEF State
        <3>3. /\ killing' \in [Actors -> Sessions \cup {None}] /\ killing'[a] = s
              /\ \A b \in Actors : b # a => killing'[b] = killing[b]
            BY <1>1, <2>1, <3>1 DEF Typed
        <3> HIDE DEF k
        <3> QED
            BY <2>1, <2>4, <3>1, <3>2, <3>3, KillKeepsSlots
    <2> QED
        BY <1>3, <2>5, <2>6
<1>4. CASE Unreserve(a)
    <2>1. PICK s \in Sessions : s = killing[a] /\ Exists(s) /\ state[s].killed /\ ~state[s].lease
        BY <1>1, <1>4 DEF Unreserve, Typed, ActorAgrees, SlotsAgree, CleanedUp
    <2>2. /\ Unmap(s) /\ killing' = [killing EXCEPT ![a] = None] /\ UNCHANGED <<closed, state, callVars>>
        BY <1>4, <2>1 DEF Unreserve
    <2>3. \A n \in Names : sessions'[n] = sessions[n] \/ (sessions'[n] = None /\ sessions[n] = s)
        BY <1>1, <2>2, UnmapTakes
    <2>4. ASSUME NEW b \in Actors PROVE CleanedUp(b)'
        BY <1>1, <2>2 DEF SlotsAgree, CleanedUp, Typed
    <2>5. ~Holds(s)
        BY <2>1 DEF Holds, CanRun, Agrees, SessionAgrees
    <2>6. \A r \in Sessions : (Holds(r)' <=> Holds(r)) /\ (CanRun(r)' <=> CanRun(r)) /\ (Exists(r)' <=> Exists(r))
        BY <2>2 DEF Holds, CanRun, Exists, callVars
    <2>7. ASSUME NEW r \in Sessions, Holds(r), Mapped(r) PROVE Mapped(r)'
        <3>1. r # s /\ Exists(r) /\ state[r].name \in Names
            BY <1>1, <2>5, <2>7 DEF Mapped, Exists, Typed, State
        <3> QED
            BY <2>2, <2>3, <2>7, <3>1 DEF Mapped, Exists
    <2>8. ASSUME ~Idles PROVE Slots'
        <3>1. Slots /\ closed' = closed /\ closed' \in BOOLEAN /\ \A n \in Names : sessions'[n] \in {sessions[n], None}
            BY <1>1, <2>2, <2>3, <2>8 DEF SlotsAgree, Typed
        <3>2. \A r \in Sessions : Exists(r)' => Exists(r) /\ (state'[r].stale => state[r].stale)
            BY <2>2, <2>6
        <3> QED
            BY <2>6, <2>7, <3>1, <3>2, SlotStep
    <2> QED
        BY <2>4, <2>8 DEF SlotsAgree
<1> QED
    BY <1>2, <1>3, <1>4 DEF Finalize

LEMMA SlotsAgreeAtFirst == Init => SlotsAgree
<1> SUFFICES ASSUME Init PROVE SlotsAgree
    OBVIOUS
<1>1. \A a \in Actors : CleanedUp(a)
    BY DEF Init, CleanedUp
<1>2. Live = {} /\ \A s \in Sessions : ~Exists(s) /\ ~Holds(s)
    BY DEF Init, Live, Exists, Holds, CanRun
<1>3. IsFiniteSet(Live) /\ Cardinality(Live) = 0
    BY <1>2, FS_EmptySet
<1> QED
    BY <1>1, <1>2, <1>3 DEF SlotsAgree, Slots, Init

LEMMA SlotsAgreeAfterwards == Agrees /\ SlotsAgree /\ [Next]_vars => SlotsAgree'
<1> SUFFICES ASSUME Agrees, SlotsAgree, [Next]_vars PROVE SlotsAgree'
    OBVIOUS
<1>1. CASE UNCHANGED vars
    BY <1>1 DEF vars, SlotsAgree, Slots, CleanedUp, Live, Able, Holds, CanRun, Mapped, Exists
<1> QED
    BY <1>1, CallerKeepsSlots, SessionKeepsSlots, UseKeepsSlots, CollectKeepsSlots, FinalizeKeepsSlots DEF Next

(* Where no session goes unused for idleSessionTTL, no more than MaxSessions ffmpeg processes run at a time, and where
   directories can be removed besides, what is left of a session stays in the map until cleanup has finished (Manager). *)
THEOREM SlotsStayHeld == Spec => [](/\ ~Idles => ProcessesBounded
                                    /\ ~Idles /\ ~RemovalFails => SlotsAreHeld)
<1>1. ASSUME Agrees, SlotsAgree, ~Idles PROVE ProcessesBounded
    <2>1. IsFiniteSet(Able) /\ Cardinality(Able) <= MaxSessions
        BY <1>1, AbleIsBounded DEF SlotsAgree
    <2> DEFINE Running == {s \in Sessions : Exists(s) /\ state[s].proc = "running"}
    <2>2. Running \in SUBSET Able
        BY DEF Able, CanRun
    <2> HIDE DEF Running
    <2>3. IsFiniteSet(Running) /\ Cardinality(Running) <= Cardinality(Able)
        BY <2>1, <2>2, FS_Subset
    <2>4. Cardinality(Running) \in Nat /\ Cardinality(Able) \in Nat
        BY <2>1, <2>3, FS_CardinalityType
    <2>5. Cardinality(Running) <= MaxSessions
        BY <2>1, <2>3, <2>4
    <2> QED
        BY <2>5 DEF ProcessesBounded, Running
<1>2. ASSUME Agrees, SlotsAgree, ~Idles, ~RemovalFails PROVE LeftoversAreMapped
    <2> SUFFICES ASSUME ~closed, NEW s \in Sessions, Exists(s), state[s].lease \/ state[s].proc = "running",
                        \A c \in Callers : own[c] # s
                 PROVE  Mapped(s)
        BY DEF LeftoversAreMapped
    <2>1. Holds(s)
        BY <1>2 DEF Holds, CanRun
    <2> QED
        BY <1>2, <2>1 DEF SlotsAgree, Slots
<1>3. Agrees /\ SlotsAgree => /\ ~Idles => ProcessesBounded
                              /\ ~Idles /\ ~RemovalFails => SlotsAreHeld
    BY <1>1, <1>2 DEF SlotsAreHeld
<1> QED
    BY <1>3, AgreesAtFirst, AgreesAfterwards, SlotsAgreeAtFirst, SlotsAgreeAfterwards, PTL DEF Spec

===============================================================================
