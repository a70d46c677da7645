---------------------------- MODULE Server_proofs -----------------------------
(***************************************************************************)
(* Proofs about parts of the server that share no state with each other:   *)
(* accounts, scan jobs, the metadata of works, backups, playlists, and the *)
(* limiter of logins, for every number of users, tokens, libraries, jobs,  *)
(* timer callbacks, editions, streams, items, processes, lists, requests,  *)
(* addresses and names.                                                    *)
(***************************************************************************)
EXTENDS MCServer, Clients_proofs, FunctionTheorems, FiniteSetTheorems

-----------------------------------------------------------------------------
(* Accounts.                                                               *)

(* What the two properties need to be inductive: passwords are numbered by the counter, and a request that issues a
   token from another one names that other one. *)
AcInv ==
    /\ AcTypeOK
    /\ acPasswords \in 0..AcMaxPasswords
    /\ TokensFollowPasswords
ParentsAreTokens ==
    /\ acReq = [r \in AcRequests |-> acReq[r]]
    /\ \A r \in AcRequests : acReq[r].kind = "issue" => acReq[r].token \in AcTokens

LEMMA AcInitHolds == AcInit => AcInv
<1> SUFFICES ASSUME AcInit PROVE AcInv
    OBVIOUS
<1> USE AcAssumption
<1>1. 1 \in AcIds /\ 1 \in 0..AcMaxPasswords /\ 0 \in 0..AcMaxPasswords
    BY DEF AcIds
<1>2. acUser \in [AcIds -> [there : BOOLEAN, admin : BOOLEAN, password : 0..AcMaxPasswords]]
    BY <1>1 DEF AcInit, NoUser
<1>3. 1 \in Admins
    BY <1>1 DEF AcInit, Admins
<1>4. acToken \in [AcTokens -> [state : {"none", "live", "revoked"}, user : {0} \cup AcIds, password : 0..AcMaxPasswords]]
    BY <1>1 DEF AcInit, NoToken
<1>5. TokensFollowPasswords
    BY DEF AcInit, TokensFollowPasswords, LiveToken, NoToken
<1> QED
    BY <1>1, <1>2, <1>3, <1>4, <1>5 DEF AcInv, AcTypeOK, AcInit

(* A token is issued with the password that its user has at that moment.   *)
LEMMA IssuedKeeps ==
    ASSUME AcInv, NEW t \in AcTokens, NEW id \in Users, Issued(t, id, acUser[id].password), UNCHANGED <<acUser, acPasswords>>
    PROVE  AcInv'
<1>1. /\ id \in AcIds
      /\ acUser[id].password \in 0..AcMaxPasswords
    BY DEF AcInv, AcTypeOK, Users
<1>2. acToken' \in [AcTokens -> [state : {"none", "live", "revoked"}, user : {0} \cup AcIds, password : 0..AcMaxPasswords]]
    BY <1>1 DEF AcInv, AcTypeOK, Issued
<1>3. AcTypeOK'
    BY <1>2 DEF AcInv, AcTypeOK, Admins
<1>4. TokensFollowPasswords'
    BY <1>1 DEF AcInv, AcTypeOK, TokensFollowPasswords, Issued, LiveToken, Users
<1> QED
    BY <1>3, <1>4 DEF AcInv

(* Tokens that stay as they are or cease to be in force, while no user changes, disturb nothing. *)
LEMMA WithdrawnKeeps ==
    ASSUME AcInv, UNCHANGED <<acUser, acPasswords>>,
           \/ UNCHANGED acToken
           \/ \E t \in AcTokens : acToken' = [acToken EXCEPT ![t].state = "revoked"]
    PROVE  AcInv'
<1>1. AcTypeOK'
    BY DEF AcInv, AcTypeOK, Admins
<1>2. TokensFollowPasswords'
    BY DEF AcInv, AcTypeOK, TokensFollowPasswords, LiveToken, Users
<1> QED
    BY <1>1, <1>2 DEF AcInv

(* A new password withdraws every token that was obtained with the old one. *)
LEMMA RotationKeeps ==
    ASSUME AcInv, FreshPassword, NEW id \in Users,
           acUser' = [acUser EXCEPT ![id].password = acPasswords + 1],
           Revoked({id}), acPasswords' = acPasswords + 1
    PROVE  AcInv'
<1> USE AcAssumption
<1>1. id \in AcIds /\ acPasswords + 1 \in 0..AcMaxPasswords
    BY DEF AcInv, Users, FreshPassword
<1>2. acUser' \in [AcIds -> [there : BOOLEAN, admin : BOOLEAN, password : 0..AcMaxPasswords]]
    BY <1>1 DEF AcInv, AcTypeOK
<1>3. Admins' = Admins /\ Users' = Users
    BY <1>1 DEF AcInv, AcTypeOK, Admins, Users
<1>4. acToken' \in [AcTokens -> [state : {"none", "live", "revoked"}, user : {0} \cup AcIds, password : 0..AcMaxPasswords]]
    BY DEF AcInv, AcTypeOK, Revoked
<1>5. TokensFollowPasswords'
    BY <1>1, <1>3 DEF AcInv, AcTypeOK, TokensFollowPasswords, Revoked, LiveToken
<1> QED
    BY <1>1, <1>2, <1>3, <1>4, <1>5 DEF AcInv, AcTypeOK

(* The id of a new user is nobody's, so that no token in force names it.   *)
LEMMA CreationKeeps ==
    ASSUME AcInv, FreshPassword, NEW id \in AcIds, NEW admin \in BOOLEAN, id \notin Users,
           acUser' = [acUser EXCEPT ![id] = [there |-> TRUE, admin |-> admin, password |-> acPasswords + 1]],
           acPasswords' = acPasswords + 1, UNCHANGED acToken
    PROVE  AcInv'
<1> USE AcAssumption
<1>1. acPasswords + 1 \in 0..AcMaxPasswords
    BY DEF AcInv, FreshPassword
<1>2. acUser' \in [AcIds -> [there : BOOLEAN, admin : BOOLEAN, password : 0..AcMaxPasswords]]
    BY <1>1 DEF AcInv, AcTypeOK
<1>3. Admins \subseteq Admins' /\ Users \subseteq Users'
    BY DEF AcInv, AcTypeOK, Admins, Users
<1>4. TokensFollowPasswords'
    BY <1>3 DEF AcInv, AcTypeOK, TokensFollowPasswords, LiveToken
<1> QED
    BY <1>1, <1>2, <1>3, <1>4 DEF AcInv, AcTypeOK

(* A user that is not the last administrator goes, and its tokens go with it. *)
LEMMA DeletionKeeps ==
    ASSUME AcInv, NEW id \in Users, Admins # {id}, DeletedRows(id), UNCHANGED acPasswords
    PROVE  AcInv'
<1> USE AcAssumption
<1>1. acUser' \in [AcIds -> [there : BOOLEAN, admin : BOOLEAN, password : 0..AcMaxPasswords]]
    <2>1. NoUser \in [there : BOOLEAN, admin : BOOLEAN, password : 0..AcMaxPasswords]
        BY DEF NoUser
    <2> QED
        BY <2>1 DEF AcInv, AcTypeOK, DeletedRows
<1>2. PICK other \in Admins : other # id
    BY DEF AcInv, AcTypeOK
<1>3. other \in Admins'
    BY <1>2 DEF AcInv, AcTypeOK, Admins, DeletedRows
<1>4. acToken' \in [AcTokens -> [state : {"none", "live", "revoked"}, user : {0} \cup AcIds, password : 0..AcMaxPasswords]]
    BY DEF AcInv, AcTypeOK, DeletedRows, NoToken
<1>5. TokensFollowPasswords'
    BY DEF AcInv, AcTypeOK, TokensFollowPasswords, DeletedRows, LiveToken, Users, NoToken
<1> QED
    BY <1>1, <1>3, <1>4, <1>5 DEF AcInv, AcTypeOK

LEMMA ParentsStep == ParentsAreTokens /\ [AcNext]_acVars => ParentsAreTokens'
<1> SUFFICES ASSUME ParentsAreTokens, [AcNext]_acVars PROVE ParentsAreTokens'
    OBVIOUS
<1>1. CASE UNCHANGED acReq
    BY <1>1 DEF ParentsAreTokens
<1>2. ASSUME NEW r \in AcRequests, Done(r)
      PROVE  ParentsAreTokens'
    BY <1>2 DEF ParentsAreTokens, Done, AcQuiet
<1>3. ASSUME NEW r \in AcRequests, NEW id \in AcIds, CheckPassword(r, id)
      PROVE  ParentsAreTokens'
    BY <1>3 DEF ParentsAreTokens, CheckPassword, Begin, AcQuiet
<1>4. ASSUME NEW r \in AcRequests, NEW t \in AcTokens, NEW kind, NEW id, Authenticate(r, t, kind, id)
      PROVE  ParentsAreTokens'
    BY <1>4 DEF ParentsAreTokens, Authenticate, Begin, AcQuiet
<1> QED
    BY <1>1, <1>2, <1>3, <1>4
    DEF AcNext, acVars, IssueTokenForPassword, IssueTokenFromParent, RotatePassword, CreateUser, DeleteUserGuarded, RevokeToken

LEMMA AcStep == AcInv /\ ParentsAreTokens /\ [AcNext]_acVars => AcInv'
<1> SUFFICES ASSUME AcInv, ParentsAreTokens, [AcNext]_acVars PROVE AcInv'
    OBVIOUS
<1>1. CASE UNCHANGED acVars
    BY <1>1, WithdrawnKeeps DEF acVars
<1>2. ASSUME NEW r \in AcRequests,
             \/ \E id \in AcIds : CheckPassword(r, id)
             \/ \E t \in AcTokens, kind \in {"password", "delete"}, id \in AcIds : Authenticate(r, t, kind, id)
             \/ \E t \in AcTokens, kind \in {"issue", "create", "revoke"} : Authenticate(r, t, kind, 0)
      PROVE  AcInv'
    <2>1. UNCHANGED <<acUser, acToken, acPasswords>>
        BY <1>2, Zenon DEF CheckPassword, Authenticate
    <2> QED
        BY <2>1, WithdrawnKeeps
<1>3. ASSUME NEW r \in AcRequests, IssueTokenForPassword(r)
      PROVE  AcInv'
    <2>1. CASE acReq[r].user \in Users /\ acUser[acReq[r].user].password = acReq[r].read.password
        <3>1. PICK t \in AcTokens : Issued(t, acReq[r].user, acUser[acReq[r].user].password)
            BY <1>3, <2>1 DEF IssueTokenForPassword, Unused
        <3> QED
            BY <1>3, <2>1, <3>1, IssuedKeeps DEF IssueTokenForPassword
    <2>2. CASE ~(acReq[r].user \in Users /\ acUser[acReq[r].user].password = acReq[r].read.password)
        BY <1>3, <2>2, WithdrawnKeeps DEF IssueTokenForPassword
    <2> QED
        BY <2>1, <2>2
<1>4. ASSUME NEW r \in AcRequests, IssueTokenFromParent(r)
      PROVE  AcInv'
    <2>1. CASE LiveToken(acReq[r].token) /\ acToken[acReq[r].token].user = acReq[r].user
        <3>0. acReq[r].token \in AcTokens
            BY <1>4 DEF IssueTokenFromParent, ParentsAreTokens
        <3>1. /\ acReq[r].user \in Users
              /\ acToken[acReq[r].token].password = acUser[acReq[r].user].password
            BY <2>1, <3>0 DEF AcInv, TokensFollowPasswords
        <3>2. PICK t \in AcTokens : Issued(t, acReq[r].user, acUser[acReq[r].user].password)
            BY <1>4, <2>1, <3>1 DEF IssueTokenFromParent, Unused
        <3> QED
            BY <1>4, <3>1, <3>2, IssuedKeeps DEF IssueTokenFromParent
    <2> QED
        BY <1>4, <2>1, WithdrawnKeeps DEF IssueTokenFromParent
<1>5. ASSUME NEW r \in AcRequests, RotatePassword(r)
      PROVE  AcInv'
    BY <1>5, WithdrawnKeeps, RotationKeeps DEF RotatePassword
<1>6. ASSUME NEW r \in AcRequests, CreateUser(r)
      PROVE  AcInv'
    <2>1. PICK id \in AcIds, admin \in BOOLEAN :
              /\ \A other \in Users : other < id
              /\ acUser' = [acUser EXCEPT ![id] = [there |-> TRUE, admin |-> admin, password |-> acPasswords + 1]]
        BY <1>6 DEF CreateUser
    <2>2. id \notin Users
        BY <2>1 DEF AcIds
    <2> QED
        BY <1>6, <2>1, <2>2, CreationKeeps DEF CreateUser
<1>7. ASSUME NEW r \in AcRequests, DeleteUserGuarded(r)
      PROVE  AcInv'
    BY <1>7, WithdrawnKeeps, DeletionKeeps DEF DeleteUserGuarded, LastAdmin
<1>8. ASSUME NEW r \in AcRequests, RevokeToken(r)
      PROVE  AcInv'
    BY <1>8, WithdrawnKeeps DEF RevokeToken
<1> QED
    BY <1>1, <1>2, <1>3, <1>4, <1>5, <1>6, <1>7, <1>8 DEF AcNext

LEMMA AcAlways == AcSpec => []AcInv
<1>1. AcInit => ParentsAreTokens
    BY DEF AcInit, ParentsAreTokens, AcQuiet
<1> QED
    BY <1>1, AcInitHolds, ParentsStep, AcStep, PTL DEF AcSpec

(* Users and tokens keep their types, and there is always an administrator, whoever deletes whom at the same time. *)
THEOREM AnAdministratorStays == AcSpec => []AcTypeOK
<1>1. AcInv => AcTypeOK
    BY DEF AcInv
<1> QED
    BY <1>1, AcAlways, PTL

(* No token outlives the password it was obtained with, nor the user, nor comes to name another one under its id. *)
THEOREM TokensAreOfTheirPassword == AcSpec => []TokensFollowPasswords
<1>1. AcInv => TokensFollowPasswords
    BY DEF AcInv
<1> QED
    BY <1>1, AcAlways, PTL

-----------------------------------------------------------------------------
(* Scan jobs: rows, registrations and goroutines.                          *)

JobStates == {"gone", "launch", "scanning", "unregister", "persist", "finish", "remove"}
JobRecord == [at : JobStates, outcome : {"done", "error", "withdrawn"}, failed : 0..3, lib : ScanLibraries \cup {ScanNone}]

JobsTyped ==
    /\ scanRow \in [ScanJobIds -> Terminal \cup {"free", "running"}]
    /\ scanLast \in [ScanLibraries -> ScanJobIds \cup {ScanNone}]
    /\ scanRuns \in [ScanLibraries -> ScanJobIds \cup {ScanNone}]
    /\ scanJob \in [ScanJobIds -> JobRecord]

(* A run is registered from its admission on until it returns; its row is terminal once that was written, or
   could not be. *)
JobAgrees(j) ==
    LET k == scanJob[j] IN
    /\ k.at # "gone" => k.lib \in ScanLibraries
    /\ k.at \in {"launch", "scanning"} => scanRuns[k.lib] = j
    /\ k.at \in {"launch", "scanning", "unregister", "persist"} => k.failed <= 2
    /\ k.at \in {"unregister", "persist"} => k.outcome \in {"done", "error"}
    /\ k.at \in {"finish", "remove", "gone"} /\ scanRow[j] = "running" => k.failed = 3 \/ k.outcome = "withdrawn"
    /\ scanLife = "down" => k.at \in {"gone", "launch"}

JobsAgree == JobsTyped /\ \A j \in ScanJobIds : JobAgrees(j)

(* A call is about a library, from the expiry of its timer on. *)
CallsTyped ==
    /\ scanCall \in [ScanCallers -> [at : {"idle", "callback", "check", "admit", "rearm"}, lib : ScanLibraries \cup {ScanNone}]]
    /\ \A c \in ScanCallers : scanCall[c].at # "idle" => scanCall[c].lib \in ScanLibraries

Statuses == {"running", "done", "error", "withdrawn"}
WatchTyped ==
    /\ scanLife \in {"up", "cancelled", "closing", "down"}
    /\ scanTimer \in [ScanLibraries -> {"none", "armed"}]
    /\ scanArmed \subseteq scanKnown /\ scanKnown \subseteq ScanLibraries
    /\ DOMAIN scanSub = {"at", "run", "queue", "got"}
    /\ scanSub.queue \in Seq(Statuses) /\ Len(scanSub.queue) <= ScanChannel

ScanInv == JobsAgree /\ CallsTyped /\ WatchTyped

LEMMA ScanInitHolds == ScanInit => ScanInv
<1> SUFFICES ASSUME ScanInit PROVE ScanInv
    OBVIOUS
<1>1. JobsTyped
    BY DEF ScanInit, JobsTyped, JobRecord, JobStates, NoJob
<1>2. \A j \in ScanJobIds : JobAgrees(j)
    BY DEF ScanInit, JobAgrees, NoJob
<1>3. CallsTyped
    BY DEF ScanInit, CallsTyped, NoCall
<1>4. scanSub.queue = << >> /\ DOMAIN scanSub = {"at", "run", "queue", "got"}
    BY DEF ScanInit, NoSub
<1>5. WatchTyped
    BY <1>4, ScanAssumption DEF ScanInit, WatchTyped
<1> QED
    BY <1>1, <1>2, <1>3, <1>5 DEF ScanInv, JobsAgree

LEMMA JobsUnchanged ==
    ASSUME JobsAgree, UNCHANGED scanJobVars, scanLife' = "down" => scanLife = "down"
    PROVE  JobsAgree'
    BY DEF JobsAgree, JobsTyped, JobAgrees, scanJobVars

(* One goroutine goes on: it may write its row and take its own registration away. *)
LEMMA GoroutineStep ==
    ASSUME JobsAgree, NEW j \in ScanJobIds, NEW k \in JobRecord, scanJob' = [scanJob EXCEPT ![j] = k],
           k.lib = scanJob[j].lib, scanLast' = scanLast, scanLife' = scanLife,
           scanRow' \in [ScanJobIds -> Terminal \cup {"free", "running"}], \A i \in ScanJobIds : i # j => scanRow'[i] = scanRow[i],
           scanRuns' \in [ScanLibraries -> ScanJobIds \cup {ScanNone}],
           \A l \in ScanLibraries : scanRuns'[l] = scanRuns[l] \/ scanRuns[l] = j,
           k.at # "gone" => scanJob[j].at # "gone",
           k.at = "scanning" => scanJob[j].at \in {"launch", "scanning"} /\ scanLife # "down" /\ scanRuns' = scanRuns,
           k.at # "launch",
           k.at \in {"scanning", "unregister", "persist"} => k.failed <= 2,
           k.at \in {"unregister", "persist"} => k.outcome \in {"done", "error"},
           k.at \in {"finish", "remove", "gone"} /\ scanRow'[j] = "running" => k.failed = 3 \/ k.outcome = "withdrawn",
           scanLife = "down" => k.at = "gone"
    PROVE  JobsAgree'
<1>1. JobsTyped'
    BY DEF JobsAgree, JobsTyped
<1>2. scanJob'[j] = k /\ \A i \in ScanJobIds : i # j => scanJob'[i] = scanJob[i]
    BY DEF JobsAgree, JobsTyped
<1>3. ASSUME NEW i \in ScanJobIds PROVE JobAgrees(i)'
    <2>1. CASE i = j
        BY <1>2, <2>1 DEF JobsAgree, JobAgrees
    <2>2. CASE i # j
        <3>1. JobAgrees(i) /\ scanJob'[i] = scanJob[i] /\ scanRow'[i] = scanRow[i]
            BY <1>2, <2>2 DEF JobsAgree
        <3>2. scanJob[i].at \in {"launch", "scanning"} => scanRuns'[scanJob[i].lib] = i
            BY <2>2, <3>1 DEF JobAgrees
        <3> QED
            BY <3>1, <3>2 DEF JobAgrees
    <2> QED
        BY <2>1, <2>2
<1> QED
    BY <1>1, <1>3 DEF JobsAgree

(* A new run takes the entry of a library whose last one is closed or withdrawn. *)
LEMMA RegisterStep ==
    ASSUME JobsAgree, NEW l \in ScanLibraries, ~Open(l), Register(l), scanLife' = scanLife
    PROVE  JobsAgree'
<1>1. PICK j \in FreeJobs :
         /\ scanRow' = [i \in ScanJobIds |-> IF i = j THEN "running" ELSE IF i \in FreeJobs THEN "free" ELSE scanRow[i]]
         /\ scanLast' = [scanLast EXCEPT ![l] = j]
         /\ scanRuns' = [scanRuns EXCEPT ![l] = j]
         /\ scanJob' = [i \in ScanJobIds |-> IF i = j THEN [NoJob EXCEPT !.at = "launch", !.lib = l]
                                             ELSE IF i \in FreeJobs THEN NoJob ELSE scanJob[i]]
    BY DEF Register
<1>2. j \in ScanJobIds /\ JobsTyped /\ j # ScanNone
    BY ScanAssumption DEF FreeJobs, JobsAgree
<1> DEFINE k == [NoJob EXCEPT !.at = "launch", !.lib = l]
<1>4. NoJob \in JobRecord /\ NoJob.at = "gone" /\ NoJob.failed = 0
    BY DEF NoJob, JobRecord, JobStates
<1>3. k \in JobRecord /\ k.at = "launch" /\ k.lib = l /\ k.failed = 0
    BY <1>4 DEF JobRecord, JobStates
<1>5. scanJob' = [i \in ScanJobIds |-> IF i = j THEN k ELSE IF i \in FreeJobs THEN NoJob ELSE scanJob[i]]
    BY <1>1
<1> HIDE DEF k
<1>6. JobsTyped'
    BY <1>1, <1>2, <1>3, <1>4, <1>5 DEF JobsTyped
<1>7. ASSUME NEW i \in ScanJobIds PROVE JobAgrees(i)'
    <2>1. CASE i = j
        <3>1. scanJob'[i] = k /\ scanRuns'[l] = i
            BY <1>1, <1>2, <1>5, <2>1 DEF JobsTyped
        <3> QED
            BY <1>3, <3>1 DEF JobAgrees
    <2>2. CASE i # j /\ i \in FreeJobs
        BY <1>1, <1>2, <1>4, <1>5, <2>2 DEF JobAgrees
    <2>3. CASE i # j /\ i \notin FreeJobs
        <3>1. JobAgrees(i) /\ scanJob'[i] = scanJob[i] /\ scanRow'[i] = scanRow[i]
            BY <1>1, <1>5, <2>3 DEF JobsAgree
        <3>2. scanJob[i].at \in {"launch", "scanning"} => scanJob[i].lib # l /\ scanRuns'[scanJob[i].lib] = i
            BY <1>1, <1>2, <3>1, ScanAssumption DEF JobAgrees, Open, Closed, JobsTyped
        <3> QED
            BY <3>1, <3>2 DEF JobAgrees
    <2> QED
        BY <2>1, <2>2, <2>3
<1> QED
    BY <1>6, <1>7 DEF JobsAgree

LEMMA GoroutineKeeps ==
    ASSUME ScanInv, NEW j \in ScanJobIds, ScanGoroutine(j)
    PROVE  JobsAgree'
<1>1. JobsTyped /\ JobAgrees(j) /\ JobsAgree /\ scanJob[j] \in JobRecord
    BY DEF ScanInv, JobsAgree, JobsTyped
<1>2. \A l \in ScanLibraries : scanRuns[l] \in ScanJobIds \cup {ScanNone}
    BY <1>1 DEF JobsTyped
<1>3. CASE Launch(j)
    <2> DEFINE l == scanJob[j].lib
    <2>1. scanJob[j].at = "launch" /\ l \in ScanLibraries /\ scanRuns[l] = j /\ UNCHANGED <<scanLast, scanLife>>
        BY <1>1, <1>3 DEF Launch, JobAgrees
    <2>2. CASE scanLife \in {"closing", "down"}
        <3> DEFINE k == [scanJob[j] EXCEPT !.at = "gone", !.outcome = "withdrawn"]
        <3>1. /\ scanJob' = [scanJob EXCEPT ![j] = k]
              /\ scanRuns' = [scanRuns EXCEPT ![l] = ScanNone]
              /\ scanRow' \in {scanRow, [scanRow EXCEPT ![j] = "error"]}
            BY <1>1, <1>3, <2>2 DEF Launch, JobsTyped
        <3>2. k \in JobRecord /\ k.at = "gone" /\ k.lib = l /\ k.outcome = "withdrawn"
            BY <1>1 DEF JobRecord, JobStates
        <3>3. scanRuns' \in [ScanLibraries -> ScanJobIds \cup {ScanNone}] /\ \A m \in ScanLibraries : scanRuns'[m] = scanRuns[m] \/ scanRuns[m] = j
            BY <1>1, <2>1, <3>1 DEF JobsTyped
        <3>4. scanRow' \in [ScanJobIds -> Terminal \cup {"free", "running"}] /\ \A i \in ScanJobIds : i # j => scanRow'[i] = scanRow[i]
            BY <1>1, <3>1 DEF JobsTyped, Terminal
        <3> HIDE DEF k
        <3> QED
            BY <1>1, <2>1, <3>1, <3>2, <3>3, <3>4, GoroutineStep
    <2>3. CASE scanLife \notin {"closing", "down"}
        <3> DEFINE k == [scanJob[j] EXCEPT !.at = "scanning"]
        <3>1. scanJob' = [scanJob EXCEPT ![j] = k] /\ scanRuns' = scanRuns /\ scanRow' = scanRow
            BY <1>1, <1>3, <2>3 DEF Launch, ScanStep, JobsTyped
        <3>2. k \in JobRecord /\ k.at = "scanning" /\ k.lib = l /\ k.failed = scanJob[j].failed
            BY <1>1 DEF JobRecord, JobStates
        <3>3. scanRuns' \in [ScanLibraries -> ScanJobIds \cup {ScanNone}] /\ scanRow' \in [ScanJobIds -> Terminal \cup {"free", "running"}]
            BY <1>1, <3>1 DEF JobsTyped
        <3>4. k.failed <= 2
            BY <1>1, <2>1, <3>2 DEF JobAgrees
        <3> HIDE DEF k
        <3> QED
            BY <1>1, <2>1, <2>3, <3>1, <3>2, <3>3, <3>4, GoroutineStep
    <2> QED
        BY <2>2, <2>3
<1>4. CASE RunReturns(j)
    <2>1. scanJob[j].at = "scanning" /\ scanLife # "down" /\ UNCHANGED <<scanRow, scanLast, scanRuns, scanLife>>
        BY <1>1, <1>4 DEF RunReturns, JobAgrees
    <2>2. PICK at \in {"persist", "unregister"}, outcome \in {"done", "error"} :
             scanJob' = [scanJob EXCEPT ![j] = [scanJob[j] EXCEPT !.at = at, !.outcome = outcome]]
        BY <1>1, <1>4 DEF RunReturns, JobsTyped
    <2> DEFINE k == [scanJob[j] EXCEPT !.at = at, !.outcome = outcome]
    <2>3. k \in JobRecord /\ k.at = at /\ k.outcome = outcome /\ k.lib = scanJob[j].lib /\ k.failed = scanJob[j].failed
        BY <1>1 DEF JobRecord, JobStates
    <2>4. scanRuns' \in [ScanLibraries -> ScanJobIds \cup {ScanNone}] /\ scanRow' \in [ScanJobIds -> Terminal \cup {"free", "running"}]
        BY <1>1, <2>1 DEF JobsTyped
    <2>5. k.failed <= 2
        BY <1>1, <2>1, <2>3 DEF JobAgrees
    <2>6. scanJob' = [scanJob EXCEPT ![j] = k]
        BY <2>2
    <2> HIDE DEF k
    <2> QED
        BY <1>1, <2>1, <2>3, <2>4, <2>5, <2>6, GoroutineStep
<1>5. CASE Unregister(j)
    <2> DEFINE k == [scanJob[j] EXCEPT !.at = IF scanJob[j].at = "remove" THEN "gone" ELSE "persist"]
    <2>1. /\ scanJob[j].at \in {"unregister", "remove"} /\ scanRuns' = Unregistered(j) /\ UNCHANGED <<scanRow, scanLast, scanLife>>
          /\ scanJob' = [scanJob EXCEPT ![j] = k]
        BY <1>1, <1>5 DEF Unregister, ScanStep, JobsTyped
    <2>2. /\ k \in JobRecord /\ k.at = (IF scanJob[j].at = "remove" THEN "gone" ELSE "persist")
          /\ k.outcome = scanJob[j].outcome /\ k.lib = scanJob[j].lib /\ k.failed = scanJob[j].failed
        BY <1>1 DEF JobRecord, JobStates
    <2>3. /\ scanRuns' \in [ScanLibraries -> ScanJobIds \cup {ScanNone}] /\ \A l \in ScanLibraries : scanRuns'[l] = scanRuns[l] \/ scanRuns[l] = j
          /\ scanRow' \in [ScanJobIds -> Terminal \cup {"free", "running"}]
        BY <1>1, <2>1 DEF JobsTyped, Unregistered
    <2> HIDE DEF k
    <2>4. /\ k.at # "gone" => k.failed <= 2 /\ k.outcome \in {"done", "error"}
          /\ k.at = "gone" /\ scanRow'[j] = "running" => k.failed = 3 \/ k.outcome = "withdrawn"
          /\ scanLife # "down"
        BY <1>1, <2>1, <2>2 DEF JobAgrees
    <2> QED
        BY <1>1, <2>1, <2>2, <2>3, <2>4, GoroutineStep
<1>6. CASE Persist(j)
    <2>1. scanJob[j].at = "persist" /\ UNCHANGED <<scanLast, scanRuns, scanLife>> /\ scanLife # "down" /\ scanJob[j].failed \in 0..2
          /\ scanJob[j].outcome \in {"done", "error"}
        BY <1>1, <1>6 DEF Persist, JobAgrees, JobRecord
    <2>2. scanRuns' \in [ScanLibraries -> ScanJobIds \cup {ScanNone}]
        BY <1>1, <2>1 DEF JobsTyped
    <2>3. CASE scanRow' = [scanRow EXCEPT ![j] = scanJob[j].outcome] /\ ScanStep(j, "finish")
        <3> DEFINE k == [scanJob[j] EXCEPT !.at = "finish"]
        <3>1. scanJob' = [scanJob EXCEPT ![j] = k]
            BY <1>1, <2>3 DEF ScanStep, JobsTyped
        <3>2. k \in JobRecord /\ k.at = "finish" /\ k.lib = scanJob[j].lib
            BY <1>1 DEF JobRecord, JobStates
        <3>3. /\ scanRow' \in [ScanJobIds -> Terminal \cup {"free", "running"}] /\ scanRow'[j] # "running"
              /\ \A i \in ScanJobIds : i # j => scanRow'[i] = scanRow[i]
            BY <1>1, <2>1, <2>3 DEF JobsTyped, Terminal
        <3> HIDE DEF k
        <3> QED
            BY <1>1, <2>1, <2>2, <3>1, <3>2, <3>3, GoroutineStep
    <2>4. CASE /\ scanJob' = [scanJob EXCEPT ![j].failed = @ + 1, ![j].at = IF scanJob[j].failed = 2 THEN "finish" ELSE @]
               /\ UNCHANGED scanRow
        <3> DEFINE k == [scanJob[j] EXCEPT !.failed = scanJob[j].failed + 1,
                                           !.at = IF scanJob[j].failed = 2 THEN "finish" ELSE "persist"]
        <3>1. scanJob' = [scanJob EXCEPT ![j] = k]
            BY <1>1, <2>1, <2>4 DEF JobsTyped
        <3>5. scanJob[j].failed + 1 \in 0..3
            BY <2>1
        <3>6. /\ k.failed = scanJob[j].failed + 1 /\ k.lib = scanJob[j].lib /\ k.outcome = scanJob[j].outcome
              /\ k.at = (IF scanJob[j].failed = 2 THEN "finish" ELSE "persist")
            BY <1>1 DEF JobRecord
        <3>7. DOMAIN k = DOMAIN scanJob[j]
            OBVIOUS
        <3>2. k \in JobRecord
            <4>1. PICK n \in 0..3, a \in JobStates : n = scanJob[j].failed + 1 /\ a = (IF scanJob[j].failed = 2 THEN "finish" ELSE "persist")
                BY <3>5 DEF JobStates
            <4>2. [scanJob[j] EXCEPT !.failed = n, !.at = a] \in JobRecord
                BY <1>1 DEF JobRecord
            <4> QED
                BY <4>1, <4>2
        <3>3. scanRow' \in [ScanJobIds -> Terminal \cup {"free", "running"}] /\ \A i \in ScanJobIds : i # j => scanRow'[i] = scanRow[i]
            BY <1>1, <2>4 DEF JobsTyped
        <3> HIDE DEF k
        <3>4. (k.at = "finish" /\ k.failed = 3) \/ (k.at = "persist" /\ k.failed <= 2)
            BY <2>1, <3>6
        <3> QED
            BY <1>1, <2>1, <2>2, <3>1, <3>2, <3>3, <3>4, <3>6, GoroutineStep
    <2> QED
        BY <1>6, <2>3, <2>4 DEF Persist
<1>7. CASE FinishRun(j)
    <2> DEFINE k == [scanJob[j] EXCEPT !.at = "remove"]
    <2>1. scanJob[j].at = "finish" /\ UNCHANGED <<scanRow, scanLast, scanRuns, scanLife>> /\ scanJob' = [scanJob EXCEPT ![j] = k]
        BY <1>1, <1>7 DEF FinishRun, ScanStep, JobsTyped
    <2>2. /\ k \in JobRecord /\ k.at = "remove"
          /\ k.lib = scanJob[j].lib /\ k.failed = scanJob[j].failed /\ k.outcome = scanJob[j].outcome
        BY <1>1 DEF JobRecord, JobStates
    <2>3. scanRuns' \in [ScanLibraries -> ScanJobIds \cup {ScanNone}] /\ scanRow' \in [ScanJobIds -> Terminal \cup {"free", "running"}]
        BY <1>1, <2>1 DEF JobsTyped
    <2> HIDE DEF k
    <2>4. (scanRow'[j] = "running" => k.failed = 3 \/ k.outcome = "withdrawn") /\ scanLife # "down"
        BY <1>1, <2>1, <2>2 DEF JobAgrees
    <2> QED
        BY <1>1, <2>1, <2>2, <2>3, <2>4, GoroutineStep
<1> QED
    BY <1>3, <1>4, <1>5, <1>6, <1>7 DEF ScanGoroutine

LEMMA SentKeeps ==
    ASSUME WatchTyped, NEW j \in ScanJobIds, NEW status \in Statuses, scanSub' = Sent(j, status)
    PROVE  /\ DOMAIN scanSub' = {"at", "run", "queue", "got"}
           /\ scanSub'.queue \in Seq(Statuses) /\ Len(scanSub'.queue) <= ScanChannel
<1>1. CASE Listening(j) /\ Len(scanSub.queue) < ScanChannel
    <2>1. scanSub' = [scanSub EXCEPT !.queue = Append(@, status)]
        BY <1>1 DEF Sent
    <2>2. DOMAIN scanSub' = DOMAIN scanSub /\ scanSub'.queue = Append(scanSub.queue, status)
        BY <2>1 DEF WatchTyped
    <2>3. scanSub.queue \in Seq(Statuses) /\ Append(scanSub.queue, status) \in Seq(Statuses)
          /\ Len(Append(scanSub.queue, status)) = Len(scanSub.queue) + 1 /\ Len(scanSub.queue) \in Nat
        BY DEF WatchTyped
    <2> QED
        BY <1>1, <2>2, <2>3, ScanAssumption DEF WatchTyped
<1>2. CASE ~(Listening(j) /\ Len(scanSub.queue) < ScanChannel)
    BY <1>2 DEF Sent, WatchTyped
<1> QED
    BY <1>1, <1>2

(* A step of the watcher or of the event stream touches no run. *)
LEMMA ScanStepKeeps ==
    ASSUME ScanInv, [ScanNext]_scanVars
    PROVE  ScanInv'
<1>1. JobsAgree /\ CallsTyped /\ WatchTyped /\ JobsTyped
    BY DEF ScanInv, JobsAgree
<1>2. \A l \in ScanLibraries : NoCall \in [at : {"idle", "callback", "check", "admit", "rearm"}, lib : ScanLibraries \cup {ScanNone}]
    BY DEF NoCall
<1>3. NoCall.at = "idle" /\ NoSub.queue = << >> /\ DOMAIN NoSub = {"at", "run", "queue", "got"}
    BY DEF NoCall, NoSub
<1>4. \A libs : MarkDirty(libs) \in [ScanLibraries -> {"none", "armed"}]
    BY <1>1 DEF MarkDirty, WatchTyped
<1>5. CASE HandleEvent
    <2>1. scanTimer' \in [ScanLibraries -> {"none", "armed"}] /\ UNCHANGED <<scanJobVars, scanLife, scanCall, scanArmed, scanKnown, scanSub>>
        BY <1>4, <1>5 DEF HandleEvent
    <2> QED
        BY <1>1, <2>1, JobsUnchanged DEF ScanInv, CallsTyped, WatchTyped
<1>6. CASE SyncLibraries
    <2>1. scanTimer' \in [ScanLibraries -> {"none", "armed"}] /\ scanArmed' = scanKnown /\ UNCHANGED <<scanJobVars, scanLife, scanCall, scanKnown, scanSub>>
        BY <1>4, <1>6 DEF SyncLibraries
    <2> QED
        BY <1>1, <2>1, JobsUnchanged DEF ScanInv, CallsTyped, WatchTyped
<1>7. CASE StartSweep
    BY <1>1, <1>7, JobsUnchanged DEF ScanInv, CallsTyped, WatchTyped, StartSweep
<1>8. ASSUME NEW l \in ScanLibraries, AddLibrary(l) \/ FileChanges(l) PROVE ScanInv'
    BY <1>1, <1>8, JobsUnchanged DEF ScanInv, CallsTyped, WatchTyped, AddLibrary, FileChanges, scanWatchVars
<1>9. ASSUME NEW l \in ScanLibraries, Expire(l) PROVE ScanInv'
    <2>1. PICK c \in ScanFires : scanCall' = [scanCall EXCEPT ![c] = [at |-> "callback", lib |-> l]]
        BY <1>9 DEF Expire
    <2>2. CallsTyped'
        BY <1>1, <2>1 DEF CallsTyped, ScanCallers
    <2>3. scanTimer' \in [ScanLibraries -> {"none", "armed"}] /\ UNCHANGED <<scanJobVars, scanLife, scanKnown, scanArmed, scanSub>>
        BY <1>1, <1>9 DEF Expire, WatchTyped
    <2> QED
        BY <1>1, <2>2, <2>3, JobsUnchanged DEF ScanInv, WatchTyped
<1>10. ASSUME NEW l \in ScanLibraries, SweepNext(l) PROVE ScanInv'
    <2>1. scanCall' = scanCall \/ scanCall' = [scanCall EXCEPT ![Sweeper] = [at |-> "check", lib |-> l]]
        BY <1>10 DEF SweepNext
    <2>2. CallsTyped'
        BY <1>1, <2>1 DEF CallsTyped, ScanCallers
    <2>3. UNCHANGED <<scanJobVars, scanLife, scanTimer, scanKnown, scanArmed, scanSub>>
        BY <1>10 DEF SweepNext
    <2> QED
        BY <1>1, <2>2, <2>3, JobsUnchanged DEF ScanInv, WatchTyped
<1>11. ASSUME NEW l \in ScanLibraries, PostScan(l) PROVE ScanInv'
    <2>1. JobsAgree'
        BY <1>1, <1>11, RegisterStep DEF PostScan
    <2> QED
        BY <1>1, <1>11, <2>1 DEF ScanInv, CallsTyped, WatchTyped, PostScan, scanWatchVars
<1>12. ASSUME NEW l \in ScanLibraries, ConnectStream(l) PROVE ScanInv'
    <2>1. scanSub'.queue = << >> /\ DOMAIN scanSub' = {"at", "run", "queue", "got"}
        BY <1>12 DEF ConnectStream, AnswerSnapshot, NoSub
    <2>2. UNCHANGED <<scanJobVars, scanLife, scanWatchVars>>
        BY <1>12 DEF ConnectStream
    <2>3. WatchTyped'
        BY <1>1, <2>1, <2>2, ScanAssumption DEF WatchTyped, scanWatchVars
    <2> QED
        BY <1>1, <2>2, <2>3, JobsUnchanged DEF ScanInv, CallsTyped, scanWatchVars
<1>13. ASSUME NEW c \in ScanCallers, Fire(c) \/ CheckRow(c) \/ Rearm(c) PROVE ScanInv'
    <2>1. scanCall[c].lib \in ScanLibraries
        BY <1>1, <1>13 DEF CallsTyped, Fire, CheckRow, Rearm
    <2>2. \/ scanCall' = [scanCall EXCEPT ![c] = NoCall]
          \/ \E at \in {"check", "admit", "rearm"} : scanCall' = [scanCall EXCEPT ![c] = [scanCall[c] EXCEPT !.at = at]]
        BY <1>1, <1>13 DEF Fire, CheckRow, Rearm, CallsTyped
    <2>3. CallsTyped'
        <3>1. CASE scanCall' = [scanCall EXCEPT ![c] = NoCall]
            BY <1>1, <1>2, <1>3, <2>1, <3>1 DEF CallsTyped
        <3>2. ASSUME NEW at \in {"check", "admit", "rearm"}, scanCall' = [scanCall EXCEPT ![c] = [scanCall[c] EXCEPT !.at = at]]
              PROVE  CallsTyped'
            BY <1>1, <2>1, <3>2 DEF CallsTyped
        <3> QED
            BY <2>2, <3>1, <3>2
    <2>4. scanTimer' \in [ScanLibraries -> {"none", "armed"}] /\ UNCHANGED <<scanJobVars, scanLife, scanKnown, scanArmed, scanSub>>
        BY <1>1, <1>4, <1>13, <2>1 DEF Fire, CheckRow, Rearm, WatchTyped
    <2> QED
        BY <1>1, <2>3, <2>4, JobsUnchanged DEF ScanInv, WatchTyped
<1>14. ASSUME NEW c \in ScanCallers, AdmitScan(c) PROVE ScanInv'
    <2>1. scanCall[c].lib \in ScanLibraries
        BY <1>1, <1>14 DEF CallsTyped, AdmitScan
    <2>2. CASE Open(scanCall[c].lib)
        <3>1. scanCall' = [scanCall EXCEPT ![c] = [scanCall[c] EXCEPT !.at = "rearm"]]
              /\ UNCHANGED <<scanJobVars, scanLife, scanTimer, scanKnown, scanArmed, scanSub>>
            BY <1>1, <1>14, <2>2 DEF AdmitScan, CallsTyped
        <3>2. CallsTyped'
            BY <1>1, <2>1, <3>1 DEF CallsTyped
        <3> QED
            BY <1>1, <3>1, <3>2, JobsUnchanged DEF ScanInv, WatchTyped
    <2>3. CASE ~Open(scanCall[c].lib)
        <3>1. scanCall' = [scanCall EXCEPT ![c] = NoCall] /\ Register(scanCall[c].lib)
              /\ UNCHANGED <<scanLife, scanTimer, scanKnown, scanArmed, scanSub>>
            BY <1>14, <2>3 DEF AdmitScan
        <3>2. JobsAgree'
            BY <1>1, <2>1, <2>3, <3>1, RegisterStep
        <3>3. CallsTyped'
            BY <1>1, <1>2, <1>3, <2>1, <3>1 DEF CallsTyped
        <3> QED
            BY <1>1, <3>1, <3>2, <3>3 DEF ScanInv, WatchTyped
    <2> QED
        BY <2>2, <2>3
<1>15. ASSUME NEW c \in ScanCallers, AdmitScanFails(c) PROVE ScanInv'
    <2> DEFINE l == scanCall[c].lib
    <2>1. l \in ScanLibraries /\ ~Open(l) /\ scanRuns' = [scanRuns EXCEPT ![l] = ScanNone] /\ scanCall' = [scanCall EXCEPT ![c] = NoCall]
          /\ UNCHANGED <<scanRow, scanLast, scanJob, scanLife, scanTimer, scanKnown, scanArmed, scanSub>>
        BY <1>1, <1>15 DEF CallsTyped, AdmitScanFails
    <2> HIDE DEF l
    <2>2. CallsTyped'
        BY <1>1, <1>2, <1>3, <2>1 DEF CallsTyped
    <2>3. JobsTyped'
        BY <1>1, <2>1 DEF JobsTyped
    <2>4. ASSUME NEW i \in ScanJobIds PROVE JobAgrees(i)'
        <3>1. JobAgrees(i) /\ i # ScanNone /\ scanJob'[i] = scanJob[i] /\ scanRow'[i] = scanRow[i]
            BY <1>1, <2>1, ScanAssumption DEF JobsAgree
        <3>2. scanJob[i].at \in {"launch", "scanning"} => scanJob[i].lib # l /\ scanRuns'[scanJob[i].lib] = i
            BY <1>1, <2>1, <3>1 DEF JobAgrees, Open, Closed, JobsTyped
        <3> QED
            BY <2>1, <3>1, <3>2 DEF JobAgrees
    <2> QED
        BY <1>1, <2>1, <2>2, <2>3, <2>4 DEF ScanInv, JobsAgree, WatchTyped
<1>16. ASSUME NEW j \in ScanJobIds, ScanGoroutine(j) PROVE ScanInv'
    <2>1. JobsAgree'
        BY <1>16, GoroutineKeeps
    <2>2. UNCHANGED <<scanWatchVars, scanLife>>
        BY <1>16 DEF ScanGoroutine, Launch, RunReturns, Unregister, Persist, FinishRun
    <2>3. scanSub' = scanSub \/ (scanSub' = Sent(j, scanJob[j].outcome))
        BY <1>16 DEF ScanGoroutine, Launch, RunReturns, Unregister, Persist, FinishRun
    <2>4. scanJob[j].outcome \in Statuses
        BY <1>1 DEF JobsTyped, JobRecord, Statuses
    <2>5. WatchTyped'
        <3>1. DOMAIN scanSub' = {"at", "run", "queue", "got"} /\ scanSub'.queue \in Seq(Statuses) /\ Len(scanSub'.queue) <= ScanChannel
            BY <1>1, <2>3, <2>4, SentKeeps DEF WatchTyped
        <3> QED
            BY <1>1, <2>2, <3>1 DEF WatchTyped, scanWatchVars
    <2> QED
        BY <1>1, <2>1, <2>2, <2>5 DEF ScanInv, CallsTyped, scanWatchVars
<1>17. ASSUME NEW j \in ScanJobIds, PublishRun(j) PROVE ScanInv'
    <2>1. "running" \in Statuses /\ scanSub' = Sent(j, "running") /\ UNCHANGED <<scanJobVars, scanLife, scanWatchVars>>
        BY <1>17 DEF PublishRun, Statuses
    <2>2. DOMAIN scanSub' = {"at", "run", "queue", "got"} /\ scanSub'.queue \in Seq(Statuses) /\ Len(scanSub'.queue) <= ScanChannel
        BY <1>1, <2>1, SentKeeps
    <2>3. WatchTyped'
        BY <1>1, <2>1, <2>2 DEF WatchTyped, scanWatchVars
    <2> QED
        BY <1>1, <2>1, <2>3, JobsUnchanged DEF ScanInv, CallsTyped, scanWatchVars
<1>18. CASE SubscribeRun \/ ReceiveEvent \/ Disconnect
    <2>1. UNCHANGED <<scanJobVars, scanLife, scanWatchVars>>
        BY <1>18 DEF SubscribeRun, ReceiveEvent, Disconnect
    <2>2. DOMAIN scanSub' = {"at", "run", "queue", "got"}
          /\ \/ scanSub'.queue \in {<< >>, scanSub.queue}
             \/ scanSub.queue # << >> /\ scanSub'.queue = Tail(scanSub.queue)
        BY <1>1, <1>3, <1>18 DEF SubscribeRun, ReceiveEvent, Disconnect, AnswerSnapshot, NoSub, WatchTyped
    <2>3. scanSub'.queue \in Seq(Statuses) /\ Len(scanSub'.queue) <= ScanChannel
        <3>1. scanSub.queue \in Seq(Statuses) /\ Len(scanSub.queue) <= ScanChannel /\ Len(<< >>) <= ScanChannel
            BY <1>1, ScanAssumption DEF WatchTyped
        <3>2. scanSub.queue # << >> => Tail(scanSub.queue) \in Seq(Statuses) /\ Len(Tail(scanSub.queue)) <= ScanChannel
            BY <3>1, ScanAssumption
        <3>3. scanSub'.queue \in {<< >>, scanSub.queue} => scanSub'.queue \in Seq(Statuses) /\ Len(scanSub'.queue) <= ScanChannel
            <4>1. << >> \in Seq(Statuses)
                OBVIOUS
            <4> QED
                BY <3>1, <4>1
        <3> QED
            BY <2>2, <3>2, <3>3
    <2>4. WatchTyped'
        BY <1>1, <2>1, <2>2, <2>3 DEF WatchTyped, scanWatchVars
    <2> QED
        BY <1>1, <2>1, <2>4, JobsUnchanged DEF ScanInv, CallsTyped, scanWatchVars
<1>19. CASE ShutDown
    <2>1. UNCHANGED <<scanJobVars, scanCall, scanKnown, scanArmed, scanSub>> /\ scanTimer' \in [ScanLibraries -> {"none", "armed"}]
        BY <1>1, <1>19 DEF ShutDown, WatchTyped
    <2>2. scanLife' \in {"cancelled", "closing", "down"} /\ (scanLife' = "down" => scanLife = "closing")
        BY <1>1, <1>19 DEF ShutDown, WatchTyped
    <2>3. ASSUME NEW i \in ScanJobIds PROVE JobAgrees(i)'
        <3>1. scanLife' = "down" => scanJob[i].at \in {"gone", "launch"}
            BY <1>1, <1>19, <2>2 DEF ShutDown
        <3>2. JobAgrees(i) /\ UNCHANGED <<scanRow, scanRuns, scanJob>>
            BY <1>1, <2>1 DEF JobsAgree, scanJobVars
        <3> QED
            BY <3>1, <3>2 DEF JobAgrees
    <2>4. JobsTyped'
        BY <1>1, <2>1 DEF JobsTyped, scanJobVars
    <2> QED
        BY <1>1, <2>1, <2>2, <2>3, <2>4 DEF ScanInv, JobsAgree, CallsTyped, WatchTyped
<1>20. CASE StartAgain
    <2>1. /\ scanJob' = [j \in ScanJobIds |-> NoJob] /\ scanLife' = "up" /\ scanRuns' = [l \in ScanLibraries |-> ScanNone]
          /\ scanRow' = [j \in ScanJobIds |-> IF scanRow[j] = "running" THEN "interrupted" ELSE scanRow[j]]
          /\ scanCall' = [c \in ScanCallers |-> NoCall] /\ scanTimer' = [l \in ScanLibraries |-> "none"]
          /\ scanArmed' = scanKnown /\ scanSub' = NoSub /\ UNCHANGED <<scanLast, scanKnown>>
        BY <1>20 DEF StartAgain
    <2>2. NoJob \in JobRecord /\ NoJob.at = "gone"
        BY DEF NoJob, JobRecord, JobStates
    <2>3. \A j \in ScanJobIds : scanRow'[j] \in Terminal \cup {"free"} /\ scanRow'[j] # "running"
        BY <1>1, <2>1 DEF JobsTyped, Terminal
    <2>4. JobsTyped'
        BY <1>1, <2>1, <2>2, <2>3 DEF JobsTyped
    <2>5. \A j \in ScanJobIds : JobAgrees(j)'
        BY <2>1, <2>2, <2>3 DEF JobAgrees
    <2>6. CallsTyped'
        BY <1>2, <1>3, <2>1 DEF CallsTyped, NoCall
    <2>7. WatchTyped'
        <3>1. << >> \in Seq(Statuses) /\ Len(<< >>) <= ScanChannel
            BY ScanAssumption
        <3>2. scanSub'.queue = << >> /\ DOMAIN scanSub' = {"at", "run", "queue", "got"}
            BY <1>3, <2>1
        <3> QED
            BY <1>1, <2>1, <3>1, <3>2 DEF WatchTyped
    <2> QED
        BY <2>4, <2>5, <2>6, <2>7 DEF ScanInv, JobsAgree
<1>21. CASE UNCHANGED scanVars
    BY <1>1, <1>21, JobsUnchanged DEF ScanInv, CallsTyped, WatchTyped, scanVars, scanWatchVars
<1> QED
    BY <1>5, <1>6, <1>7, <1>8, <1>9, <1>10, <1>11, <1>12, <1>13, <1>14, <1>15, <1>16, <1>17, <1>18, <1>19, <1>20, <1>21
       DEF ScanNext, ScanCaller

(* Whatever scans, timers and restarts do, each job is tracked as ScanInv says. *)
THEOREM ScanAlways == ScanSpec => []ScanInv
    BY ScanInitHolds, ScanStepKeeps, PTL DEF ScanSpec

(* Rows, registrations, goroutines, timers and the channel of a client keep their types; no channel overflows. *)
THEOREM ScanTypeCorrect == ScanSpec => []ScanTypeOK
<1>1. ScanInv => ScanTypeOK
    <2> SUFFICES ASSUME ScanInv PROVE ScanTypeOK
        OBVIOUS
    <2>1. JobsTyped /\ WatchTyped /\ \A j \in ScanJobIds : JobAgrees(j)
        BY DEF ScanInv, JobsAgree
    <2>2. ASSUME NEW j \in ScanJobIds PROVE scanJob[j].failed \in 0..3 /\ (scanJob[j].at = "gone" \/ scanJob[j].lib \in ScanLibraries)
        BY <2>1 DEF JobsTyped, JobRecord, JobAgrees
    <2> QED
        BY <2>1, <2>2 DEF ScanTypeOK, JobsTyped, WatchTyped
<1> QED
    BY <1>1, ScanAlways, PTL

(* Every scan under way is registered for its library, a run that is over left its row running only after three writes of it
   failed, and once WaitJobs returned no scan runs: for every number of libraries, callers, failures and restarts. *)
THEOREM ScansStayTracked == ScanSpec => []ScansAreTracked
<1>1. ScanInv => ScansAreTracked
    <2> SUFFICES ASSUME ScanInv PROVE ScansAreTracked
        OBVIOUS
    <2>1. \A j \in ScanJobIds : JobAgrees(j)
        BY DEF ScanInv, JobsAgree
    <2>2. RunsStayVisible
        BY <2>1 DEF RunsStayVisible, JobAgrees
    <2>3. RowsSettle
        BY <2>1 DEF RowsSettle, JobAgrees
    <2>4. NoScanAfterWait
        BY <2>1 DEF NoScanAfterWait, JobAgrees
    <2> QED
        BY <2>2, <2>3, <2>4 DEF ScansAreTracked
<1> QED
    BY <1>1, ScanAlways, PTL

-----------------------------------------------------------------------------
(* Playlists.                                                              *)

(* Positions are numbers from 1 on, and no two items have the same. *)
Ordered(items) ==
    /\ items = [e \in DOMAIN items |-> items[e]]
    /\ \A e \in DOMAIN items : items[e] \in Nat \ {0}
    /\ \A e, f \in DOMAIN items : items[e] = items[f] => e = f

PlRowsAgree ==
    /\ plKnown \subseteq PlEditions /\ DOMAIN plRows \subseteq 1..PlMaxId
    /\ plRows = [i \in DOMAIN plRows |-> plRows[i]]
    /\ \A i \in DOMAIN plRows :
          /\ plRows[i] = [owner |-> plRows[i].owner, items |-> plRows[i].items]
          /\ Ordered(plRows[i].items) /\ DOMAIN plRows[i].items \subseteq plKnown

IsPlRequest(k) ==
    /\ k = [op |-> k.op, user |-> k.user, id |-> k.id, edition |-> k.edition, position |-> k.position,
             list |-> k.list, gone |-> k.gone]
    /\ k.op = "replace" => k.list \in Lists
    /\ k.op = "reorder" => k.position \in Nat

PlRequestsAgree ==
    /\ plRequests = [r \in PlRequests |-> plRequests[r]]
    /\ \A r \in PlRequests : IsPlRequest(plRequests[r])

PlInv == PlRowsAgree /\ PlRequestsAgree

-----------------------------------------------------------------------------
(* Positions.                                                              *)

LEMMA MaxIsLargest ==
    ASSUME NEW S \in SUBSET Nat, S # {}, NEW b \in Nat, \A x \in S : x <= b
    PROVE  Max(S) \in S /\ \A x \in S : x <= Max(S)
<1> DEFINE U == {n \in Nat : \A x \in S : x <= n}
<1>1. PICK n \in U : \A m \in U : n <= m
    <2>1. b \in U /\ U \in SUBSET Nat /\ U # {}
        OBVIOUS
    <2> HIDE DEF U
    <2> QED
        BY <2>1, LeastNatural
<1>2. n \in Nat /\ \A x \in S : x <= n
    OBVIOUS
<1>3. n \in S
    <2> SUFFICES ASSUME n \notin S PROVE FALSE
        OBVIOUS
    <2>1. \A x \in S : x \in Nat /\ x <= n /\ x # n
        BY <1>2
    <2>2. PICK x \in S : TRUE
        OBVIOUS
    <2>3. n - 1 \in Nat
        BY <1>2, <2>1, <2>2
    <2>4. \A y \in S : y <= n - 1
        BY <1>2, <2>1
    <2>5. n - 1 \in U
        BY <2>3, <2>4
    <2>6. n <= n - 1
        BY <1>1, <2>5
    <2> QED
        BY <1>2, <2>6
<1>4. \E m \in S : \A x \in S : m >= x
    BY <1>2, <1>3
<1>5. Max(S) \in S /\ \A x \in S : Max(S) >= x
    BY <1>4, Zenon DEF Max
<1> QED
    BY <1>5

(* A sum of positions is ahead of each of them. *)
LEMMA PositionsAreBounded ==
    ASSUME NEW items, Ordered(items), IsFiniteSet(DOMAIN items)
    PROVE  \E b \in Nat : \A e \in DOMAIN items : items[e] <= b
<1> DEFINE D == DOMAIN items
           b == SumFunctionOnSet(items, D)
<1>1. \A e \in D : items[e] \in Nat
    BY DEF Ordered
<1>2. b \in Nat
    BY <1>1, SumNat
<1>3. ASSUME NEW e \in D PROVE items[e] <= b
    <2>1. \A x \in D : items[x] \in Int
        BY <1>1
    <2>2. b = items[e] + SumFunctionOnSet(items, D \ {e})
        BY <2>1, SumRemove
    <2>3. SumFunctionOnSet(items, D \ {e}) \in Nat
        <3>1. IsFiniteSet(D \ {e}) /\ \A x \in D \ {e} : items[x] \in Nat
            BY <1>1, FS_Subset
        <3> QED
            BY <3>1, SumNat
    <2>4. items[e] \in Nat
        BY <1>1
    <2> HIDE DEF b, D
    <2> QED
        BY <1>2, <2>2, <2>3, <2>4
<1> QED
    BY <1>2, <1>3

(* Two lists of items have the same order on what both hold, but for one item. *)
SameOrder(before, after) ==
    LET both == DOMAIN before \cap DOMAIN after IN \A e, f \in both : before[e] < before[f] <=> after[e] < after[f]
AllButOne(before, after) ==
    LET both == DOMAIN before \cap DOMAIN after IN
    both = {} \/ \E m \in both : \A e, f \in both \ {m} : before[e] < before[f] <=> after[e] < after[f]

LEMMA SameOrderSuffices == ASSUME NEW before, NEW after, SameOrder(before, after) PROVE AllButOne(before, after)
    BY DEF SameOrder, AllButOne

(* The rank of an item orders the items as their positions do. *)
LEMMA CompactedIsOrdered ==
    ASSUME NEW items, IsFiniteSet(DOMAIN items), \A e \in DOMAIN items : items[e] \in Int,
           \A e, f \in DOMAIN items : items[e] = items[f] => e = f
    PROVE  /\ Ordered(Compacted(items)) /\ DOMAIN Compacted(items) = DOMAIN items
           /\ \A e, f \in DOMAIN items : items[e] < items[f] <=> Compacted(items)[e] < Compacted(items)[f]
<1> DEFINE D == DOMAIN items
           Up(e) == {f \in D : items[f] <= items[e]}
<1>1. \A e \in D : Compacted(items)[e] = Cardinality(Up(e))
    BY DEF Compacted, Rank
<1>2. DOMAIN Compacted(items) = D /\ Compacted(items) = [e \in D |-> Compacted(items)[e]]
    BY DEF Compacted
<1>3. ASSUME NEW e \in D PROVE Cardinality(Up(e)) \in Nat \ {0} /\ IsFiniteSet(Up(e))
    <2>1. Up(e) \in SUBSET D
        OBVIOUS
    <2>2. e \in Up(e)
        OBVIOUS
    <2> HIDE DEF Up
    <2>3. IsFiniteSet(Up(e))
        BY <2>1, FS_Subset
    <2>4. Cardinality(Up(e)) \in Nat /\ Cardinality(Up(e)) # 0
        BY <2>2, <2>3, FS_CardinalityType, FS_EmptySet
    <2> QED
        BY <2>3, <2>4
<1>4. ASSUME NEW e \in D, NEW f \in D, items[e] < items[f] PROVE Cardinality(Up(e)) < Cardinality(Up(f))
    <2>1. Up(e) \in SUBSET Up(f)
        <3>1. \A x \in D : items[x] <= items[e] => items[x] <= items[f]
            BY <1>4
        <3> QED
            BY <3>1
    <2>2. f \in Up(f) /\ f \notin Up(e)
        BY <1>4
    <2>3. IsFiniteSet(Up(f)) /\ Cardinality(Up(f)) \in Nat /\ Cardinality(Up(e)) \in Nat
        BY <1>3
    <2> HIDE DEF Up
    <2>4. Cardinality(Up(e)) <= Cardinality(Up(f)) /\ Cardinality(Up(e)) # Cardinality(Up(f))
        BY <2>1, <2>2, <2>3, FS_Subset
    <2> QED
        BY <2>3, <2>4
<1> HIDE DEF Up
<1>5. ASSUME NEW e \in D, NEW f \in D PROVE items[e] < items[f] <=> Cardinality(Up(e)) < Cardinality(Up(f))
    <2>1. items[e] \in Int /\ items[f] \in Int /\ Cardinality(Up(e)) \in Nat /\ Cardinality(Up(f)) \in Nat
        BY <1>3
    <2>2. items[e] = items[f] => e = f
        OBVIOUS
    <2>3. items[f] < items[e] => Cardinality(Up(f)) < Cardinality(Up(e))
        BY <1>4
    <2> QED
        BY <1>4, <2>1, <2>2, <2>3
<1>6. \A e, f \in D : Cardinality(Up(e)) = Cardinality(Up(f)) => e = f
    <2> SUFFICES ASSUME NEW e \in D, NEW f \in D, Cardinality(Up(e)) = Cardinality(Up(f)) PROVE e = f
        OBVIOUS
    <2>1. Cardinality(Up(e)) \in Nat
        BY <1>3
    <2>2. ~(items[e] < items[f]) /\ ~(items[f] < items[e])
        BY <1>5, <2>1
    <2> QED
        BY <2>2
<1> QED
    BY <1>1, <1>2, <1>3, <1>5, <1>6 DEF Ordered

LEMMA WithoutIsOrdered ==
    ASSUME NEW items, Ordered(items), NEW gone
    PROVE  /\ Ordered(WithoutItem(items, gone)) /\ DOMAIN WithoutItem(items, gone) = DOMAIN items \ gone
           /\ \A e \in DOMAIN items \ gone : WithoutItem(items, gone)[e] = items[e]
    BY DEF Ordered, WithoutItem

(* A new item comes after all others. *)
LEMMA AppendedIsOrdered ==
    ASSUME NEW items, Ordered(items), IsFiniteSet(DOMAIN items), NEW e
    PROVE  /\ Ordered(Appended(items, e)) /\ DOMAIN Appended(items, e) = DOMAIN items \cup {e}
           /\ \A f \in DOMAIN items : Appended(items, e)[f] = items[f]
<1>1. CASE e \in DOMAIN items
    BY <1>1 DEF Appended
<1>2. CASE e \notin DOMAIN items
    <2> DEFINE D == DOMAIN items
               S == {0} \cup {items[g] : g \in D}
               n == Max(S)
    <2>1. \A f \in D : items[f] \in Nat \ {0}
        BY DEF Ordered
    <2>2. PICK b \in Nat : \A f \in D : items[f] <= b
        BY PositionsAreBounded
    <2>3. S \in SUBSET Nat /\ S # {} /\ \A x \in S : x <= b
        BY <2>1, <2>2
    <2>4. n \in S /\ \A x \in S : x <= n
        <3> HIDE DEF S
        <3> QED
            BY <2>3, MaxIsLargest
    <2>5. n \in Nat /\ \A f \in D : items[f] <= n
        <3>1. \A f \in D : items[f] \in S
            OBVIOUS
        <3> HIDE DEF S, n
        <3> QED
            BY <2>3, <2>4, <3>1
    <2>6. Appended(items, e) = [f \in D \cup {e} |-> IF f = e THEN n + 1 ELSE items[f]]
        BY <1>2 DEF Appended
    <2> HIDE DEF S, n
    <2>7. DOMAIN Appended(items, e) = D \cup {e} /\ Appended(items, e)[e] = n + 1
          /\ \A f \in D : Appended(items, e)[f] = items[f]
        BY <1>2, <2>6
    <2>8. \A f \in D : items[f] # n + 1
        BY <2>1, <2>5
    <2>9. \A f, g \in D : items[f] = items[g] => f = g
        BY DEF Ordered
    <2>10. Appended(items, e) = [f \in DOMAIN Appended(items, e) |-> Appended(items, e)[f]]
        BY <2>6
    <2>11. n + 1 \in Nat \ {0}
        BY <2>5
    <2>12. \A f, g \in D \cup {e} : Appended(items, e)[f] = Appended(items, e)[g] => f = g
        BY <2>7, <2>8, <2>9
    <2>13. \A f \in D \cup {e} : Appended(items, e)[f] \in Nat \ {0}
        BY <2>1, <2>7, <2>11
    <2>14. Ordered(Appended(items, e))
        BY <2>7, <2>10, <2>12, <2>13 DEF Ordered
    <2> QED
        BY <2>7, <2>14
<1> QED
    BY <1>1, <1>2

(* Making room for one item moves no two others past each other. *)
LEMMA ReorderedIsOrdered ==
    ASSUME NEW items, Ordered(items), IsFiniteSet(DOMAIN items), NEW e \in DOMAIN items, NEW n \in Nat
    PROVE  /\ Ordered(Reordered(items, e, n)) /\ DOMAIN Reordered(items, e, n) = DOMAIN items
           /\ \A f, g \in DOMAIN items \ {e} : items[f] < items[g] <=> Reordered(items, e, n)[f] < Reordered(items, e, n)[g]
<1> DEFINE D == DOMAIN items
           old == items[e]
           new == IF n > Cardinality(D) THEN Cardinality(D) ELSE n
           Moved(f) == IF f = e THEN new
                       ELSE IF new > old /\ items[f] > old /\ items[f] <= new THEN items[f] - 1
                       ELSE IF new < old /\ items[f] >= new /\ items[f] < old THEN items[f] + 1
                       ELSE items[f]
           moved == [f \in D |-> Moved(f)]
<1>1. Reordered(items, e, n) = IF new = old THEN items ELSE Compacted(moved)
    BY DEF Reordered
<1>2. \A f \in D : items[f] \in Nat
    BY DEF Ordered
<1>3. \A f, g \in D : items[f] = items[g] => f = g
    BY DEF Ordered
<1>4. new \in Nat /\ old \in Nat
    BY <1>2, FS_CardinalityType
<1> HIDE DEF new
<1>5. DOMAIN moved = D /\ \A f \in D : moved[f] = Moved(f)
    OBVIOUS
<1>6. ASSUME NEW f \in D PROVE Moved(f) \in Int
    <2>1. items[f] \in Nat
        BY <1>2
    <2> QED
        BY <1>4, <2>1
<1>7. ASSUME NEW f \in D \ {e}, NEW g \in D \ {e}, new # old PROVE items[f] < items[g] <=> Moved(f) < Moved(g)
    <2>1. items[f] \in Nat /\ items[g] \in Nat /\ items[f] # old /\ items[g] # old
        BY <1>2, <1>3
    <2> HIDE DEF old
    <2> QED
        BY <1>4, <2>1
<1>8. ASSUME NEW f \in D \ {e}, new # old PROVE Moved(f) # new
    <2>1. items[f] \in Nat /\ items[f] # old
        BY <1>2, <1>3
    <2> HIDE DEF old
    <2> QED
        BY <1>4, <1>8, <2>1
<1>9. ASSUME NEW f \in D, NEW g \in D, new # old, Moved(f) = Moved(g) PROVE f = g
    <2>1. CASE f = e \/ g = e
        <3>1. Moved(e) = new
            OBVIOUS
        <3> HIDE DEF Moved
        <3> QED
            BY <1>8, <1>9, <2>1, <3>1
    <2>2. CASE f # e /\ g # e
        <3>1. Moved(f) \in Int /\ Moved(g) \in Int /\ items[f] \in Nat /\ items[g] \in Nat
            BY <1>2, <1>6
        <3>2. items[f] < items[g] <=> Moved(f) < Moved(g)
            BY <1>7, <1>9, <2>2
        <3>3. items[g] < items[f] <=> Moved(g) < Moved(f)
            BY <1>7, <1>9, <2>2
        <3> HIDE DEF Moved
        <3>4. items[f] = items[g]
            BY <1>9, <3>1, <3>2, <3>3
        <3> QED
            BY <1>3, <3>4
    <2> QED
        BY <2>1, <2>2
<1> HIDE DEF Moved, moved
<1>10. CASE new = old
    BY <1>1, <1>10
<1>11. CASE new # old
    <2>1. /\ IsFiniteSet(DOMAIN moved) /\ \A f \in DOMAIN moved : moved[f] \in Int
          /\ \A f, g \in DOMAIN moved : moved[f] = moved[g] => f = g
        BY <1>5, <1>6, <1>9, <1>11
    <2>2. /\ Ordered(Compacted(moved)) /\ DOMAIN Compacted(moved) = DOMAIN moved
          /\ \A f, g \in DOMAIN moved : moved[f] < moved[g] <=> Compacted(moved)[f] < Compacted(moved)[g]
        BY <2>1, CompactedIsOrdered
    <2>3. \A f, g \in D \ {e} : items[f] < items[g] <=> moved[f] < moved[g]
        BY <1>5, <1>7, <1>11
    <2> QED
        BY <1>1, <1>5, <1>11, <2>2, <2>3
<1> QED
    BY <1>10, <1>11

LEMMA ListedIsOrdered ==
    ASSUME NEW list \in Lists
    PROVE  Ordered(Listed(list)) /\ DOMAIN Listed(list) = {list[i] : i \in DOMAIN list}
<1>1. PICK n \in 0..Cardinality(PlEditions) : list \in [1..n -> PlEditions] /\ \A i, j \in 1..n : list[i] = list[j] => i = j
    BY DEF Lists
<1>2. n \in Nat
    BY <1>1, PlAssumption, FS_CardinalityType
<1> DEFINE At(e) == CHOOSE i \in DOMAIN list : list[i] = e
<1>3. ASSUME NEW e \in {list[i] : i \in DOMAIN list} PROVE At(e) \in DOMAIN list /\ list[At(e)] = e
    <2>1. \E i \in DOMAIN list : list[i] = e
        OBVIOUS
    <2> QED
        BY <2>1, Zenon
<1>4. DOMAIN list = 1..n
    BY <1>1
<1>5. /\ DOMAIN Listed(list) = {list[i] : i \in DOMAIN list}
      /\ \A e \in DOMAIN Listed(list) : Listed(list)[e] = At(e)
      /\ Listed(list) = [e \in DOMAIN Listed(list) |-> Listed(list)[e]]
    BY DEF Listed
<1> HIDE DEF At
<1>6. \A e \in DOMAIN Listed(list) : Listed(list)[e] \in Nat \ {0}
    BY <1>2, <1>3, <1>4, <1>5
<1>7. \A e, f \in DOMAIN Listed(list) : Listed(list)[e] = Listed(list)[f] => e = f
    BY <1>3, <1>5
<1> QED
    BY <1>5, <1>6, <1>7 DEF Ordered

-----------------------------------------------------------------------------
(* Steps of playlists.                                                     *)

LEMMA PlInitHolds == PlInit => PlInv
<1> SUFFICES ASSUME PlInit PROVE PlInv
    OBVIOUS
<1>1. DOMAIN plRows = {} /\ plRows = [i \in DOMAIN plRows |-> plRows[i]]
    BY DEF PlInit
<1>2. IsPlRequest(NoRequest)
    BY DEF IsPlRequest, NoRequest
<1>3. PlRowsAgree
    BY <1>1 DEF PlInit, PlRowsAgree
<1>4. PlRequestsAgree
    BY <1>2 DEF PlInit, PlRequestsAgree
<1> QED
    BY <1>3, <1>4 DEF PlInv

LEMMA RequestChanges ==
    ASSUME PlRequestsAgree, NEW r \in PlRequests, NEW k, IsPlRequest(k), plRequests' = [plRequests EXCEPT ![r] = k]
    PROVE  PlRequestsAgree'
<1>1. DOMAIN plRequests = PlRequests
    BY DEF PlRequestsAgree
<1>2. plRequests' = [q \in PlRequests |-> IF q = r THEN k ELSE plRequests[q]]
    BY <1>1
<1>3. \A q \in PlRequests : IsPlRequest(plRequests'[q])
    BY <1>2 DEF PlRequestsAgree
<1> QED
    BY <1>2, <1>3 DEF PlRequestsAgree, IsPlRequest

LEMMA NoneIsRequest == IsPlRequest(NoRequest) /\ NoRequest.op = "none"
    BY DEF IsPlRequest, NoRequest

LEMMA KnownIsFinite == ASSUME PlInv, NEW S, S \subseteq plKnown PROVE IsFiniteSet(S)
<1>1. S \in SUBSET PlEditions
    BY DEF PlInv, PlRowsAgree
<1> QED
    BY <1>1, PlAssumption, FS_Subset

LEMMA ItemsAre ==
    ASSUME PlInv, NEW r \in PlRequests
    PROVE  Ordered(Items(r)) /\ IsFiniteSet(DOMAIN Items(r)) /\ DOMAIN Items(r) \subseteq plKnown
<1>1. CASE plRequests[r].id \in DOMAIN plRows
    <2>1. Ordered(Items(r)) /\ DOMAIN Items(r) \subseteq plKnown
        BY <1>1 DEF Items, PlInv, PlRowsAgree
    <2> QED
        BY <2>1, KnownIsFinite
<1>2. CASE plRequests[r].id \notin DOMAIN plRows
    <2>1. Items(r) = [e \in {} |-> 0]
        BY <1>2 DEF Items, NoItems
    <2>2. Ordered(Items(r)) /\ DOMAIN Items(r) \subseteq plKnown
        BY <2>1 DEF Ordered
    <2> QED
        BY <2>2, KnownIsFinite
<1> QED
    BY <1>1, <1>2

(* What the last transaction of a request makes of the rows. *)
LEMMA ChangesKeep ==
    ASSUME PlInv, NEW r \in PlRequests, NEW op, NEW items, Ordered(items), DOMAIN items \subseteq plKnown, Changes(r, op, items)
    PROVE  /\ PlInv' /\ DOMAIN plRows' = DOMAIN plRows
           /\ \A i \in DOMAIN plRows : plRows'[i].items = IF i = plRequests[r].id THEN items ELSE plRows[i].items
<1> DEFINE id == plRequests[r].id
<1>1. PlRequestsAgree'
    BY RequestChanges, NoneIsRequest DEF Changes, PlInv
<1>2. plKnown' = plKnown
    BY DEF Changes
<1>3. CASE id \notin DOMAIN plRows
    <2>1. plRows' = plRows
        BY <1>3 DEF Changes
    <2>2. PlRowsAgree'
        BY <1>2, <2>1 DEF PlInv, PlRowsAgree, Ordered
    <2> QED
        BY <1>1, <1>3, <2>1, <2>2 DEF PlInv
<1>4. CASE id \in DOMAIN plRows
    <2> DEFINE k == [owner |-> plRows[id].owner, items |-> items]
    <2>1. plRows[id] = [owner |-> plRows[id].owner, items |-> plRows[id].items]
        BY <1>4 DEF PlInv, PlRowsAgree
    <2>2. [plRows[id] EXCEPT !.items = items] = k
        BY <2>1
    <2>3. plRows' = [plRows EXCEPT ![id] = k]
        BY <1>4, <2>2 DEF Changes
    <2>4. k = [owner |-> k.owner, items |-> k.items] /\ k.items = items
        OBVIOUS
    <2> HIDE DEF k
    <2>5. DOMAIN plRows' = DOMAIN plRows /\ plRows' = [i \in DOMAIN plRows' |-> plRows'[i]]
        BY <2>3 DEF PlInv, PlRowsAgree
    <2>6. \A i \in DOMAIN plRows : plRows'[i] = IF i = id THEN k ELSE plRows[i]
        BY <2>3 DEF PlInv, PlRowsAgree
    <2>7. ASSUME NEW i \in DOMAIN plRows
          PROVE  /\ plRows'[i] = [owner |-> plRows'[i].owner, items |-> plRows'[i].items]
                 /\ Ordered(plRows'[i].items) /\ DOMAIN plRows'[i].items \subseteq plKnown
        BY <2>4, <2>6 DEF PlInv, PlRowsAgree
    <2>8. PlRowsAgree'
        BY <1>2, <2>5, <2>7 DEF PlInv, PlRowsAgree, Ordered
    <2> QED
        BY <1>1, <2>4, <2>5, <2>6, <2>8 DEF PlInv
<1> QED
    BY <1>3, <1>4

LEMMA UnchangedKeepsOrder == ASSUME NEW items PROVE AllButOne(items, items)
    BY DEF AllButOne

LEMMA AddSteps ==
    ASSUME PlInv, NEW r \in PlRequests, PlaylistItemAdd(r)
    PROVE  \E items : Changes(r, "add", items) /\ Ordered(items) /\ DOMAIN items \subseteq plKnown /\ AllButOne(Items(r), items)
<1> DEFINE e == plRequests[r].edition
<1>1. CASE e \in plKnown
    <2>1. Changes(r, "add", Appended(Items(r), e))
        BY <1>1 DEF PlaylistItemAdd
    <2>2. /\ Ordered(Appended(Items(r), e)) /\ DOMAIN Appended(Items(r), e) = DOMAIN Items(r) \cup {e}
          /\ \A f \in DOMAIN Items(r) : Appended(Items(r), e)[f] = Items(r)[f]
        BY ItemsAre, AppendedIsOrdered
    <2>3. SameOrder(Items(r), Appended(Items(r), e))
        BY <2>2 DEF SameOrder
    <2> QED
        BY <1>1, <2>1, <2>2, <2>3, ItemsAre, SameOrderSuffices
<1>2. CASE e \notin plKnown
    <2>1. Changes(r, "add", Items(r))
        BY <1>2 DEF PlaylistItemAdd
    <2> QED
        BY <2>1, ItemsAre, UnchangedKeepsOrder
<1> QED
    BY <1>1, <1>2

LEMMA RemoveSteps ==
    ASSUME PlInv, NEW r \in PlRequests, PlaylistItemRemove(r)
    PROVE  \E items : Changes(r, "remove", items) /\ Ordered(items) /\ DOMAIN items \subseteq plKnown /\ AllButOne(Items(r), items)
<1> DEFINE e == plRequests[r].edition
           kept == WithoutItem(Items(r), {e})
<1>1. CASE e \in DOMAIN Items(r)
    <2>1. Changes(r, "remove", Compacted(kept))
        BY <1>1 DEF PlaylistItemRemove
    <2>2. /\ Ordered(kept) /\ DOMAIN kept = DOMAIN Items(r) \ {e}
          /\ \A f \in DOMAIN Items(r) \ {e} : kept[f] = Items(r)[f]
        BY ItemsAre, WithoutIsOrdered
    <2> HIDE DEF kept
    <2>3. IsFiniteSet(DOMAIN kept) /\ DOMAIN kept \subseteq plKnown
        BY <2>2, ItemsAre, KnownIsFinite
    <2>4. (\A f \in DOMAIN kept : kept[f] \in Int) /\ \A f, g \in DOMAIN kept : kept[f] = kept[g] => f = g
        BY <2>2 DEF Ordered
    <2>5. /\ Ordered(Compacted(kept)) /\ DOMAIN Compacted(kept) = DOMAIN kept
          /\ \A f, g \in DOMAIN kept : kept[f] < kept[g] <=> Compacted(kept)[f] < Compacted(kept)[g]
        BY <2>3, <2>4, CompactedIsOrdered
    <2>6. SameOrder(Items(r), Compacted(kept))
        BY <2>2, <2>5 DEF SameOrder
    <2> QED
        BY <2>1, <2>3, <2>5, <2>6, SameOrderSuffices
<1>2. CASE e \notin DOMAIN Items(r)
    <2>1. Changes(r, "remove", Items(r))
        BY <1>2 DEF PlaylistItemRemove
    <2> QED
        BY <2>1, ItemsAre, UnchangedKeepsOrder
<1> QED
    BY <1>1, <1>2

LEMMA ReorderSteps ==
    ASSUME PlInv, NEW r \in PlRequests, PlaylistItemReorder(r)
    PROVE  \E items : Changes(r, "reorder", items) /\ Ordered(items) /\ DOMAIN items \subseteq plKnown /\ AllButOne(Items(r), items)
<1> DEFINE e == plRequests[r].edition
           n == plRequests[r].position
           after == Reordered(Items(r), e, n)
<1>1. CASE e \in DOMAIN Items(r)
    <2>1. Changes(r, "reorder", after)
        BY <1>1 DEF PlaylistItemReorder
    <2>2. plRequests[r].op = "reorder"
        BY <2>1 DEF Changes
    <2>3. n \in Nat
        BY <2>2 DEF PlInv, PlRequestsAgree, IsPlRequest
    <2> HIDE DEF n
    <2>4. /\ Ordered(after) /\ DOMAIN after = DOMAIN Items(r)
          /\ \A f, g \in DOMAIN Items(r) \ {e} : Items(r)[f] < Items(r)[g] <=> after[f] < after[g]
        BY <1>1, <2>3, ItemsAre, ReorderedIsOrdered
    <2> HIDE DEF after
    <2>5. AllButOne(Items(r), after)
        BY <1>1, <2>4 DEF AllButOne
    <2>6. DOMAIN after \subseteq plKnown
        BY <2>4, ItemsAre
    <2> QED
        BY <2>1, <2>4, <2>5, <2>6
<1>2. CASE e \notin DOMAIN Items(r)
    <2>1. Changes(r, "reorder", Items(r))
        BY <1>2 DEF PlaylistItemReorder
    <2> QED
        BY <2>1, ItemsAre, UnchangedKeepsOrder
<1> QED
    BY <1>1, <1>2

LEMMA DeltaSteps ==
    ASSUME PlInv, NEW r \in PlRequests, UpdatePlaylistDelta(r)
    PROVE  \E items : Changes(r, "delta", items) /\ Ordered(items) /\ DOMAIN items \subseteq plKnown /\ AllButOne(Items(r), items)
<1> DEFINE e == plRequests[r].edition
           kept == WithoutItem(Items(r), plRequests[r].gone)
<1>1. Changes(r, "delta", IF e \in plKnown THEN Appended(kept, e) ELSE Items(r))
    BY DEF UpdatePlaylistDelta
<1>2. /\ Ordered(kept) /\ DOMAIN kept \subseteq DOMAIN Items(r)
      /\ \A f \in DOMAIN kept : kept[f] = Items(r)[f]
    <2> DEFINE gone == plRequests[r].gone
    <2>1. Ordered(Items(r))
        BY ItemsAre
    <2> HIDE DEF gone
    <2>2. /\ Ordered(WithoutItem(Items(r), gone)) /\ DOMAIN WithoutItem(Items(r), gone) = DOMAIN Items(r) \ gone
          /\ \A f \in DOMAIN Items(r) \ gone : WithoutItem(Items(r), gone)[f] = Items(r)[f]
        BY <2>1, WithoutIsOrdered
    <2> QED
        BY <2>2 DEF gone
<1> HIDE DEF kept
<1>3. IsFiniteSet(DOMAIN kept) /\ DOMAIN kept \subseteq plKnown
    BY <1>2, ItemsAre, KnownIsFinite
<1>4. CASE e \in plKnown
    <2> DEFINE after == Appended(kept, e)
    <2>1. Ordered(after) /\ DOMAIN after = DOMAIN kept \cup {e} /\ \A f \in DOMAIN kept : after[f] = kept[f]
        BY <1>2, <1>3, AppendedIsOrdered
    <2>2. Changes(r, "delta", after)
        BY <1>1, <1>4
    <2> HIDE DEF after
    <2>3. \A f \in (DOMAIN Items(r) \cap DOMAIN after) \ {e} : after[f] = Items(r)[f]
        BY <1>2, <2>1
    <2>4. AllButOne(Items(r), after)
        <3> DEFINE both == DOMAIN Items(r) \cap DOMAIN after
        <3>1. CASE e \in both
            BY <2>3, <3>1 DEF AllButOne
        <3>2. CASE e \notin both
            <4>1. \A f \in both : after[f] = Items(r)[f]
                BY <2>3, <3>2
            <4>2. SameOrder(Items(r), after)
                BY <4>1 DEF SameOrder
            <4> QED
                BY <4>2, SameOrderSuffices
        <3> QED
            BY <3>1, <3>2
    <2>5. DOMAIN after \subseteq plKnown
        BY <1>3, <1>4, <2>1
    <2> QED
        BY <2>1, <2>2, <2>4, <2>5
<1>5. CASE e \notin plKnown
    <2>1. Changes(r, "delta", Items(r))
        BY <1>1, <1>5
    <2> QED
        BY <2>1, ItemsAre, UnchangedKeepsOrder
<1> QED
    BY <1>4, <1>5

LEMMA ReplaceSteps ==
    ASSUME PlInv, NEW r \in PlRequests, ReplacePlaylist(r)
    PROVE  /\ \E items : Changes(r, "replace", items) /\ Ordered(items) /\ DOMAIN items \subseteq plKnown
           /\ plRequests[r].op = "replace" /\ plRequests'[r] # plRequests[r]
<1> DEFINE list == plRequests[r].list
<1>1. Changes(r, "replace", IF {list[i] : i \in DOMAIN list} \subseteq plKnown THEN Listed(list) ELSE Items(r))
    BY DEF ReplacePlaylist
<1>2. plRequests[r].op = "replace" /\ plRequests' = [plRequests EXCEPT ![r] = NoRequest]
    BY <1>1 DEF Changes
<1>3. plRequests'[r] = NoRequest
    BY <1>2 DEF PlInv, PlRequestsAgree
<1>4. list \in Lists
    BY <1>2 DEF PlInv, PlRequestsAgree, IsPlRequest
<1>5. Ordered(Listed(list)) /\ DOMAIN Listed(list) = {list[i] : i \in DOMAIN list}
    BY <1>4, ListedIsOrdered
<1>6. CASE {list[i] : i \in DOMAIN list} \subseteq plKnown
    <2>1. Changes(r, "replace", Listed(list))
        BY <1>1, <1>6
    <2> QED
        BY <1>2, <1>3, <1>5, <1>6, <2>1, NoneIsRequest
<1>7. CASE ~({list[i] : i \in DOMAIN list} \subseteq plKnown)
    <2>1. Changes(r, "replace", Items(r))
        BY <1>1, <1>7
    <2> QED
        BY <1>2, <1>3, <2>1, ItemsAre, NoneIsRequest
<1> QED
    BY <1>6, <1>7

LEMMA CreateSteps ==
    ASSUME PlInv, NEW u, NEW list \in Lists, Create(u, list)
    PROVE  PlInv' /\ \A i \in DOMAIN plRows \cap DOMAIN plRows' : plRows'[i] = plRows[i]
<1> DEFINE S == DOMAIN plRows \cup {0}
           id == Max(S) + 1
           k == [owner |-> u, items |-> Listed(list)]
<1>1. DOMAIN plRows \subseteq 1..PlMaxId /\ PlMaxId \in Nat
    BY PlAssumption DEF PlInv, PlRowsAgree
<1>2. Max(S) \in S /\ \A x \in S : x <= Max(S)
    <2>1. S \in SUBSET Nat /\ S # {} /\ \A x \in S : x <= PlMaxId
        BY <1>1
    <2> HIDE DEF S
    <2> QED
        BY <1>1, <2>1, MaxIsLargest
<1>3. id <= PlMaxId /\ {list[i] : i \in DOMAIN list} \subseteq plKnown /\ plKnown' = plKnown /\ plRequests' = plRequests
      /\ plRows' = [i \in DOMAIN plRows \cup {id} |-> IF i = id THEN k ELSE plRows[i]]
    BY DEF Create
<1>4. id \in Nat /\ id >= 1 /\ id \notin DOMAIN plRows
    <2>1. Max(S) \in Nat /\ \A x \in DOMAIN plRows : x \in Nat /\ x <= Max(S)
        BY <1>1, <1>2
    <2> HIDE DEF S
    <2> QED
        BY <2>1
<1>5. id \in 1..PlMaxId
    BY <1>1, <1>3, <1>4
<1>6. Ordered(Listed(list)) /\ DOMAIN Listed(list) \subseteq plKnown
    BY <1>3, ListedIsOrdered
<1>7. k = [owner |-> k.owner, items |-> k.items] /\ k.items = Listed(list)
    OBVIOUS
<1> HIDE DEF k, id
<1>8. DOMAIN plRows' = DOMAIN plRows \cup {id} /\ plRows' = [i \in DOMAIN plRows' |-> plRows'[i]]
      /\ plRows'[id] = k /\ \A i \in DOMAIN plRows : plRows'[i] = plRows[i]
    BY <1>3, <1>4
<1>9. ASSUME NEW i \in DOMAIN plRows'
      PROVE  /\ plRows'[i] = [owner |-> plRows'[i].owner, items |-> plRows'[i].items]
             /\ Ordered(plRows'[i].items) /\ DOMAIN plRows'[i].items \subseteq plKnown
    BY <1>6, <1>7, <1>8 DEF PlInv, PlRowsAgree
<1>10. PlRowsAgree'
    <2>1. plKnown' \subseteq PlEditions /\ DOMAIN plRows' \subseteq 1..PlMaxId
        BY <1>3, <1>5, <1>8 DEF PlInv, PlRowsAgree
    <2> QED
        BY <1>3, <1>8, <1>9, <2>1 DEF PlRowsAgree, Ordered
<1>11. PlRequestsAgree'
    BY <1>3 DEF PlInv, PlRequestsAgree, IsPlRequest
<1> QED
    BY <1>4, <1>8, <1>10, <1>11 DEF PlInv

LEMMA DeleteSteps ==
    ASSUME PlInv, NEW r \in PlRequests, PlaylistDelete(r)
    PROVE  PlInv' /\ \A i \in DOMAIN plRows \cap DOMAIN plRows' : plRows'[i] = plRows[i]
<1>1. PlRequestsAgree'
    BY RequestChanges, NoneIsRequest DEF PlaylistDelete, PlInv
<1>2. DOMAIN plRows' = DOMAIN plRows \ {plRequests[r].id} /\ plRows' = [i \in DOMAIN plRows' |-> plRows'[i]]
      /\ \A i \in DOMAIN plRows' : plRows'[i] = plRows[i]
    BY DEF PlaylistDelete
<1>3. plKnown' = plKnown
    BY DEF PlaylistDelete
<1>4. PlRowsAgree'
    BY <1>2, <1>3 DEF PlInv, PlRowsAgree, Ordered
<1> QED
    BY <1>1, <1>2, <1>4 DEF PlInv

LEMMA EditionSteps ==
    ASSUME PlInv, NEW e, DeleteEdition(e)
    PROVE  PlInv' /\ \A i \in DOMAIN plRows \cap DOMAIN plRows' : SameOrder(plRows[i].items, plRows'[i].items)
<1>1. plRows' = [i \in DOMAIN plRows |-> [plRows[i] EXCEPT !.items = WithoutItem(plRows[i].items, {e})]]
      /\ plKnown' = plKnown \ {e} /\ plRequests' = plRequests
    BY DEF DeleteEdition
<1>2. ASSUME NEW i \in DOMAIN plRows
      PROVE  /\ plRows'[i] = [owner |-> plRows'[i].owner, items |-> plRows'[i].items]
             /\ plRows'[i].items = WithoutItem(plRows[i].items, {e})
    <2>1. plRows[i] = [owner |-> plRows[i].owner, items |-> plRows[i].items]
        BY DEF PlInv, PlRowsAgree
    <2>2. plRows'[i] = [plRows[i] EXCEPT !.items = WithoutItem(plRows[i].items, {e})]
        BY <1>1
    <2> QED
        BY <2>1, <2>2
<1>3. DOMAIN plRows' = DOMAIN plRows /\ plRows' = [i \in DOMAIN plRows' |-> plRows'[i]]
    BY <1>1
<1>4. ASSUME NEW i \in DOMAIN plRows
      PROVE  /\ plRows'[i] = [owner |-> plRows'[i].owner, items |-> plRows'[i].items]
             /\ Ordered(plRows'[i].items) /\ DOMAIN plRows'[i].items \subseteq plKnown \ {e}
             /\ SameOrder(plRows[i].items, plRows'[i].items)
    <2>1. plRows'[i].items = WithoutItem(plRows[i].items, {e})
        BY <1>2
    <2>2. Ordered(plRows[i].items) /\ DOMAIN plRows[i].items \subseteq plKnown
        BY DEF PlInv, PlRowsAgree
    <2>3. /\ Ordered(plRows'[i].items) /\ DOMAIN plRows'[i].items = DOMAIN plRows[i].items \ {e}
          /\ \A f \in DOMAIN plRows[i].items \ {e} : plRows'[i].items[f] = plRows[i].items[f]
        <3> DEFINE gone == {e}
                   items == plRows[i].items
        <3> HIDE DEF gone, items
        <3>1. Ordered(items)
            BY <2>2 DEF items
        <3>2. /\ Ordered(WithoutItem(items, gone)) /\ DOMAIN WithoutItem(items, gone) = DOMAIN items \ gone
              /\ \A f \in DOMAIN items \ gone : WithoutItem(items, gone)[f] = items[f]
            BY <3>1, WithoutIsOrdered
        <3> QED
            BY <2>1, <3>2 DEF gone, items
    <2>4. SameOrder(plRows[i].items, plRows'[i].items)
        BY <2>3 DEF SameOrder
    <2> QED
        BY <1>2, <2>2, <2>3, <2>4
<1>5. PlRowsAgree'
    BY <1>1, <1>3, <1>4 DEF PlInv, PlRowsAgree, Ordered
<1>6. PlRequestsAgree'
    BY <1>1 DEF PlInv, PlRequestsAgree, IsPlRequest
<1> QED
    BY <1>3, <1>4, <1>5, <1>6 DEF PlInv

LEMMA WhatsAreRequests == ASSUME NEW what \in Whats PROVE IsPlRequest(what)
<1>1. \E u \in PlUsers, i \in 1..PlMaxId :
        what \in {What(op, u, i, 0, 0, <<>>) : op \in {"delete", "update"}}
           \cup {What(op, u, i, e, 0, <<>>) : op \in {"add", "remove"}, e \in PlEditions}
           \cup {What("reorder", u, i, e, n, <<>>) : e \in PlEditions, n \in 1..Cardinality(PlEditions)}
           \cup {What("replace", u, i, 0, 0, l) : l \in Lists}
    BY DEF Whats
<1>2. PICK u \in PlUsers, i \in 1..PlMaxId :
        \/ \E op \in {"delete", "update"} : what = What(op, u, i, 0, 0, <<>>)
        \/ \E op \in {"add", "remove"}, e \in PlEditions : what = What(op, u, i, e, 0, <<>>)
        \/ \E e \in PlEditions, n \in 1..Cardinality(PlEditions) : what = What("reorder", u, i, e, n, <<>>)
        \/ \E l \in Lists : what = What("replace", u, i, 0, 0, l)
    BY <1>1
<1>3. \A n \in 1..Cardinality(PlEditions) : n \in Nat
    BY PlAssumption, FS_CardinalityType
<1> QED
    BY <1>2, <1>3 DEF IsPlRequest, What

LEMMA OwnSteps ==
    ASSUME PlInv, NEW r \in PlRequests, (\E what \in Whats : Own(r, what)) \/ UpdatePlaylist(r)
    PROVE  PlInv' /\ plRows' = plRows
<1>1. plRows' = plRows /\ plKnown' = plKnown
    BY Zenon DEF Own, UpdatePlaylist
<1>2. PlRowsAgree'
    BY <1>1 DEF PlInv, PlRowsAgree, Ordered
<1>3. CASE \E what \in Whats : Own(r, what)
    <2>1. PICK what \in Whats : Own(r, what)
        BY <1>3
    <2>2. IsPlRequest(what) /\ plRequests' = [plRequests EXCEPT ![r] = what]
        BY <2>1, WhatsAreRequests DEF Own
    <2>3. PlRequestsAgree'
        BY <2>2, RequestChanges DEF PlInv
    <2> QED
        BY <1>1, <1>2, <2>3 DEF PlInv
<1>4. CASE UpdatePlaylist(r)
    <2>1. PICK gone, e : plRequests' = [plRequests EXCEPT ![r].op = "delta", ![r].gone = gone, ![r].edition = e]
        BY <1>4, Zenon DEF UpdatePlaylist
    <2> DEFINE q == plRequests[r]
               k == [op |-> "delta", user |-> q.user, id |-> q.id, edition |-> e, position |-> q.position,
                     list |-> q.list, gone |-> gone]
    <2>2. /\ q = [op |-> q.op, user |-> q.user, id |-> q.id, edition |-> q.edition, position |-> q.position,
                list |-> q.list, gone |-> q.gone]
          /\ DOMAIN plRequests = PlRequests
        BY DEF PlInv, PlRequestsAgree, IsPlRequest
    <2>3. plRequests' = [plRequests EXCEPT ![r] = k]
        <3>1. plRequests' = [plRequests EXCEPT ![r] = [[[q EXCEPT !.op = "delta"] EXCEPT !.gone = gone] EXCEPT !.edition = e]]
            BY <2>1, <2>2
        <3> DEFINE j == [op |-> "delta", user |-> q.user, id |-> q.id, edition |-> q.edition, position |-> q.position,
                         list |-> q.list, gone |-> q.gone]
                   l == [op |-> "delta", user |-> q.user, id |-> q.id, edition |-> q.edition, position |-> q.position,
                         list |-> q.list, gone |-> gone]
        <3>2. [q EXCEPT !.op = "delta"] = j
            BY <2>2
        <3>3. [j EXCEPT !.gone = gone] = l
            OBVIOUS
        <3>4. [l EXCEPT !.edition = e] = k
            OBVIOUS
        <3> HIDE DEF j, k, l
        <3> QED
            BY <3>1, <3>2, <3>3, <3>4
    <2>4. IsPlRequest(k)
        BY DEF IsPlRequest
    <2> HIDE DEF k
    <2>5. PlRequestsAgree'
        BY <2>3, <2>4, RequestChanges DEF PlInv
    <2> QED
        BY <1>1, <1>2, <2>5 DEF PlInv
<1> QED
    BY <1>3, <1>4

(* What a step does to the order of a playlist that is there before and after it. *)
PlOrderKept ==
    \A i \in DOMAIN plRows \cap DOMAIN plRows' :
        (\A r \in PlRequests : plRequests[r].op = "replace" => plRequests'[r] = plRequests[r]) =>
            AllButOne(plRows[i].items, plRows'[i].items)

LEMMA ChangesKeepOrder ==
    ASSUME PlInv, NEW r \in PlRequests, NEW op,
           \E items : Changes(r, op, items) /\ Ordered(items) /\ DOMAIN items \subseteq plKnown /\ AllButOne(Items(r), items)
    PROVE  PlInv' /\ PlOrderKept
<1>1. PICK items : Changes(r, op, items) /\ Ordered(items) /\ DOMAIN items \subseteq plKnown /\ AllButOne(Items(r), items)
    OBVIOUS
<1>2. /\ PlInv' /\ DOMAIN plRows' = DOMAIN plRows
      /\ \A i \in DOMAIN plRows : plRows'[i].items = IF i = plRequests[r].id THEN items ELSE plRows[i].items
    BY <1>1, ChangesKeep
<1>3. ASSUME NEW i \in DOMAIN plRows PROVE AllButOne(plRows[i].items, plRows'[i].items)
    <2>1. CASE i = plRequests[r].id
        <3>1. Items(r) = plRows[i].items
            BY <2>1 DEF Items
        <3> QED
            BY <1>1, <1>2, <2>1, <3>1
    <2>2. CASE i # plRequests[r].id
        BY <1>2, <2>2, UnchangedKeepsOrder
    <2> QED
        BY <2>1, <2>2
<1> QED
    BY <1>2, <1>3 DEF PlOrderKept

LEMMA PlStep == PlInv /\ [PlNext]_plVars => PlInv' /\ PlOrderKept
<1> SUFFICES ASSUME PlInv, [PlNext]_plVars PROVE PlInv' /\ PlOrderKept
    OBVIOUS
<1>1. ASSUME plRows' = plRows PROVE PlOrderKept
    BY <1>1, UnchangedKeepsOrder DEF PlOrderKept
<1>2. ASSUME \A i \in DOMAIN plRows \cap DOMAIN plRows' : plRows'[i] = plRows[i] PROVE PlOrderKept
    BY <1>2, UnchangedKeepsOrder DEF PlOrderKept
<1>3. CASE UNCHANGED plVars
    <2>1. PlInv'
        BY <1>3 DEF plVars, PlInv, PlRowsAgree, PlRequestsAgree, IsPlRequest, Ordered
    <2> QED
        BY <1>1, <1>3, <2>1 DEF plVars
<1>4. ASSUME NEW u \in PlUsers, NEW l \in Lists, Create(u, l) PROVE PlInv' /\ PlOrderKept
    BY <1>2, <1>4, CreateSteps
<1>5. ASSUME NEW e \in PlEditions, DeleteEdition(e) PROVE PlInv' /\ PlOrderKept
    BY <1>5, EditionSteps, SameOrderSuffices DEF PlOrderKept
<1>6. ASSUME NEW r \in PlRequests, (\E what \in Whats : Own(r, what)) \/ UpdatePlaylist(r) PROVE PlInv' /\ PlOrderKept
    BY <1>1, <1>6, OwnSteps
<1>7. ASSUME NEW r \in PlRequests,
             PlaylistItemAdd(r) \/ PlaylistItemRemove(r) \/ PlaylistItemReorder(r) \/ UpdatePlaylistDelta(r)
      PROVE  PlInv' /\ PlOrderKept
    BY <1>7, AddSteps, RemoveSteps, ReorderSteps, DeltaSteps, ChangesKeepOrder
<1>8. ASSUME NEW r \in PlRequests, ReplacePlaylist(r) PROVE PlInv' /\ PlOrderKept
    <2>1. PICK items : Changes(r, "replace", items) /\ Ordered(items) /\ DOMAIN items \subseteq plKnown
        BY <1>8, ReplaceSteps
    <2>2. PlInv'
        BY <2>1, ChangesKeep
    <2>3. plRequests[r].op = "replace" /\ plRequests'[r] # plRequests[r]
        BY <1>8, ReplaceSteps
    <2> QED
        BY <2>2, <2>3 DEF PlOrderKept
<1>9. ASSUME NEW r \in PlRequests, PlaylistDelete(r) PROVE PlInv' /\ PlOrderKept
    BY <1>2, <1>9, DeleteSteps
<1> QED
    BY <1>3, <1>4, <1>5, <1>6, <1>7, <1>8, <1>9 DEF PlNext

(* Whatever requests do between their check and their transaction, every list is as PlInv says. *)
THEOREM PlAlways == PlSpec => []PlInv
    BY PlInitHolds, PlStep, PTL DEF PlSpec

(* Items are editions that exist, and their positions say one order, whatever requests do between their check and their
   transaction (PlTypeOK). *)
THEOREM PlaylistsTyped == PlSpec => []PlTypeOK
<1>1. PlInv => PlTypeOK
    <2> SUFFICES ASSUME PlInv PROVE PlTypeOK
        OBVIOUS
    <2>1. \A i \in DOMAIN plRows : Ordered(plRows[i].items) /\ DOMAIN plRows[i].items \subseteq plKnown
        BY DEF PlInv, PlRowsAgree
    <2>2. ASSUME NEW i \in DOMAIN plRows, NEW e \in DOMAIN plRows[i].items PROVE plRows[i].items[e] >= 1
        <3>1. plRows[i].items[e] \in Nat \ {0}
            BY <2>1 DEF Ordered
        <3> QED
            BY <3>1
    <2> QED
        BY <2>1, <2>2 DEF PlTypeOK, Ordered
<1> QED
    BY <1>1, PlAlways, PTL

(* A change to a playlist, short of its replacement, moves one item at most among the others, also across gaps that
   removals through another face left (ReorderPlaylistItem). *)
THEOREM OthersStayInOrder == PlSpec => OthersKeepTheirOrder
<1>1. PlOrderKept => \A i \in DOMAIN plRows \cap DOMAIN plRows' :
        LET before == plRows[i].items
            after == plRows'[i].items
            both == DOMAIN before \cap DOMAIN after
        IN (\A r \in PlRequests : plRequests[r].op = "replace" => plRequests'[r] = plRequests[r]) =>
              both = {} \/ \E m \in both : \A e, f \in both \ {m} : before[e] < before[f] <=> after[e] < after[f]
    BY DEF PlOrderKept, AllButOne
<1> QED
    BY <1>1, PlAlways, PlStep, PTL DEF PlSpec, OthersKeepTheirOrder

-----------------------------------------------------------------------------
(* Limiter of logins: what GuessesBounded needs to be inductive.           *)

LlPlaces == {"out", "allowIp", "allow", "password", "hash", "failIp", "fail", "success", "successIp"}
LlCallersTyped ==
    /\ llCaller \in [LlCallers -> [at : LlPlaces, ip : LlIps \cup {LlOut.ip}, account : LlAccounts \cup {LlOut.account},
                                   gate : {"allow", "password"}, proof : {"hash", "token", "cached"}]]
    /\ \A c \in LlCallers : llCaller[c].at # "out" =>
          /\ llCaller[c].ip \in LlIps /\ llCaller[c].account \in LlAccounts
          /\ llCaller[c].gate = "password" => llCaller[c].account \notin LlKnown

LlTables == [LlTimes -> Nat]
LlEntry == [failures : LlTables, until : Nat, seen : Nat, there : BOOLEAN]
LlEntryGood(k, e, now) ==
    /\ ~e.there => e = NoEntry
    /\ HowMany(e.failures) < ThresholdFor(k)
    /\ e.until <= now + LlLockout
    /\ \A t \in LlTimes : e.failures[t] # 0 => t <= now
LlEntriesTyped ==
    /\ llNow \in LlTimes
    /\ llEntries \in [LimitKeys -> LlEntry]
    /\ \A k \in LimitKeys : LlEntryGood(k, llEntries[k], llNow)
LlThere(entries) == {k \in LimitKeys : entries[k].there}
LlTableBounded == IsFiniteSet(LlThere(llEntries)) /\ Cardinality(LlThere(llEntries)) <= LlMaxEntries

LlWrongTyped ==
    /\ llWrong \in [LimitKeys -> LlTables]
    /\ \A k \in LimitKeys, t \in LlTimes : llWrong[k][t] # 0 => llNow - t < LlWindow /\ t <= llNow

(* The requests that were allowed for a key and have not recorded their guess, and those of them that know it is wrong. *)
LlUnrecorded(k) == IF k \in LlIps THEN {"failIp"} ELSE {"failIp", "fail"}
LlVerifying(k) == IF k \in LlIps THEN {"allow", "password", "hash"} ELSE {"password", "hash"}
LlOf(k, places) ==
    {c \in LlCallers : llCaller[c].at \in places /\ k \in {llCaller[c].ip, Principal(llCaller[c].ip, llCaller[c].account)}}
LlDue(k) == LlOf(k, LlUnrecorded(k))
LlOpen(k) == LlOf(k, LlUnrecorded(k) \cup LlVerifying(k))

LlOthers == Cardinality(LlCallers) - 1
LlAfter(times, x) == HowMany([t \in LlTimes |-> IF t > x THEN times[t] ELSE 0])
LlCounted == LlIps \cup (LlIps \X LlKnown)

LlBounded(failures, until, wrong, now, due, open, threshold) ==
    IF until > now
    THEN \E j \in Nat :
            /\ j + open <= LlOthers
            /\ \A x \in Int : x >= now - LlWindow =>
                  LlAfter(wrong, x) <= (IF x < until - LlLockout THEN threshold + LlOthers ELSE 0) + j + due
    ELSE \E j \in 0..LlOthers :
            \A x \in Int : x >= now - LlWindow => LlAfter(wrong, x) <= LlAfter(failures, x) + j + due
LlKeyBounded(k) ==
    LlBounded(llEntries[k].failures, llEntries[k].until, llWrong[k], llNow, Cardinality(LlDue(k)), Cardinality(LlOpen(k)),
              ThresholdFor(k))

LlInv ==
    /\ LlCallersTyped
    /\ LlEntriesTyped
    /\ LlTableBounded
    /\ LlWrongTyped
    /\ \A k \in LlCounted : LlKeyBounded(k)

-----------------------------------------------------------------------------
(* How many of the times in a table are later than an instant.             *)

LEMMA LlTimesFinite == IsFiniteSet(LlTimes) /\ 0 \in LlTimes /\ LlTimes \subseteq Nat
<1>1. LlMaxTime \in Nat
    BY LlAssumption
<1>2. LlTimes \subseteq Nat /\ 0 \in LlTimes
    BY <1>1 DEF LlTimes
<1>3. IsFiniteSet(LlTimes)
    <2>1. 0 \in Int /\ LlMaxTime \in Int
        BY <1>1
    <2> QED
        BY <2>1, FS_Interval DEF LlTimes
<1> QED
    BY <1>2, <1>3

LEMMA LlHowMany ==
    ASSUME NEW v \in LlTables
    PROVE  /\ HowMany(v) \in Nat
           /\ (\A t \in LlTimes : v[t] = 0) => HowMany(v) = 0
<1>1. \A t \in LlTimes : v[t] \in Nat
    BY DEF LlTables
<1>2. HowMany(v) \in Nat
    BY <1>1, LlTimesFinite, SumNat DEF HowMany
<1>3. ASSUME \A t \in LlTimes : v[t] = 0 PROVE HowMany(v) = 0
    BY <1>3, LlTimesFinite, SumZero DEF HowMany
<1> QED
    BY <1>2, <1>3

LEMMA LlHowManyFewer ==
    ASSUME NEW v \in LlTables, NEW w \in LlTables, \A t \in LlTimes : v[t] <= w[t]
    PROVE  HowMany(v) <= HowMany(w)
<1>1. \A t \in LlTimes : v[t] \in Int /\ w[t] \in Int /\ v[t] <= w[t]
    BY DEF LlTables
<1> QED
    BY <1>1, LlTimesFinite, SumMonotone DEF HowMany

LEMMA LlHowManyOneMore ==
    ASSUME NEW v \in LlTables, NEW w \in LlTables, NEW n \in LlTimes, w[n] = v[n] + 1,
           \A t \in LlTimes \ {n} : w[t] = v[t]
    PROVE  HowMany(w) = HowMany(v) + 1
<1>1. \A t \in LlTimes : v[t] \in Int /\ w[t] \in Int
    BY DEF LlTables
<1> DEFINE R == LlTimes \ {n}
<1>2. /\ SumFunctionOnSet(v, LlTimes) = v[n] + SumFunctionOnSet(v, R)
      /\ SumFunctionOnSet(w, LlTimes) = w[n] + SumFunctionOnSet(w, R)
    BY <1>1, LlTimesFinite, SumRemove
<1>3. IsFiniteSet(R) /\ \A t \in R : v[t] \in Int /\ w[t] = v[t]
    BY <1>1, LlTimesFinite, FS_Difference
<1> HIDE DEF R
<1>4. SumFunctionOnSet(w, R) = SumFunctionOnSet(v, R)
    BY <1>3, SumSame
<1>5. SumFunctionOnSet(v, R) \in Int
    BY <1>3, SumType
<1>6. v[n] \in Int
    BY <1>1
<1> QED
    BY <1>2, <1>4, <1>5, <1>6 DEF HowMany

LlMask(v, x) == [t \in LlTimes |-> IF t > x THEN v[t] ELSE 0]

LEMMA LlMasked ==
    ASSUME NEW v \in LlTables, NEW x \in Int
    PROVE  /\ LlMask(v, x) \in LlTables
           /\ LlAfter(v, x) = HowMany(LlMask(v, x))
           /\ LlAfter(v, x) \in Nat
           /\ LlAfter(v, x) <= HowMany(v)
<1>1. LlMask(v, x) \in LlTables /\ LlAfter(v, x) = HowMany(LlMask(v, x))
    BY DEF LlMask, LlTables, LlAfter
<1>2. \A t \in LlTimes : LlMask(v, x)[t] <= v[t]
    BY DEF LlMask, LlTables
<1>3. HowMany(LlMask(v, x)) <= HowMany(v)
    BY <1>1, <1>2, LlHowManyFewer
<1>4. HowMany(LlMask(v, x)) \in Nat
    BY <1>1, LlHowMany
<1> QED
    BY <1>1, <1>3, <1>4

LEMMA LlAfterFewer ==
    ASSUME NEW v \in LlTables, NEW w \in LlTables, NEW x \in Int, \A t \in LlTimes : t > x => v[t] <= w[t]
    PROVE  LlAfter(v, x) <= LlAfter(w, x)
<1>1. \A t \in LlTimes : LlMask(v, x)[t] <= LlMask(w, x)[t]
    BY DEF LlMask
<1> QED
    BY <1>1, LlMasked, LlHowManyFewer

LEMMA LlAfterNone ==
    ASSUME NEW v \in LlTables, NEW x \in Int, \A t \in LlTimes : t > x => v[t] = 0
    PROVE  LlAfter(v, x) = 0
<1>1. \A t \in LlTimes : LlMask(v, x)[t] = 0
    BY DEF LlMask
<1> QED
    BY <1>1, LlMasked, LlHowMany

LEMMA LlAfterAll ==
    ASSUME NEW v \in LlTables, NEW x \in Int, \A t \in LlTimes : v[t] # 0 => t > x
    PROVE  LlAfter(v, x) = HowMany(v)
<1>1. \A t \in LlTimes : LlMask(v, x)[t] = v[t]
    BY DEF LlMask
<1>2. LlMask(v, x) = v
    BY <1>1 DEF LlMask, LlTables
<1> QED
    BY <1>2, LlMasked

LEMMA LlNoTimes ==
    /\ NoTimes \in LlTables
    /\ HowMany(NoTimes) = 0
    /\ \A x \in Int : LlAfter(NoTimes, x) = 0
<1>1. NoTimes \in LlTables /\ \A t \in LlTimes : NoTimes[t] = 0
    BY DEF NoTimes, LlTables
<1> QED
    BY <1>1, LlHowMany, LlAfterNone

(* Forgetting what left the window changes no count from the window on.    *)
LEMMA LlSince ==
    ASSUME NEW v \in LlTables, NEW now \in LlTimes
    PROVE  /\ Since(v, now) \in LlTables
           /\ HowMany(Since(v, now)) <= HowMany(v)
           /\ \A x \in Int : x >= now - LlWindow => LlAfter(Since(v, now), x) = LlAfter(v, x)
           /\ \A t \in LlTimes : Since(v, now)[t] # 0 => now - t < LlWindow /\ v[t] # 0
<1> now \in Nat /\ LlWindow \in Nat /\ LlTimes \subseteq Nat
    BY LlTimesFinite, LlAssumption
<1>1. Since(v, now) \in LlTables
    BY DEF Since, LlTables
<1>2. \A t \in LlTimes : Since(v, now)[t] = IF now - t < LlWindow THEN v[t] ELSE 0
    BY DEF Since
<1>3. \A t \in LlTimes : v[t] \in Nat
    BY DEF LlTables
<1>4. HowMany(Since(v, now)) <= HowMany(v)
    <2>1. \A t \in LlTimes : Since(v, now)[t] <= v[t]
        BY <1>2, <1>3
    <2> QED
        BY <1>1, <2>1, LlHowManyFewer
<1>5. ASSUME NEW x \in Int, x >= now - LlWindow PROVE LlAfter(Since(v, now), x) = LlAfter(v, x)
    <2>1. \A t \in LlTimes : t > x => Since(v, now)[t] = v[t]
        BY <1>2, <1>5
    <2>2. \A t \in LlTimes : t > x => Since(v, now)[t] <= v[t] /\ v[t] <= Since(v, now)[t]
        BY <2>1, <1>3
    <2>3. LlAfter(Since(v, now), x) <= LlAfter(v, x) /\ LlAfter(v, x) <= LlAfter(Since(v, now), x)
        BY <1>1, <2>2, LlAfterFewer
    <2>4. LlAfter(Since(v, now), x) \in Nat /\ LlAfter(v, x) \in Nat
        BY <1>1, LlMasked
    <2> QED
        BY <2>3, <2>4
<1>6. \A t \in LlTimes : Since(v, now)[t] # 0 => now - t < LlWindow /\ v[t] # 0
    BY <1>2
<1> QED
    BY <1>1, <1>4, <1>5, <1>6

(* One more at an instant: as Another adds it.                             *)
LlWith(v, now) == [Since(v, now) EXCEPT ![now] = @ + 1]

LEMMA LlOneMore ==
    ASSUME NEW v \in LlTables, NEW now \in LlTimes, \A t \in LlTimes : v[t] # 0 => t <= now
    PROVE  /\ LlWith(v, now) \in LlTables
           /\ HowMany(LlWith(v, now)) <= HowMany(v) + 1
           /\ \A x \in Int : x >= now - LlWindow =>
                LlAfter(LlWith(v, now), x) = LlAfter(v, x) + (IF x < now THEN 1 ELSE 0)
           /\ \A t \in LlTimes : LlWith(v, now)[t] # 0 => now - t < LlWindow /\ t <= now
<1> now \in Nat /\ LlWindow \in Nat \ {0} /\ LlTimes \subseteq Nat
    BY LlTimesFinite, LlAssumption
<1> DEFINE s == Since(v, now)
           w == LlWith(v, now)
<1>1. s \in LlTables /\ HowMany(s) <= HowMany(v) /\ HowMany(s) \in Nat /\ HowMany(v) \in Nat
    BY LlSince, LlHowMany
<1>2. w \in LlTables /\ w[now] = s[now] + 1 /\ \A t \in LlTimes \ {now} : w[t] = s[t]
    BY <1>1 DEF LlWith, LlTables
<1>3. HowMany(w) = HowMany(s) + 1
    <2> HIDE DEF s, w
    <2> QED
        BY <1>1, <1>2, LlHowManyOneMore
<1>4. ASSUME NEW x \in Int, x >= now - LlWindow
      PROVE  LlAfter(w, x) = LlAfter(v, x) + (IF x < now THEN 1 ELSE 0)
    <2>1. LlAfter(s, x) = LlAfter(v, x) /\ LlAfter(v, x) \in Nat
        BY <1>4, LlSince, LlMasked
    <2> HIDE DEF s, w
    <2>2. CASE x < now
        <3>1. /\ LlMask(w, x)[now] = LlMask(s, x)[now] + 1
              /\ \A t \in LlTimes \ {now} : LlMask(w, x)[t] = LlMask(s, x)[t]
            BY <1>2, <2>2 DEF LlMask
        <3>2. LlMask(w, x) \in LlTables /\ LlMask(s, x) \in LlTables
            BY <1>1, <1>2, LlMasked
        <3>3. HowMany(LlMask(w, x)) = HowMany(LlMask(s, x)) + 1
            BY <3>1, <3>2, LlHowManyOneMore
        <3>4. LlAfter(w, x) = LlAfter(s, x) + 1
            BY <1>1, <1>2, <3>3, LlMasked
        <3> QED
            BY <2>1, <2>2, <3>4
    <2>3. CASE ~(x < now)
        <3>1. \A t \in LlTimes : t > x => s[t] = 0
            BY <2>3, LlSince DEF s
        <3>2. \A t \in LlTimes : t > x => w[t] = 0
            BY <1>2, <2>3, <3>1
        <3>3. LlAfter(w, x) = 0 /\ LlAfter(s, x) = 0
            BY <1>1, <1>2, <3>1, <3>2, LlAfterNone
        <3> QED
            BY <2>1, <2>3, <3>3
    <2> QED
        BY <2>2, <2>3
<1>5. ASSUME NEW t \in LlTimes, w[t] # 0 PROVE now - t < LlWindow /\ t <= now
    <2>1. CASE t = now
        BY <2>1
    <2>2. CASE t # now
        <3>1. s[t] # 0
            BY <1>2, <1>5, <2>2
        <3> QED
            BY <3>1, LlSince DEF s
    <2> QED
        BY <2>1, <2>2
<1> QED
    BY <1>1, <1>2, <1>3, <1>4, <1>5

-----------------------------------------------------------------------------
(* The bound of one key, for the numbers it speaks of.                     *)

LlPositive == /\ LlOthers \in Nat /\ LlOthers + 1 = Cardinality(LlCallers)
              /\ LlWindow \in Nat \ {0} /\ LlLockout \in Nat /\ LlWindow <= LlLockout
              /\ LlTimes \subseteq Nat
LEMMA LlConstants == LlPositive
<1>1. Cardinality(LlCallers) \in Nat /\ Cardinality(LlCallers) # 0
    BY LlAssumption, FS_CardinalityType, FS_EmptySet
<1>2. LlTimes \subseteq Nat
    BY LlTimesFinite
<1> QED
    BY <1>1, <1>2, LlAssumption DEF LlPositive, LlOthers

(* A key whose guesses are forgotten.                                      *)
LEMMA LlForgotten ==
    ASSUME NEW f \in LlTables, NEW u \in Nat, NEW now \in LlTimes, u <= now, NEW d \in Nat, NEW o \in Nat, NEW T \in Nat
    PROVE  LlBounded(f, u, NoTimes, now, d, o, T)
<1> USE LlConstants DEF LlPositive
<1>1. ASSUME NEW x \in Int PROVE LlAfter(NoTimes, x) <= LlAfter(f, x) + 0 + d
    <2>1. LlAfter(NoTimes, x) = 0 /\ LlAfter(f, x) \in Nat
        BY LlNoTimes, LlMasked
    <2> QED
        BY <2>1
<1>2. 0 \in 0..LlOthers /\ ~(u > now)
    OBVIOUS
<1> QED
    BY <1>1, <1>2 DEF LlBounded

(* An entry without a lock is pruned, dropped or left, and a lock stays, while no guess is told or recorded. *)
LEMMA LlUnchanged ==
    ASSUME NEW f \in LlTables, NEW u \in Nat, NEW g \in LlTables, NEW v \in Nat, NEW w \in LlTables, NEW now \in LlTimes,
           NEW d \in Nat, NEW o \in Nat, NEW p \in Nat, NEW T \in Nat,
           LlBounded(f, u, w, now, d, o, T),
           \/ u > now /\ v = u /\ p <= o
           \/ u <= now /\ v <= now /\ \A x \in Int : x >= now - LlWindow => LlAfter(g, x) = LlAfter(f, x)
    PROVE  LlBounded(g, v, w, now, d, p, T)
<1> USE LlConstants DEF LlPositive
<1>1. CASE u > now /\ v = u /\ p <= o
    <2>1. PICK j \in Nat :
             /\ j + o <= LlOthers
             /\ \A x \in Int : x >= now - LlWindow =>
                   LlAfter(w, x) <= (IF x < u - LlLockout THEN T + LlOthers ELSE 0) + j + d
        BY <1>1 DEF LlBounded
    <2>2. j + p <= LlOthers
        BY <1>1, <2>1
    <2> QED
        BY <1>1, <2>1, <2>2 DEF LlBounded
<1>2. CASE u <= now /\ v <= now /\ \A x \in Int : x >= now - LlWindow => LlAfter(g, x) = LlAfter(f, x)
    <2>1. ~(u > now) /\ ~(v > now)
        BY <1>2
    <2>2. PICK j \in 0..LlOthers :
             \A x \in Int : x >= now - LlWindow => LlAfter(w, x) <= LlAfter(f, x) + j + d
        BY <2>1 DEF LlBounded
    <2>3. \A x \in Int : x >= now - LlWindow => LlAfter(w, x) <= LlAfter(g, x) + j + d
        BY <1>2, <2>2
    <2> QED
        BY <2>1, <2>3 DEF LlBounded
<1> QED
    BY <1>1, <1>2

(* A guess turns out to be wrong.                                          *)
LEMMA LlTold ==
    ASSUME NEW f \in LlTables, NEW u \in Nat, NEW w \in LlTables, NEW now \in LlTimes,
           \A t \in LlTimes : w[t] # 0 => t <= now,
           NEW d \in Nat, NEW o \in Nat, NEW T \in Nat,
           LlBounded(f, u, w, now, d, o, T)
    PROVE  LlBounded(f, u, LlWith(w, now), now, d + 1, o, T)
<1> USE LlConstants DEF LlPositive
<1>1. ASSUME NEW x \in Int, x >= now - LlWindow
      PROVE  LlAfter(LlWith(w, now), x) <= LlAfter(w, x) + 1 /\ LlAfter(LlWith(w, now), x) \in Nat /\ LlAfter(w, x) \in Nat
                /\ LlAfter(f, x) \in Nat
    <2>1. LlAfter(w, x) \in Nat /\ LlWith(w, now) \in LlTables /\ LlAfter(f, x) \in Nat
        BY LlMasked, LlOneMore
    <2>2. LlAfter(LlWith(w, now), x) = LlAfter(w, x) + (IF x < now THEN 1 ELSE 0)
        BY <1>1, LlOneMore
    <2> QED
        BY <2>1, <2>2
<1>2. CASE u > now
    <2>1. PICK j \in Nat :
             /\ j + o <= LlOthers
             /\ \A x \in Int : x >= now - LlWindow =>
                   LlAfter(w, x) <= (IF x < u - LlLockout THEN T + LlOthers ELSE 0) + j + d
        BY <1>2 DEF LlBounded
    <2>2. ASSUME NEW x \in Int, x >= now - LlWindow
          PROVE  LlAfter(LlWith(w, now), x) <= (IF x < u - LlLockout THEN T + LlOthers ELSE 0) + j + (d + 1)
        <3> DEFINE b == IF x < u - LlLockout THEN T + LlOthers ELSE 0
        <3>1. b \in Nat /\ LlAfter(w, x) <= b + j + d
            BY <2>1, <2>2
        <3> HIDE DEF b
        <3>2. LlAfter(LlWith(w, now), x) <= b + j + (d + 1)
            BY <1>1, <2>2, <3>1
        <3> QED
            BY <3>2 DEF b
    <2> QED
        BY <1>2, <2>1, <2>2 DEF LlBounded
<1>3. CASE ~(u > now)
    <2>1. PICK j \in 0..LlOthers :
             \A x \in Int : x >= now - LlWindow => LlAfter(w, x) <= LlAfter(f, x) + j + d
        BY <1>3 DEF LlBounded
    <2>2. ASSUME NEW x \in Int, x >= now - LlWindow
          PROVE  LlAfter(LlWith(w, now), x) <= LlAfter(f, x) + j + (d + 1)
        BY <1>1, <2>1, <2>2
    <2> QED
        BY <1>3, <2>1, <2>2 DEF LlBounded
<1> QED
    BY <1>2, <1>3

(* Under a lock it is not recorded: it is one of those that were allowed before. *)
LEMMA LlRecordedLocked ==
    ASSUME NEW f \in LlTables, NEW u \in Nat, NEW w \in LlTables, NEW now \in LlTimes, u > now,
           NEW d \in Nat, NEW o \in Nat, NEW T \in Nat, NEW e \in Nat, NEW p \in Nat, e + 1 = d, p + 1 = o,
           LlBounded(f, u, w, now, d, o, T)
    PROVE  LlBounded(f, u, w, now, e, p, T)
<1> USE LlConstants DEF LlPositive
<1>1. PICK j \in Nat :
         /\ j + o <= LlOthers
         /\ \A x \in Int : x >= now - LlWindow =>
               LlAfter(w, x) <= (IF x < u - LlLockout THEN T + LlOthers ELSE 0) + j + d
    BY DEF LlBounded
<1>2. j + 1 \in Nat /\ (j + 1) + p <= LlOthers
    BY <1>1
<1>3. ASSUME NEW x \in Int, x >= now - LlWindow
      PROVE  LlAfter(w, x) <= (IF x < u - LlLockout THEN T + LlOthers ELSE 0) + (j + 1) + e
    <2> DEFINE b == IF x < u - LlLockout THEN T + LlOthers ELSE 0
    <2>1. b \in Nat /\ LlAfter(w, x) <= b + j + d
        BY <1>1, <1>3
    <2>3. LlAfter(w, x) \in Nat
        BY LlMasked
    <2> HIDE DEF b
    <2>2. LlAfter(w, x) <= b + (j + 1) + e
        BY <2>1, <2>3
    <2> QED
        BY <2>2 DEF b
<1> QED
    BY <1>2, <1>3 DEF LlBounded

(* It is recorded short of the threshold.                                  *)
LEMMA LlRecordedOpen ==
    ASSUME NEW f \in LlTables, NEW u \in Nat, NEW v \in Nat, NEW w \in LlTables, NEW now \in LlTimes, u <= now, v <= now,
           \A t \in LlTimes : f[t] # 0 => t <= now,
           \A t \in LlTimes : w[t] # 0 => t <= now,
           NEW d \in Nat, NEW o \in Nat, NEW T \in Nat, NEW e \in Nat, NEW p \in Nat, e + 1 = d,
           LlBounded(f, u, w, now, d, o, T)
    PROVE  LlBounded(LlWith(f, now), v, w, now, e, p, T)
<1> USE LlConstants DEF LlPositive
<1>1. ~(u > now) /\ ~(v > now)
    OBVIOUS
<1>2. PICK j \in 0..LlOthers :
         \A x \in Int : x >= now - LlWindow => LlAfter(w, x) <= LlAfter(f, x) + j + d
    BY <1>1 DEF LlBounded
<1>3. ASSUME NEW x \in Int, x >= now - LlWindow
      PROVE  LlAfter(w, x) <= LlAfter(LlWith(f, now), x) + j + e
    <2>1. /\ LlAfter(LlWith(f, now), x) = LlAfter(f, x) + (IF x < now THEN 1 ELSE 0)
          /\ LlAfter(f, x) \in Nat /\ LlAfter(w, x) \in Nat
        BY <1>3, LlOneMore, LlMasked
    <2>2. CASE x < now
        BY <1>2, <1>3, <2>1, <2>2
    <2>3. CASE ~(x < now)
        <3>1. LlAfter(w, x) = 0
            BY <2>3, LlAfterNone
        <3> QED
            BY <2>1, <2>3, <3>1
    <2> QED
        BY <2>2, <2>3
<1> QED
    BY <1>1, <1>2, <1>3 DEF LlBounded

(* It reaches the threshold, and the key is locked.                        *)
LEMMA LlRecordedLocks ==
    ASSUME NEW f \in LlTables, NEW u \in Nat, NEW w \in LlTables, NEW now \in LlTimes, u <= now,
           \A t \in LlTimes : w[t] # 0 => t <= now,
           NEW d \in Nat, NEW o \in Nat, NEW T \in Nat, NEW e \in Nat, NEW p \in Nat, e + 1 = d, p <= LlOthers,
           HowMany(f) < T,
           LlBounded(f, u, w, now, d, o, T)
    PROVE  LlBounded(NoTimes, now + LlLockout, w, now, e, p, T)
<1> USE LlConstants DEF LlPositive
<1>1. ~(u > now) /\ now + LlLockout > now /\ (now + LlLockout) - LlLockout = now
    OBVIOUS
<1>2. PICK j \in 0..LlOthers :
         \A x \in Int : x >= now - LlWindow => LlAfter(w, x) <= LlAfter(f, x) + j + d
    BY <1>1 DEF LlBounded
<1>3. ASSUME NEW x \in Int, x >= now - LlWindow
      PROVE  LlAfter(w, x) <= (IF x < (now + LlLockout) - LlLockout THEN T + LlOthers ELSE 0) + 0 + e
    <2>1. /\ LlAfter(f, x) <= HowMany(f) /\ HowMany(f) \in Nat
          /\ LlAfter(f, x) \in Nat /\ LlAfter(w, x) \in Nat
        BY LlHowMany, LlMasked
    <2>2. CASE x < now
        <3>1. LlAfter(w, x) <= LlAfter(f, x) + j + d
            BY <1>2, <1>3
        <3>2. LlAfter(w, x) <= T + LlOthers + e
            BY <2>1, <3>1
        <3> QED
            BY <1>1, <2>2, <3>2
    <2>3. CASE ~(x < now)
        <3>1. LlAfter(w, x) = 0
            BY <2>3, LlAfterNone
        <3> QED
            BY <1>1, <2>3, <3>1
    <2> QED
        BY <2>2, <2>3
<1>4. 0 + p <= LlOthers
    OBVIOUS
<1> QED
    BY <1>1, <1>3, <1>4 DEF LlBounded

(* Time goes on, and a lock may end.                                       *)
LEMMA LlTicked ==
    ASSUME NEW f \in LlTables, NEW u \in Nat, NEW w \in LlTables, NEW now \in LlTimes, now + 1 \in LlTimes,
           NEW d \in Nat, NEW o \in Nat, NEW T \in Nat,
           LlBounded(f, u, w, now, d, o, T)
    PROVE  LlBounded(f, u, Since(w, now + 1), now + 1, d, o, T)
<1> USE LlConstants DEF LlPositive
<1>1. ASSUME NEW x \in Int, x >= (now + 1) - LlWindow
      PROVE  /\ x >= now - LlWindow
             /\ LlAfter(Since(w, now + 1), x) = LlAfter(w, x)
             /\ LlAfter(w, x) \in Nat /\ LlAfter(f, x) \in Nat
    <2>1. x >= now - LlWindow
        BY <1>1
    <2>2. LlAfter(Since(w, now + 1), x) = LlAfter(w, x)
        BY <1>1, LlSince
    <2>3. LlAfter(w, x) \in Nat /\ LlAfter(f, x) \in Nat
        BY LlMasked
    <2> QED
        BY <2>1, <2>2, <2>3
<1>2. CASE ~(u > now)
    <2>1. PICK j \in 0..LlOthers :
             \A x \in Int : x >= now - LlWindow => LlAfter(w, x) <= LlAfter(f, x) + j + d
        BY <1>2 DEF LlBounded
    <2>2. ~(u > now + 1)
        BY <1>2
    <2> QED
        BY <1>1, <2>1, <2>2 DEF LlBounded
<1>3. CASE u > now
    <2>1. PICK j \in Nat :
             /\ j + o <= LlOthers
             /\ \A x \in Int : x >= now - LlWindow =>
                   LlAfter(w, x) <= (IF x < u - LlLockout THEN T + LlOthers ELSE 0) + j + d
        BY <1>3 DEF LlBounded
    <2>2. CASE u > now + 1
        BY <1>1, <2>1, <2>2 DEF LlBounded
    <2>3. CASE ~(u > now + 1)
        <3>1. j \in 0..LlOthers
            BY <2>1
        <3>2. ASSUME NEW x \in Int, x >= (now + 1) - LlWindow
              PROVE  LlAfter(Since(w, now + 1), x) <= LlAfter(f, x) + j + d
            <4>1. ~(x < u - LlLockout)
                BY <2>3, <3>2
            <4>2. LlAfter(w, x) <= 0 + j + d
                BY <1>1, <2>1, <3>2, <4>1
            <4> QED
                BY <1>1, <3>2, <4>2
        <3> QED
            BY <2>3, <3>1, <3>2 DEF LlBounded
    <2> QED
        BY <2>2, <2>3
<1> QED
    BY <1>2, <1>3

(* What the bound comes to for the whole window.                           *)
LEMMA LlBoundHolds ==
    ASSUME NEW f \in LlTables, NEW u \in Nat, NEW w \in LlTables, NEW now \in LlTimes,
           \A t \in LlTimes : w[t] # 0 => now - t < LlWindow,
           NEW d \in Nat, NEW o \in Nat, NEW T \in Nat, d <= o, d <= LlOthers + 1, HowMany(f) < T,
           LlBounded(f, u, w, now, d, o, T)
    PROVE  HowMany(w) <= T + 2 * LlOthers
<1> USE LlConstants DEF LlPositive
<1> DEFINE x == now - LlWindow
<1>1. x \in Int /\ x >= now - LlWindow
    OBVIOUS
<1>2. \A t \in LlTimes : w[t] # 0 => t > x
    OBVIOUS
<1>3. /\ LlAfter(w, x) = HowMany(w) /\ HowMany(w) \in Nat
      /\ LlAfter(f, x) <= HowMany(f) /\ HowMany(f) \in Nat /\ LlAfter(f, x) \in Nat
    BY <1>1, <1>2, LlAfterAll, LlMasked, LlHowMany
<1> HIDE DEF x
<1>4. CASE u > now
    <2>1. PICK j \in Nat :
             /\ j + o <= LlOthers
             /\ LlAfter(w, x) <= (IF x < u - LlLockout THEN T + LlOthers ELSE 0) + j + d
        BY <1>1, <1>4 DEF LlBounded
    <2>2. LlAfter(w, x) <= T + LlOthers + j + d
        BY <1>3, <2>1
    <2> QED
        BY <1>3, <2>1, <2>2
<1>5. CASE ~(u > now)
    <2>1. PICK j \in 0..LlOthers : LlAfter(w, x) <= LlAfter(f, x) + j + d
        BY <1>1, <1>5 DEF LlBounded
    <2> QED
        BY <1>3, <2>1
<1> QED
    BY <1>4, <1>5

-----------------------------------------------------------------------------
(* Requests and the keys they are counted for.                             *)

LlKeysOf(c) == {llCaller[c].ip, Principal(llCaller[c].ip, llCaller[c].account)}

LEMMA LlKeys ==
    /\ LlCounted \subseteq LimitKeys
    /\ \A k \in LimitKeys : ThresholdFor(k) \in Nat \ {0}
    /\ \A c \in LlCallers : LlCallersTyped /\ llCaller[c].at # "out" => LlKeysOf(c) \subseteq LimitKeys
<1>1. LlCounted \subseteq LimitKeys
    BY LlAssumption DEF LlCounted, LimitKeys
<1>2. \A k \in LimitKeys : ThresholdFor(k) \in Nat \ {0}
    BY LlAssumption DEF ThresholdFor
<1>3. ASSUME LlCallersTyped, NEW c \in LlCallers, llCaller[c].at # "out" PROVE LlKeysOf(c) \subseteq LimitKeys
    BY <1>3 DEF LlCallersTyped, LlKeysOf, LimitKeys, Principal
<1> QED
    BY <1>1, <1>2, <1>3

LEMMA LlNumbers ==
    ASSUME NEW k
    PROVE  /\ IsFiniteSet(LlDue(k)) /\ IsFiniteSet(LlOpen(k))
           /\ Cardinality(LlDue(k)) \in Nat /\ Cardinality(LlOpen(k)) \in Nat
           /\ Cardinality(LlDue(k)) <= Cardinality(LlOpen(k))
           /\ Cardinality(LlDue(k)) <= LlOthers + 1
<1>1. LlDue(k) \subseteq LlOpen(k) /\ LlOpen(k) \subseteq LlCallers /\ LlDue(k) \subseteq LlCallers
    BY DEF LlDue, LlOpen, LlOf
<1>2. IsFiniteSet(LlCallers)
    BY LlAssumption
<1>3. IsFiniteSet(LlOpen(k)) /\ IsFiniteSet(LlDue(k))
    BY <1>1, <1>2, FS_Subset
<1>4. /\ Cardinality(LlDue(k)) <= Cardinality(LlOpen(k))
      /\ Cardinality(LlDue(k)) <= Cardinality(LlCallers)
    BY <1>1, <1>2, <1>3, FS_Subset
<1> QED
    BY <1>3, <1>4, FS_CardinalityType, LlConstants DEF LlPositive

(* A request goes on to another place.                                     *)
LEMMA LlProceeds ==
    ASSUME LlCallersTyped, NEW c \in LlCallers, llCaller[c].at # "out", NEW b \in LlPlaces, Proceed(c, b)
    PROVE  /\ LlCallersTyped'
           /\ \A places \in SUBSET (LlPlaces \ {"out"}) : \A k :
                LlOf(k, places)' = IF b \in places /\ k \in LlKeysOf(c) THEN LlOf(k, places) \cup {c} ELSE LlOf(k, places) \ {c}
<1>1. /\ \A d \in LlCallers \ {c} : llCaller'[d] = llCaller[d]
      /\ llCaller'[c] = IF b = "out" THEN LlOut ELSE [llCaller[c] EXCEPT !.at = b]
      /\ llCaller' \in [LlCallers -> [at : LlPlaces, ip : LlIps \cup {LlOut.ip}, account : LlAccounts \cup {LlOut.account},
                                      gate : {"allow", "password"}, proof : {"hash", "token", "cached"}]]
    BY DEF Proceed, LlCallersTyped, LlOut, LlPlaces
<1>2. /\ llCaller'[c].at = b
      /\ b # "out" => /\ llCaller'[c].ip = llCaller[c].ip /\ llCaller'[c].account = llCaller[c].account
                      /\ llCaller'[c].gate = llCaller[c].gate
    BY <1>1 DEF LlCallersTyped, LlOut
<1>3. LlCallersTyped'
    BY <1>1, <1>2 DEF LlCallersTyped
<1>4. ASSUME NEW places \in SUBSET (LlPlaces \ {"out"}), NEW k
      PROVE  LlOf(k, places)' = IF b \in places /\ k \in LlKeysOf(c) THEN LlOf(k, places) \cup {c} ELSE LlOf(k, places) \ {c}
    <2>1. \A d \in LlCallers \ {c} : d \in LlOf(k, places)' <=> d \in LlOf(k, places)
        BY <1>1 DEF LlOf
    <2>2. c \in LlOf(k, places)' <=> b \in places /\ k \in LlKeysOf(c)
        BY <1>2, <1>4 DEF LlOf, LlKeysOf
    <2>3. LlOf(k, places)' \subseteq LlCallers /\ LlOf(k, places) \subseteq LlCallers
        BY DEF LlOf
    <2> QED
        BY <2>1, <2>2, <2>3
<1> QED
    BY <1>3, <1>4

(* Of a request at one place, the keys it is counted for, as open and as wrong. *)
LEMMA LlIsOf ==
    ASSUME LlCallersTyped, NEW c \in LlCallers, NEW k, NEW places
    PROVE  c \in LlOf(k, places) <=> llCaller[c].at \in places /\ k \in LlKeysOf(c)
    BY DEF LlOf, LlKeysOf

LEMMA LlIsOne ==
    ASSUME LlCallersTyped, NEW c \in LlCallers, llCaller[c].at # "out"
    PROVE  /\ llCaller[c].ip \in LlIps
           /\ Principal(llCaller[c].ip, llCaller[c].account) \notin LlIps
           /\ Principal(llCaller[c].ip, llCaller[c].account) \in LlCounted => llCaller[c].account \in LlKnown
<1>1. llCaller[c].ip \in LlIps /\ llCaller[c].account \in LlAccounts
    BY DEF LlCallersTyped
<1>2. Principal(llCaller[c].ip, llCaller[c].account) \in LlIps \X LlAccounts
    BY <1>1 DEF Principal
<1>3. Principal(llCaller[c].ip, llCaller[c].account) \notin LlIps
    BY <1>2, LlAssumption
<1> QED
    BY <1>1, <1>3 DEF LlCounted, Principal

(* The places, for a key, of the two kinds.                                *)
LEMMA LlKinds ==
    ASSUME NEW k
    PROVE  /\ LlUnrecorded(k) \in SUBSET (LlPlaces \ {"out"})
           /\ LlUnrecorded(k) \cup LlVerifying(k) \in SUBSET (LlPlaces \ {"out"})
    BY DEF LlUnrecorded, LlVerifying, LlPlaces

(* How the sets of a key follow from a request's going on.                 *)
LEMMA LlSetsFollow ==
    ASSUME LlCallersTyped, NEW c \in LlCallers, llCaller[c].at # "out", NEW b \in LlPlaces, Proceed(c, b), NEW k
    PROVE  /\ k \notin LlKeysOf(c) => LlDue(k)' = LlDue(k) /\ LlOpen(k)' = LlOpen(k)
           /\ (llCaller[c].at \in LlUnrecorded(k) <=> b \in LlUnrecorded(k)) => LlDue(k)' = LlDue(k)
           /\ (llCaller[c].at \in LlUnrecorded(k) \cup LlVerifying(k) <=> b \in LlUnrecorded(k) \cup LlVerifying(k))
                 => LlOpen(k)' = LlOpen(k)
           /\ b \notin LlUnrecorded(k) \cup LlVerifying(k) => LlOpen(k)' = LlOpen(k) \ {c}
           /\ b \notin LlUnrecorded(k) => LlDue(k)' = LlDue(k) \ {c}
           /\ b \in LlUnrecorded(k) /\ k \in LlKeysOf(c) => LlDue(k)' = LlDue(k) \cup {c}
<1> DEFINE P == LlUnrecorded(k)
           Q == LlUnrecorded(k) \cup LlVerifying(k)
<1>1. P \in SUBSET (LlPlaces \ {"out"}) /\ Q \in SUBSET (LlPlaces \ {"out"})
    BY LlKinds
<1>2. /\ LlDue(k) = LlOf(k, P) /\ LlOpen(k) = LlOf(k, Q)
      /\ LlDue(k)' = LlOf(k, P)' /\ LlOpen(k)' = LlOf(k, Q)'
    BY DEF LlDue, LlOpen
<1>3. /\ c \in LlOf(k, P) <=> llCaller[c].at \in P /\ k \in LlKeysOf(c)
      /\ c \in LlOf(k, Q) <=> llCaller[c].at \in Q /\ k \in LlKeysOf(c)
    BY LlIsOf
<1> HIDE DEF P, Q
<1>4. /\ LlOf(k, P)' = IF b \in P /\ k \in LlKeysOf(c) THEN LlOf(k, P) \cup {c} ELSE LlOf(k, P) \ {c}
      /\ LlOf(k, Q)' = IF b \in Q /\ k \in LlKeysOf(c) THEN LlOf(k, Q) \cup {c} ELSE LlOf(k, Q) \ {c}
    BY <1>1, LlProceeds
<1>5. /\ k \notin LlKeysOf(c) => LlDue(k)' = LlDue(k) /\ LlOpen(k)' = LlOpen(k)
      /\ (llCaller[c].at \in P <=> b \in P) => LlDue(k)' = LlDue(k)
      /\ (llCaller[c].at \in Q <=> b \in Q) => LlOpen(k)' = LlOpen(k)
      /\ b \notin Q => LlOpen(k)' = LlOpen(k) \ {c}
      /\ b \notin P => LlDue(k)' = LlDue(k) \ {c}
      /\ b \in P /\ k \in LlKeysOf(c) => LlDue(k)' = LlDue(k) \cup {c}
    BY <1>2, <1>3, <1>4
<1> QED
    BY <1>5 DEF P, Q

-----------------------------------------------------------------------------
(* The table of entries.                                                   *)

LlEntryOK(k, e, now) == e \in LlEntry /\ LlEntryGood(k, e, now)

LEMMA LlFresh ==
    ASSUME NEW k \in LimitKeys, NEW now \in LlTimes
    PROVE  LlEntryOK(k, NoEntry, now)
<1>1. now \in Nat /\ LlLockout \in Nat /\ ThresholdFor(k) \in Nat \ {0}
    BY LlKeys, LlConstants DEF LlPositive
<1>2. /\ NoEntry.failures = NoTimes /\ NoEntry.until = 0 /\ NoEntry.seen = 0 /\ ~NoEntry.there
      /\ NoEntry \in LlEntry
    BY LlNoTimes DEF NoEntry, LlEntry
<1>3. \A t \in LlTimes : NoTimes[t] = 0
    BY DEF NoTimes
<1>4. HowMany(NoEntry.failures) < ThresholdFor(k) /\ NoEntry.until <= now + LlLockout
    BY <1>1, <1>2, LlNoTimes
<1> QED
    BY <1>2, <1>3, <1>4 DEF LlEntryOK, LlEntryGood

LEMMA LlPrunedOK ==
    ASSUME NEW k \in LimitKeys, llNow \in LlTimes, NEW e, LlEntryOK(k, e, llNow), e.there
    PROVE  /\ LlEntryOK(k, Pruned(e), llNow)
           /\ Pruned(e).there /\ Pruned(e).until = e.until
           /\ \A x \in Int : x >= llNow - LlWindow => LlAfter(Pruned(e).failures, x) = LlAfter(e.failures, x)
<1>1. e \in LlEntry /\ e.failures \in LlTables
    BY DEF LlEntryOK, LlEntry
<1>2. /\ Pruned(e) \in LlEntry /\ Pruned(e).failures = Since(e.failures, llNow)
      /\ Pruned(e).there = e.there /\ Pruned(e).until = e.until
    BY <1>1, LlSince DEF Pruned, Recent, LlEntry
<1>3. HowMany(Since(e.failures, llNow)) < ThresholdFor(k)
    <2>1. HowMany(Since(e.failures, llNow)) <= HowMany(e.failures)
        BY <1>1, LlSince
    <2>2. HowMany(Since(e.failures, llNow)) \in Nat /\ HowMany(e.failures) \in Nat /\ ThresholdFor(k) \in Nat
        BY <1>1, LlSince, LlHowMany, LlKeys
    <2>3. HowMany(e.failures) < ThresholdFor(k)
        BY DEF LlEntryOK, LlEntryGood
    <2> QED
        BY <2>1, <2>2, <2>3
<1>4. \A t \in LlTimes : Since(e.failures, llNow)[t] # 0 => t <= llNow
    BY <1>1, LlSince DEF LlEntryOK, LlEntryGood
<1>5. LlEntryGood(k, Pruned(e), llNow)
    BY <1>2, <1>3, <1>4 DEF LlEntryOK, LlEntryGood
<1> QED
    BY <1>1, <1>2, <1>5, LlSince DEF LlEntryOK

(* A lock is left alone; an entry without one loses nothing that is recent. *)
LlKept(e, g, now) ==
    \/ e.until > now /\ g.until = e.until
    \/ /\ e.until <= now /\ g.until <= now
       /\ \A x \in Int : x >= now - LlWindow => LlAfter(g.failures, x) = LlAfter(e.failures, x)

LEMMA LlEntryIsOK ==
    ASSUME LlEntriesTyped, NEW k \in LimitKeys
    PROVE  /\ LlEntryOK(k, llEntries[k], llNow)
           /\ llEntries[k] \in LlEntry /\ llEntries[k].failures \in LlTables /\ llEntries[k].until \in Nat
           /\ llNow \in LlTimes /\ llNow \in Nat
           /\ LockedKey(k) <=> llEntries[k].until > llNow
           /\ LockedKey(k) => llEntries[k].there
           /\ ~llEntries[k].there => llEntries[k] = NoEntry
<1>1. /\ LlEntryOK(k, llEntries[k], llNow) /\ llNow \in LlTimes /\ llEntries[k] \in LlEntry
      /\ ~llEntries[k].there => llEntries[k] = NoEntry
    BY DEF LlEntriesTyped, LlEntryOK, LlEntryGood
<1>2. llNow \in Nat /\ NoEntry.until = 0
    BY <1>1, LlTimesFinite DEF NoEntry
<1> QED
    BY <1>1, <1>2 DEF LlEntry, LockedKey

LEMMA LlEmptied ==
    ASSUME LlEntriesTyped, NEW k \in LimitKeys, ~LockedKey(k), Recent(llEntries[k].failures) = NoTimes
    PROVE  LlKept(llEntries[k], NoEntry, llNow)
<1>1. llEntries[k].failures \in LlTables /\ llEntries[k].until \in Nat /\ llNow \in LlTimes /\ llNow \in Nat
    BY LlEntryIsOK
<1>2. llEntries[k].until <= llNow
    BY <1>1 DEF LockedKey
<1>3. NoEntry.until = 0 /\ NoEntry.failures = NoTimes
    BY DEF NoEntry
<1>4. \A x \in Int : x >= llNow - LlWindow => LlAfter(NoTimes, x) = LlAfter(llEntries[k].failures, x)
    BY <1>1, LlSince DEF Recent
<1> QED
    BY <1>1, <1>2, <1>3, <1>4 DEF LlKept

LEMMA LlSameKept ==
    ASSUME LlEntriesTyped, NEW k \in LimitKeys
    PROVE  LlKept(llEntries[k], llEntries[k], llNow)
<1>1. llEntries[k].until \in Nat /\ llNow \in Nat
    BY LlEntryIsOK
<1> QED
    BY <1>1 DEF LlKept

(* What every operation but a failure does with the table.                 *)
LlTableKept ==
    /\ llNow' = llNow
    /\ LlEntriesTyped' /\ LlTableBounded'
    /\ \A k \in LimitKeys : LlKept(llEntries[k], llEntries'[k], llNow)

LEMMA LlFewerEntries ==
    ASSUME LlTableBounded, LlThere(llEntries') \subseteq LlThere(llEntries)
    PROVE  LlTableBounded'
<1>1. IsFiniteSet(LlThere(llEntries)) /\ Cardinality(LlThere(llEntries)) <= LlMaxEntries /\ LlMaxEntries \in Nat
    BY LlAssumption DEF LlTableBounded
<1>2. /\ IsFiniteSet(LlThere(llEntries')) /\ Cardinality(LlThere(llEntries')) <= Cardinality(LlThere(llEntries))
      /\ Cardinality(LlThere(llEntries')) \in Nat /\ Cardinality(LlThere(llEntries)) \in Nat
    BY <1>1, FS_Subset, FS_CardinalityType
<1>3. Cardinality(LlThere(llEntries')) <= LlMaxEntries
    BY <1>1, <1>2
<1>4. LlThere(llEntries)' = LlThere(llEntries')
    BY DEF LlThere
<1> QED
    BY <1>2, <1>3, <1>4 DEF LlTableBounded

LEMMA LlTyped ==
    ASSUME LlEntriesTyped, UNCHANGED llNow, llEntries' = [k \in LimitKeys |-> llEntries'[k]],
           \A k \in LimitKeys : LlEntryOK(k, llEntries'[k], llNow)
    PROVE  LlEntriesTyped'
<1>1. llEntries' \in [LimitKeys -> LlEntry]
    BY DEF LlEntryOK
<1> QED
    BY <1>1 DEF LlEntryOK, LlEntriesTyped

LEMMA LlSameTable ==
    ASSUME LlEntriesTyped, LlTableBounded, UNCHANGED <<llEntries, llNow>>
    PROVE  LlTableKept
<1>1. LlEntriesTyped' /\ LlTableBounded'
    BY DEF LlEntriesTyped, LlTableBounded
<1> QED
    BY <1>1, LlSameKept DEF LlTableKept

LEMMA LlAllowKeeps ==
    ASSUME LlEntriesTyped, LlTableBounded, UNCHANGED llNow, NEW k \in LimitKeys, llEntries' = Allowed(k)
    PROVE  LlTableKept
<1> DEFINE e == llEntries[k]
<1>1. /\ llEntries' = [j \in LimitKeys |-> llEntries'[j]]
      /\ \A j \in LimitKeys \ {k} : llEntries'[j] = llEntries[j]
      /\ llEntries'[k] = IF e.there /\ ~LockedKey(k) /\ Recent(e.failures) = NoTimes THEN NoEntry
                         ELSE IF e.there /\ ~LockedKey(k) THEN Pruned(e) ELSE e
    BY DEF Allowed, LlEntriesTyped
<1>2. LlEntryOK(k, llEntries'[k], llNow) /\ LlKept(e, llEntries'[k], llNow) /\ (llEntries'[k].there => e.there)
    <2>1. CASE e.there /\ ~LockedKey(k) /\ Recent(e.failures) = NoTimes
        BY <1>1, <2>1, LlEntryIsOK, LlFresh, LlEmptied DEF NoEntry
    <2>2. CASE e.there /\ ~LockedKey(k) /\ Recent(e.failures) # NoTimes
        <3>1. llEntries'[k] = Pruned(e)
            BY <1>1, <2>2
        <3>2. LlEntryOK(k, e, llNow) /\ llNow \in LlTimes /\ llNow \in Nat /\ e.until \in Nat
            BY LlEntryIsOK
        <3>3. e.until <= llNow
            BY <2>2, <3>2 DEF LockedKey
        <3> HIDE DEF e
        <3> QED
            BY <2>2, <3>1, <3>2, <3>3, LlPrunedOK DEF LlKept
    <2>3. CASE ~e.there \/ LockedKey(k)
        BY <1>1, <2>3, LlEntryIsOK, LlSameKept
    <2> QED
        BY <2>1, <2>2, <2>3
<1>3. \A j \in LimitKeys \ {k} : LlEntryOK(j, llEntries'[j], llNow) /\ LlKept(llEntries[j], llEntries'[j], llNow)
    BY <1>1, LlEntryIsOK, LlSameKept
<1>4. LlThere(llEntries') \subseteq LlThere(llEntries)
    BY <1>1, <1>2 DEF LlThere
<1> HIDE DEF e
<1>5. \A j \in LimitKeys : LlEntryOK(j, llEntries'[j], llNow)
    BY <1>2, <1>3
<1>6. LlEntriesTyped'
    BY <1>1, <1>5, LlTyped
<1> QED
    BY <1>2, <1>3, <1>4, <1>6, LlFewerEntries DEF LlTableKept, e

LEMMA LlSuccessIPKeeps ==
    ASSUME LlEntriesTyped, LlTableBounded, UNCHANGED llNow, NEW k \in LimitKeys, SuccessIP(k)
    PROVE  LlTableKept
<1> DEFINE e == llEntries[k]
<1>1. /\ llEntries' = [j \in LimitKeys |-> llEntries'[j]]
      /\ \A j \in LimitKeys \ {k} : llEntries'[j] = llEntries[j]
      /\ llEntries'[k] = IF e.there THEN [e EXCEPT !.seen = llNow] ELSE e
    BY DEF SuccessIP, LlEntriesTyped
<1>2. LlEntryOK(k, llEntries'[k], llNow) /\ (llEntries'[k].there <=> e.there)
         /\ llEntries'[k].until = e.until /\ llEntries'[k].failures = e.failures
    <2>1. CASE e.there
        <3>1. e \in LlEntry /\ llNow \in Nat /\ llEntries'[k] = [e EXCEPT !.seen = llNow] /\ LlEntryGood(k, e, llNow)
            BY <1>1, <2>1, LlEntryIsOK DEF LlEntryOK
        <3> HIDE DEF e
        <3>2. /\ llEntries'[k] \in LlEntry /\ llEntries'[k].failures = e.failures
              /\ llEntries'[k].until = e.until /\ llEntries'[k].there = e.there
            BY <3>1 DEF LlEntry
        <3> QED
            BY <2>1, <3>1, <3>2 DEF LlEntryOK, LlEntryGood
    <2>2. CASE ~e.there
        BY <1>1, <2>2, LlEntryIsOK
    <2> QED
        BY <2>1, <2>2
<1>3. \A j \in LimitKeys \ {k} : LlEntryOK(j, llEntries'[j], llNow) /\ LlKept(llEntries[j], llEntries'[j], llNow)
    BY <1>1, LlEntryIsOK, LlSameKept
<1>4. LlThere(llEntries') \subseteq LlThere(llEntries)
    BY <1>1, <1>2 DEF LlThere
<1>5. LlKept(e, llEntries'[k], llNow)
    BY <1>2, LlSameKept DEF LlKept
<1>6. LlEntriesTyped'
    BY <1>1, <1>2, <1>3, LlTyped
<1> QED
    BY <1>3, <1>4, <1>5, <1>6, LlFewerEntries DEF LlTableKept

(* What room is made for a new entry by: entries go, and the others that have no lock are pruned. *)
LEMMA LlEvicts ==
    ASSUME LlEntriesTyped, LlTableBounded, NEW entries \in Evicted
    PROVE  /\ entries = [j \in LimitKeys |-> entries[j]]
           /\ \A j \in LimitKeys :
                 /\ LlEntryOK(j, entries[j], llNow)
                 /\ entries[j].there \/ ~llEntries[j].there => LlKept(llEntries[j], entries[j], llNow)
                 /\ ~llEntries[j].there => entries[j] = NoEntry
           /\ IsFiniteSet(LlThere(entries)) /\ Cardinality(LlThere(entries)) < LlMaxEntries
<1> DEFINE kept == [k \in LimitKeys |-> IF ~LockedKey(k) THEN Pruned(llEntries[k]) ELSE llEntries[k]]
           live == {k \in LimitKeys : llEntries[k].there /\ (LockedKey(k) \/ kept[k].failures # NoTimes)}
<1>1. PICK drop \in {{}} \cup {{k} : k \in live} :
         /\ (drop = {}) = (Cardinality(live) < LlMaxEntries)
         /\ entries = [k \in LimitKeys |-> IF k \in live \ drop THEN kept[k] ELSE NoEntry]
    BY DEF Evicted
<1>2. /\ entries = [j \in LimitKeys |-> entries[j]]
      /\ \A j \in LimitKeys : entries[j] = IF j \in live \ drop THEN kept[j] ELSE NoEntry
    BY <1>1
<1>3. /\ live \subseteq LlThere(llEntries)
      /\ \A j \in live : j \in LimitKeys /\ llEntries[j].there
    BY DEF LlThere
<1>4. ASSUME NEW j \in LimitKeys, llEntries[j].there
      PROVE  LlEntryOK(j, kept[j], llNow) /\ LlKept(llEntries[j], kept[j], llNow)
    <2>1. LlEntryOK(j, llEntries[j], llNow) /\ llNow \in LlTimes /\ llNow \in Nat /\ llEntries[j].until \in Nat
        BY LlEntryIsOK
    <2>2. CASE LockedKey(j)
        <3>1. kept[j] = llEntries[j]
            BY <2>2
        <3> QED
            BY <2>1, <3>1, LlSameKept
    <2>3. CASE ~LockedKey(j)
        <3>1. kept[j] = Pruned(llEntries[j])
            BY <2>3
        <3>2. llEntries[j].until <= llNow
            BY <2>1, <2>3 DEF LockedKey
        <3> HIDE DEF kept
        <3> QED
            BY <1>4, <2>1, <3>1, <3>2, LlPrunedOK DEF LlKept
    <2> QED
        BY <2>2, <2>3
<1> HIDE DEF kept, live
<1>5. ASSUME NEW j \in LimitKeys
      PROVE  /\ LlEntryOK(j, entries[j], llNow)
             /\ entries[j].there \/ ~llEntries[j].there => LlKept(llEntries[j], entries[j], llNow)
             /\ ~llEntries[j].there => entries[j] = NoEntry
    <2>1. CASE j \in live \ drop
        BY <1>2, <1>3, <1>4, <2>1
    <2>2. CASE j \notin live \ drop
        <3>1. entries[j] = NoEntry /\ ~NoEntry.there
            BY <1>2, <2>2 DEF NoEntry
        <3>2. LlEntryOK(j, NoEntry, llNow)
            BY LlEntryIsOK, LlFresh
        <3>3. ~llEntries[j].there => llEntries[j] = NoEntry /\ LlKept(llEntries[j], llEntries[j], llNow)
            BY LlEntryIsOK, LlSameKept
        <3> QED
            BY <3>1, <3>2, <3>3
    <2> QED
        BY <2>1, <2>2
<1>6. IsFiniteSet(LlThere(entries)) /\ Cardinality(LlThere(entries)) < LlMaxEntries
    <2>1. LlThere(entries) \subseteq live \ drop
        BY <1>2 DEF LlThere, NoEntry
    <2>2. /\ IsFiniteSet(LlThere(llEntries)) /\ Cardinality(LlThere(llEntries)) <= LlMaxEntries
          /\ LlMaxEntries \in Nat
        BY LlAssumption DEF LlTableBounded
    <2>3. /\ IsFiniteSet(live) /\ Cardinality(live) <= LlMaxEntries /\ Cardinality(live) \in Nat
        <3>1. /\ IsFiniteSet(live) /\ Cardinality(live) <= Cardinality(LlThere(llEntries))
              /\ Cardinality(live) \in Nat /\ Cardinality(LlThere(llEntries)) \in Nat
            BY <1>3, <2>2, FS_Subset, FS_CardinalityType
        <3> QED
            BY <2>2, <3>1
    <2>4. IsFiniteSet(live \ drop) /\ Cardinality(live \ drop) \in Nat /\ Cardinality(live \ drop) < LlMaxEntries
        <3>1. CASE drop = {}
            <4>1. live \ drop = live
                BY <3>1
            <4> QED
                BY <1>1, <2>2, <2>3, <3>1, <4>1
        <3>2. CASE drop # {}
            <4>1. PICK k \in live : drop = {k}
                BY <1>1, <3>2
            <4>2. IsFiniteSet(live \ {k}) /\ Cardinality(live \ {k}) = Cardinality(live) - 1
                BY <2>3, FS_RemoveElement
            <4>3. Cardinality(live \ {k}) \in Nat
                BY <4>2, FS_CardinalityType
            <4> QED
                BY <2>2, <2>3, <4>1, <4>2, <4>3
        <3> QED
            BY <3>1, <3>2
    <2>5. /\ IsFiniteSet(LlThere(entries)) /\ Cardinality(LlThere(entries)) <= Cardinality(live \ drop)
          /\ Cardinality(LlThere(entries)) \in Nat
        BY <2>1, <2>4, FS_Subset, FS_CardinalityType
    <2> QED
        BY <2>2, <2>4, <2>5
<1> QED
    BY <1>2, <1>5, <1>6

(* The struck entry.                                                       *)
LlStruckEntry(k, e) ==
    IF HowMany(LlWith(e.failures, llNow)) >= ThresholdFor(k)
    THEN [there |-> TRUE, seen |-> llNow, failures |-> NoTimes, until |-> llNow + LlLockout]
    ELSE [there |-> TRUE, seen |-> llNow, failures |-> LlWith(e.failures, llNow), until |-> e.until]

LEMMA LlStruckOK ==
    ASSUME NEW k \in LimitKeys, llNow \in LlTimes, NEW e, LlEntryOK(k, e, llNow)
    PROVE  LlEntryOK(k, LlStruckEntry(k, e), llNow) /\ LlStruckEntry(k, e).there
<1> DEFINE w == LlWith(e.failures, llNow)
<1>1. /\ e \in LlEntry /\ e.failures \in LlTables /\ llNow \in Nat /\ LlLockout \in Nat
      /\ ThresholdFor(k) \in Nat \ {0}
      /\ \A t \in LlTimes : e.failures[t] # 0 => t <= llNow
    BY LlTimesFinite, LlKeys, LlConstants DEF LlEntryOK, LlEntryGood, LlEntry, LlPositive
<1>2. w \in LlTables /\ (\A t \in LlTimes : w[t] # 0 => t <= llNow) /\ HowMany(w) \in Nat
    BY <1>1, LlOneMore, LlHowMany
<1> HIDE DEF w
<1>3. CASE HowMany(w) >= ThresholdFor(k)
    <2> DEFINE g == [there |-> TRUE, seen |-> llNow, failures |-> NoTimes, until |-> llNow + LlLockout]
    <2>1. LlStruckEntry(k, e) = g
        BY <1>3 DEF LlStruckEntry, w
    <2>2. g \in LlEntry /\ g.there /\ g.until = llNow + LlLockout /\ g.failures = NoTimes
        BY <1>1, LlNoTimes DEF LlEntry
    <2> HIDE DEF g
    <2>3. HowMany(g.failures) < ThresholdFor(k) /\ (\A t \in LlTimes : g.failures[t] = 0) /\ g.until <= llNow + LlLockout
        BY <1>1, <2>2, LlNoTimes DEF NoTimes
    <2> QED
        BY <2>1, <2>2, <2>3 DEF LlEntryOK, LlEntryGood
<1>4. CASE ~(HowMany(w) >= ThresholdFor(k))
    <2> DEFINE g == [there |-> TRUE, seen |-> llNow, failures |-> w, until |-> e.until]
    <2>1. LlStruckEntry(k, e) = g
        BY <1>4 DEF LlStruckEntry, w
    <2>2. g \in LlEntry /\ g.there /\ g.until = e.until /\ g.failures = w
        BY <1>1, <1>2 DEF LlEntry
    <2> HIDE DEF g
    <2>3. HowMany(g.failures) < ThresholdFor(k) /\ g.until <= llNow + LlLockout
        BY <1>1, <1>2, <1>4, <2>2 DEF LlEntryOK, LlEntryGood
    <2> QED
        BY <1>2, <2>1, <2>2, <2>3 DEF LlEntryOK, LlEntryGood
<1> QED
    BY <1>3, <1>4

(* A failure: the entry of its key is struck unless it is locked; entries of other keys are kept, or dropped with the
   guesses told. *)
LEMMA LlFailureDoes ==
    ASSUME LlEntriesTyped, LlTableBounded, LlWrongTyped, UNCHANGED llNow, NEW k \in LimitKeys, Failure(k)
    PROVE  /\ LlEntriesTyped' /\ LlTableBounded'
           /\ llWrong' = [j \in LimitKeys |-> llWrong'[j]]
           /\ \A j \in LimitKeys \ {k} :
                 \/ llWrong'[j] = llWrong[j] /\ LlKept(llEntries[j], llEntries'[j], llNow)
                 \/ llWrong'[j] = NoTimes /\ llEntries'[j].until <= llNow
           /\ llWrong'[k] = llWrong[k]
           /\ LockedKey(k) => llEntries'[k] = llEntries[k]
           /\ ~LockedKey(k) => llEntries'[k] = LlStruckEntry(k, llEntries[k])
<1>1. ASSUME llEntries[k].there, llEntries' = Struck(llEntries, k), UNCHANGED llWrong
      PROVE  /\ llEntries' = [j \in LimitKeys |-> llEntries'[j]]
             /\ \A j \in LimitKeys \ {k} : llEntries'[j] = llEntries[j]
             /\ LockedKey(k) => llEntries'[k] = llEntries[k]
             /\ ~LockedKey(k) => llEntries'[k] = LlStruckEntry(k, llEntries[k])
    BY <1>1 DEF Struck, LlStruckEntry, Another, Recent, LlWith, LlEntriesTyped
<1>2. CASE llEntries[k].there /\ llEntries' = Struck(llEntries, k) /\ UNCHANGED llWrong
    <2>1. LlEntryOK(k, llEntries'[k], llNow)
        BY <1>1, <1>2, LlEntryIsOK, LlStruckOK
    <2>2. \A j \in LimitKeys : LlEntryOK(j, llEntries'[j], llNow)
        BY <1>1, <1>2, <2>1, LlEntryIsOK
    <2>3. LlEntriesTyped'
        BY <1>1, <1>2, <2>2, LlTyped
    <2>4. LlThere(llEntries') \subseteq LlThere(llEntries)
        BY <1>1, <1>2 DEF LlThere
    <2>5. LlTableBounded'
        BY <2>4, LlFewerEntries
    <2>6. llWrong' = [j \in LimitKeys |-> llWrong'[j]]
        BY <1>2 DEF LlWrongTyped
    <2> QED
        BY <1>1, <1>2, <2>3, <2>5, <2>6, LlSameKept
<1>3. ASSUME ~llEntries[k].there, NEW entries \in Evicted, llEntries' = Struck(entries, k),
             llWrong' = [j \in LimitKeys |-> IF j = k \/ entries[j].there \/ ~llEntries[j].there THEN llWrong[j] ELSE NoTimes]
      PROVE  /\ LlEntriesTyped' /\ LlTableBounded'
             /\ llWrong' = [j \in LimitKeys |-> llWrong'[j]]
             /\ \A j \in LimitKeys \ {k} :
                   \/ llWrong'[j] = llWrong[j] /\ LlKept(llEntries[j], llEntries'[j], llNow)
                   \/ llWrong'[j] = NoTimes /\ llEntries'[j].until <= llNow
             /\ llWrong'[k] = llWrong[k]
             /\ ~LockedKey(k) /\ llEntries'[k] = LlStruckEntry(k, llEntries[k])
    <2>1. /\ entries = [j \in LimitKeys |-> entries[j]]
          /\ \A j \in LimitKeys :
                /\ LlEntryOK(j, entries[j], llNow)
                /\ entries[j].there \/ ~llEntries[j].there => LlKept(llEntries[j], entries[j], llNow)
                /\ ~llEntries[j].there => entries[j] = NoEntry
          /\ IsFiniteSet(LlThere(entries)) /\ Cardinality(LlThere(entries)) < LlMaxEntries
        BY <1>3, LlEvicts
    <2>2. ~LockedKey(k) /\ llEntries[k] = NoEntry /\ entries[k] = llEntries[k] /\ LlEntryOK(k, llEntries[k], llNow)
             /\ llNow \in LlTimes /\ llNow \in Nat
        BY <1>3, <2>1, LlEntryIsOK
    <2>3. /\ llEntries' = [j \in LimitKeys |-> llEntries'[j]]
          /\ \A j \in LimitKeys \ {k} : llEntries'[j] = entries[j]
          /\ llEntries'[k] = LlStruckEntry(k, llEntries[k])
        BY <1>3, <2>1, <2>2 DEF Struck, LlStruckEntry, Another, Recent, LlWith
    <2>4. LlEntryOK(k, llEntries'[k], llNow)
        BY <2>2, <2>3, LlStruckOK
    <2>5. \A j \in LimitKeys : LlEntryOK(j, llEntries'[j], llNow)
        BY <2>1, <2>3, <2>4
    <2>6. LlEntriesTyped'
        BY <2>3, <2>5, LlTyped
    <2>7. LlTableBounded'
        <3>1. LlThere(llEntries') \subseteq LlThere(entries) \cup {k}
            BY <2>3 DEF LlThere
        <3>2. /\ IsFiniteSet(LlThere(entries) \cup {k})
              /\ Cardinality(LlThere(entries) \cup {k}) <= Cardinality(LlThere(entries)) + 1
              /\ Cardinality(LlThere(entries)) \in Nat
            <4> DEFINE S == LlThere(entries)
            <4>1. IsFiniteSet(S) /\ Cardinality(S) \in Nat
                BY <2>1, FS_CardinalityType
            <4> HIDE DEF S
            <4>2. IsFiniteSet(S \cup {k}) /\ Cardinality(S \cup {k}) = IF k \in S THEN Cardinality(S) ELSE Cardinality(S) + 1
                BY <4>1, FS_AddElement
            <4>3. Cardinality(S \cup {k}) <= Cardinality(S) + 1
                BY <4>1, <4>2
            <4> QED
                BY <4>1, <4>2, <4>3 DEF S
        <3>3. /\ IsFiniteSet(LlThere(llEntries'))
              /\ Cardinality(LlThere(llEntries')) <= Cardinality(LlThere(entries) \cup {k})
              /\ Cardinality(LlThere(llEntries')) \in Nat /\ Cardinality(LlThere(entries) \cup {k}) \in Nat
            BY <3>1, <3>2, FS_Subset, FS_CardinalityType
        <3>4. LlMaxEntries \in Nat
            BY LlAssumption
        <3>5. Cardinality(LlThere(llEntries')) <= LlMaxEntries
            BY <2>1, <3>2, <3>3, <3>4
        <3>6. LlThere(llEntries)' = LlThere(llEntries')
            BY DEF LlThere
        <3> QED
            BY <3>3, <3>5, <3>6 DEF LlTableBounded
    <2>8. ASSUME NEW j \in LimitKeys \ {k}
          PROVE  \/ llWrong'[j] = llWrong[j] /\ LlKept(llEntries[j], llEntries'[j], llNow)
                 \/ llWrong'[j] = NoTimes /\ llEntries'[j].until <= llNow
        <3>1. CASE entries[j].there \/ ~llEntries[j].there
            BY <1>3, <2>1, <2>3, <3>1
        <3>2. CASE ~(entries[j].there \/ ~llEntries[j].there)
            <4>1. llWrong'[j] = NoTimes
                BY <1>3, <3>2
            <4>2. entries[j] = NoEntry
                BY <2>1, <3>2 DEF LlEntryOK, LlEntryGood
            <4>3. llEntries'[j].until = 0
                BY <2>3, <4>2 DEF NoEntry
            <4> QED
                BY <2>2, <4>1, <4>3
        <3> QED
            BY <3>1, <3>2
    <2> QED
        BY <1>3, <2>2, <2>3, <2>6, <2>7, <2>8
<1> QED
    BY <1>2, <1>3 DEF Failure

LEMMA LlSuccessDoes ==
    ASSUME LlEntriesTyped, LlTableBounded, LlWrongTyped, UNCHANGED llNow, NEW k \in LimitKeys, Success(k)
    PROVE  /\ LlEntriesTyped' /\ LlTableBounded'
           /\ llWrong' = [j \in LimitKeys |-> llWrong'[j]]
           /\ \A j \in LimitKeys :
                 \/ llWrong'[j] = llWrong[j] /\ LlKept(llEntries[j], llEntries'[j], llNow)
                 \/ llWrong'[j] = NoTimes /\ llEntries'[j].until <= llNow
<1>1. /\ llEntries' = [j \in LimitKeys |-> llEntries'[j]] /\ llWrong' = [j \in LimitKeys |-> llWrong'[j]]
      /\ \A j \in LimitKeys \ {k} : llEntries'[j] = llEntries[j] /\ llWrong'[j] = llWrong[j]
      /\ llEntries'[k] = NoEntry /\ llWrong'[k] = NoTimes
    BY DEF Success, LlEntriesTyped, LlWrongTyped
<1>2. \A j \in LimitKeys : LlEntryOK(j, llEntries'[j], llNow)
    BY <1>1, LlEntryIsOK, LlFresh
<1>3. LlEntriesTyped'
    BY <1>1, <1>2, LlTyped
<1>4. LlThere(llEntries') \subseteq LlThere(llEntries)
    BY <1>1 DEF LlThere, NoEntry
<1>5. llEntries'[k].until <= llNow
    <2>1. llNow \in Nat /\ NoEntry.until = 0
        BY LlEntryIsOK DEF NoEntry
    <2> QED
        BY <1>1, <2>1
<1> QED
    BY <1>1, <1>3, <1>4, <1>5, LlFewerEntries, LlSameKept

-----------------------------------------------------------------------------
(* Every step keeps the bound of every key.                                *)

LEMMA LlInitHolds == LlInit => LlInv
<1> SUFFICES ASSUME LlInit PROVE LlInv
    OBVIOUS
<1>1. llNow \in LlTimes /\ llNow = 1 /\ llNow \in Nat
    BY LlAssumption DEF LlInit, LlTimes
<1>2. LlCallersTyped
    BY DEF LlInit, LlCallersTyped, LlOut, LlPlaces
<1>3. \A k \in LimitKeys : LlEntryOK(k, llEntries[k], llNow) /\ llEntries[k] = NoEntry
    BY <1>1, LlFresh DEF LlInit
<1>4. LlEntriesTyped
    BY <1>1, <1>3 DEF LlEntriesTyped, LlEntryOK, LlInit
<1>5. LlTableBounded
    <2>1. LlThere(llEntries) = {}
        BY <1>3 DEF LlThere, NoEntry
    <2>2. LlMaxEntries \in Nat
        BY LlAssumption
    <2> QED
        BY <2>1, <2>2, FS_EmptySet DEF LlTableBounded
<1>6. LlWrongTyped
    BY LlNoTimes DEF LlInit, LlWrongTyped, NoTimes
<1>7. ASSUME NEW k \in LlCounted PROVE LlKeyBounded(k)
    <2>1. k \in LimitKeys /\ ThresholdFor(k) \in Nat
        BY LlKeys
    <2>2. /\ llEntries[k].failures \in LlTables /\ llEntries[k].until = 0 /\ llWrong[k] = NoTimes
        BY <1>3, <2>1, LlNoTimes DEF NoEntry, LlInit
    <2>3. LlBounded(llEntries[k].failures, llEntries[k].until, NoTimes, llNow, Cardinality(LlDue(k)), Cardinality(LlOpen(k)),
                    ThresholdFor(k))
        <3> DEFINE f == llEntries[k].failures
                   u == llEntries[k].until
                   d == Cardinality(LlDue(k))
                   o == Cardinality(LlOpen(k))
                   T == ThresholdFor(k)
        <3>1. f \in LlTables /\ u \in Nat /\ u <= llNow /\ T \in Nat
            BY <1>1, <2>1, <2>2
        <3>2. d \in Nat /\ o \in Nat
            BY LlNumbers
        <3> HIDE DEF f, u, d, o, T
        <3>3. LlBounded(f, u, NoTimes, llNow, d, o, T)
            BY <1>1, <3>1, <3>2, LlForgotten
        <3> QED
            BY <3>3 DEF f, u, d, o, T
    <2> QED
        BY <2>2, <2>3 DEF LlKeyBounded
<1> QED
    BY <1>2, <1>4, <1>5, <1>6, <1>7 DEF LlInv

LEMMA LlKeyQuiet ==
    ASSUME LlEntriesTyped, LlEntriesTyped', LlWrongTyped, llNow' = llNow, NEW k \in LlCounted, LlKeyBounded(k),
           llWrong'[k] = llWrong[k], LlKept(llEntries[k], llEntries'[k], llNow),
           LlDue(k)' = LlDue(k), LlOpen(k)' \subseteq LlOpen(k) \/ ~LockedKey(k), IsFiniteSet(LlOpen(k)')
    PROVE  LlKeyBounded(k)'
<1> DEFINE d == Cardinality(LlDue(k))
           o == Cardinality(LlOpen(k))
           p == Cardinality(LlOpen(k)')
           e == llEntries[k]
           g == llEntries'[k]
<1>1. /\ k \in LimitKeys /\ ThresholdFor(k) \in Nat
      /\ e.failures \in LlTables /\ g.failures \in LlTables /\ e.until \in Nat /\ g.until \in Nat
      /\ llNow \in LlTimes /\ llNow \in Nat /\ llWrong[k] \in LlTables
      /\ d \in Nat /\ o \in Nat
    <2>1. k \in LimitKeys /\ ThresholdFor(k) \in Nat
        BY LlKeys
    <2>2. e.failures \in LlTables /\ e.until \in Nat /\ llNow \in LlTimes /\ llNow \in Nat
        BY <2>1, LlEntryIsOK
    <2>3. g.failures \in LlTables /\ g.until \in Nat
        BY <2>1 DEF LlEntriesTyped, LlEntry
    <2> QED
        BY <2>1, <2>2, <2>3, LlNumbers DEF LlWrongTyped
<1>2. LlBounded(e.failures, e.until, llWrong[k], llNow, d, o, ThresholdFor(k))
    BY DEF LlKeyBounded
<1>3. p \in Nat /\ (LlOpen(k)' \subseteq LlOpen(k) => p <= o)
    BY LlNumbers, FS_Subset, FS_CardinalityType
<1>4. \/ e.until > llNow /\ g.until = e.until /\ p <= o
      \/ /\ e.until <= llNow /\ g.until <= llNow
         /\ \A x \in Int : x >= llNow - LlWindow => LlAfter(g.failures, x) = LlAfter(e.failures, x)
    <2>1. LockedKey(k) <=> e.until > llNow
        BY DEF LockedKey
    <2>2. CASE e.until > llNow
        BY <1>1, <1>3, <2>1, <2>2 DEF LlKept
    <2>3. CASE ~(e.until > llNow)
        BY <1>1, <2>3 DEF LlKept
    <2> QED
        BY <2>2, <2>3
<1> DEFINE ef == e.failures
           eu == e.until
           gf == g.failures
           gu == g.until
           w == llWrong[k]
           T == ThresholdFor(k)
<1>5. /\ ef \in LlTables /\ eu \in Nat /\ gf \in LlTables /\ gu \in Nat /\ w \in LlTables /\ llNow \in LlTimes
      /\ d \in Nat /\ o \in Nat /\ p \in Nat /\ T \in Nat
      /\ LlBounded(ef, eu, w, llNow, d, o, T)
      /\ \/ eu > llNow /\ gu = eu /\ p <= o
         \/ eu <= llNow /\ gu <= llNow /\ \A x \in Int : x >= llNow - LlWindow => LlAfter(gf, x) = LlAfter(ef, x)
    BY <1>1, <1>2, <1>3, <1>4
<1> HIDE DEF d, o, p, e, g, ef, eu, gf, gu, w, T
<1>6. LlBounded(gf, gu, w, llNow, d, p, T)
    BY <1>5, LlUnchanged
<1> QED
    BY <1>6 DEF LlKeyBounded, d, p, g, gf, gu, w, T, ThresholdFor

LEMMA LlKeyForgotten ==
    ASSUME LlEntriesTyped', llNow' = llNow, NEW k \in LlCounted,
           llWrong'[k] = NoTimes, llEntries'[k].until <= llNow,
           IsFiniteSet(LlDue(k)'), IsFiniteSet(LlOpen(k)')
    PROVE  LlKeyBounded(k)'
<1> DEFINE d == Cardinality(LlDue(k)')
           o == Cardinality(LlOpen(k)')
           e == llEntries'[k]
<1>1. /\ ThresholdFor(k) \in Nat /\ e.failures \in LlTables /\ e.until \in Nat /\ llNow \in LlTimes
      /\ d \in Nat /\ o \in Nat
    <2>1. k \in LimitKeys /\ ThresholdFor(k) \in Nat
        BY LlKeys
    <2>2. e.failures \in LlTables /\ e.until \in Nat /\ llNow \in LlTimes
        BY <2>1 DEF LlEntriesTyped, LlEntry
    <2> QED
        BY <2>1, <2>2, FS_CardinalityType
<1> HIDE DEF d, o
<1>2. LlBounded(e.failures, e.until, NoTimes, llNow, d, o, ThresholdFor(k))
    BY <1>1, LlForgotten
<1> QED
    BY <1>2 DEF LlKeyBounded, d, o, ThresholdFor

LEMMA LlNumbersNext ==
    ASSUME NEW k
    PROVE  IsFiniteSet(LlDue(k)') /\ IsFiniteSet(LlOpen(k)')
<1>1. LlOpen(k)' \subseteq LlCallers /\ LlDue(k)' \subseteq LlCallers
    BY DEF LlDue, LlOpen, LlOf
<1> QED
    BY <1>1, LlAssumption, FS_Subset

(* A step that tells and records no wrong guess.                           *)
LEMMA LlQuietStep ==
    ASSUME LlInv, LlCallersTyped', LlTableKept, UNCHANGED llWrong,
           \A k \in LlCounted : LlDue(k)' = LlDue(k) /\ (LlOpen(k)' \subseteq LlOpen(k) \/ ~LockedKey(k))
    PROVE  LlInv'
<1>1. LlWrongTyped'
    BY DEF LlInv, LlWrongTyped, LlTableKept
<1>2. ASSUME NEW k \in LlCounted PROVE LlKeyBounded(k)'
    <2>1. k \in LimitKeys /\ IsFiniteSet(LlOpen(k)')
        BY LlKeys, LlNumbersNext
    <2> QED
        BY <2>1, LlKeyQuiet DEF LlInv, LlTableKept
<1> QED
    BY <1>1, <1>2 DEF LlInv, LlTableKept

LEMMA LlAttemptKeeps ==
    ASSUME LlInv, NEW c \in LlCallers, NEW ip \in LlIps, NEW account \in LlAccounts, NEW gate \in {"allow", "password"},
           NEW proof \in {"hash", "token", "cached"}, gate = "password" => account \notin LlKnown,
           Attempt(c, ip, account, gate, proof)
    PROVE  LlInv'
<1> DEFINE new == [at |-> "allowIp", ip |-> ip, account |-> account, gate |-> gate, proof |-> proof]
<1>1. /\ llCaller[c].at = "out" /\ UNCHANGED <<llEntries, llNow, llWrong>>
      /\ \A d \in LlCallers \ {c} : llCaller'[d] = llCaller[d]
      /\ llCaller'[c] = new
      /\ llCaller' = [d \in LlCallers |-> llCaller'[d]]
    BY DEF Attempt, LlInv, LlCallersTyped
<1>2. LlCallersTyped'
    BY <1>1 DEF LlInv, LlCallersTyped, LlPlaces
<1>3. ASSUME NEW k, NEW places \in SUBSET (LlPlaces \ {"out", "allowIp"}) PROVE LlOf(k, places)' = LlOf(k, places)
    BY <1>1, <1>3 DEF LlOf
<1>4. ASSUME NEW k PROVE LlDue(k)' = LlDue(k) /\ LlOpen(k)' = LlOpen(k)
    <2>1. /\ LlUnrecorded(k) \in SUBSET (LlPlaces \ {"out", "allowIp"})
          /\ LlUnrecorded(k) \cup LlVerifying(k) \in SUBSET (LlPlaces \ {"out", "allowIp"})
        BY DEF LlUnrecorded, LlVerifying, LlPlaces
    <2> QED
        BY <1>3, <2>1 DEF LlDue, LlOpen
<1>5. LlTableKept
    BY <1>1, LlSameTable DEF LlInv
<1> QED
    BY <1>1, <1>2, <1>4, <1>5, LlQuietStep

LEMMA LlAllowIPKeeps ==
    ASSUME LlInv, NEW c \in LlCallers, AllowIP(c)
    PROVE  LlInv'
<1> DEFINE ip == llCaller[c].ip
           b == IF LockedKey(ip) THEN "out" ELSE llCaller[c].gate
<1>1. /\ llCaller[c].at = "allowIp" /\ llCaller[c].at # "out" /\ LlCallersTyped
      /\ UNCHANGED <<llNow, llWrong>> /\ llEntries' = Allowed(ip) /\ Proceed(c, b)
    BY DEF AllowIP, LlInv
<1>2. ip \in LlIps /\ ip \in LimitKeys /\ b \in {"out", "allow", "password"} /\ b \in LlPlaces
    BY <1>1, LlIsOne DEF LlCallersTyped, LimitKeys, LlPlaces
<1>3. LlTableKept
    BY <1>1, <1>2, LlAllowKeeps DEF LlInv
<1>4. ASSUME NEW k \in LlCounted PROVE LlDue(k)' = LlDue(k) /\ (LlOpen(k)' \subseteq LlOpen(k) \/ ~LockedKey(k))
    <2>1. LlDue(k)' = LlDue(k)
        <3>1. llCaller[c].at \notin LlUnrecorded(k) /\ b \notin LlUnrecorded(k)
            BY <1>1, <1>2 DEF LlUnrecorded
        <3> QED
            BY <1>1, <1>2, <3>1, LlSetsFollow
    <2>2. CASE LockedKey(ip) \/ k \notin LlKeysOf(c)
        <3>1. LockedKey(ip) => b \notin LlUnrecorded(k) \cup LlVerifying(k)
            BY DEF LlUnrecorded, LlVerifying
        <3> HIDE DEF b
        <3>2. LlOpen(k)' \subseteq LlOpen(k)
            BY <1>1, <1>2, <2>2, <3>1, LlSetsFollow
        <3> QED
            BY <2>1, <3>2
    <2>3. CASE ~LockedKey(ip) /\ k = ip
        BY <2>1, <2>3
    <2>4. CASE ~LockedKey(ip) /\ k = Principal(ip, llCaller[c].account)
        <3>1. k \notin LlIps /\ llCaller[c].account \in LlKnown
            BY <1>1, <2>4, LlIsOne
        <3>2. b = "allow"
            BY <1>1, <2>4, <3>1 DEF LlCallersTyped
        <3>3. b \notin LlUnrecorded(k) \cup LlVerifying(k)
            BY <3>1, <3>2 DEF LlUnrecorded, LlVerifying
        <3> HIDE DEF b
        <3>4. LlOpen(k)' \subseteq LlOpen(k)
            BY <1>1, <1>2, <3>3, LlSetsFollow
        <3> QED
            BY <2>1, <3>4
    <2> QED
        BY <2>2, <2>3, <2>4 DEF LlKeysOf
<1>5. LlCallersTyped'
    <2> HIDE DEF b
    <2> QED
        BY <1>1, <1>2, LlProceeds
<1> QED
    BY <1>1, <1>3, <1>4, <1>5, LlQuietStep

LEMMA LlPrincipalAllowKeeps ==
    ASSUME LlInv, NEW c \in LlCallers, Allow(c)
    PROVE  LlInv'
<1> DEFINE p == Principal(llCaller[c].ip, llCaller[c].account)
           b == IF LockedKey(p) THEN "out" ELSE "password"
<1>1. /\ llCaller[c].at = "allow" /\ llCaller[c].at # "out" /\ LlCallersTyped
      /\ UNCHANGED <<llNow, llWrong>> /\ llEntries' = Allowed(p) /\ Proceed(c, b)
    BY DEF Allow, LlInv, KeyOf
<1>2. p \in LimitKeys /\ b \in LlPlaces
    BY <1>1, LlKeys DEF LlKeysOf, LlPlaces
<1>3. LlTableKept
    BY <1>1, <1>2, LlAllowKeeps DEF LlInv
<1>4. ASSUME NEW k \in LlCounted PROVE LlDue(k)' = LlDue(k) /\ (LlOpen(k)' \subseteq LlOpen(k) \/ ~LockedKey(k))
    <2>1. LlDue(k)' = LlDue(k)
        <3>1. llCaller[c].at \notin LlUnrecorded(k) /\ b \notin LlUnrecorded(k)
            BY <1>1 DEF LlUnrecorded
        <3> HIDE DEF b
        <3> QED
            BY <1>1, <1>2, <3>1, LlSetsFollow
    <2>2. CASE LockedKey(p) \/ k \notin LlKeysOf(c)
        <3>1. LockedKey(p) => b \notin LlUnrecorded(k) \cup LlVerifying(k)
            BY DEF LlUnrecorded, LlVerifying
        <3> HIDE DEF b
        <3>2. LlOpen(k)' \subseteq LlOpen(k)
            BY <1>1, <1>2, <2>2, <3>1, LlSetsFollow
        <3> QED
            BY <2>1, <3>2
    <2>3. CASE ~LockedKey(p) /\ k = p
        BY <2>1, <2>3
    <2>4. CASE ~LockedKey(p) /\ k = llCaller[c].ip
        <3>1. llCaller[c].at \in LlVerifying(k) /\ b \in LlVerifying(k)
            BY <1>1, <2>4, LlIsOne DEF LlVerifying
        <3> HIDE DEF b
        <3>2. LlOpen(k)' = LlOpen(k)
            BY <1>1, <1>2, <3>1, LlSetsFollow
        <3> QED
            BY <2>1, <3>2
    <2> QED
        BY <2>2, <2>3, <2>4 DEF LlKeysOf
<1>5. LlCallersTyped'
    <2> HIDE DEF b
    <2> QED
        BY <1>1, <1>2, LlProceeds
<1> QED
    BY <1>1, <1>3, <1>4, <1>5, LlQuietStep

(* A request goes on, in the table nothing but the time of a use changes, and no request is counted that was not. *)
LEMMA LlQuietGoesOn ==
    ASSUME LlInv, NEW c \in LlCallers, llCaller[c].at # "out", NEW b \in LlPlaces, Proceed(c, b), UNCHANGED llWrong, LlTableKept,
           \A k \in LlCounted :
              /\ llCaller[c].at \notin LlUnrecorded(k) /\ b \notin LlUnrecorded(k)
              /\ b \in LlVerifying(k) => llCaller[c].at \in LlVerifying(k)
    PROVE  LlInv'
<1>1. LlCallersTyped /\ LlCallersTyped'
    BY LlProceeds DEF LlInv
<1>2. ASSUME NEW k \in LlCounted PROVE LlDue(k)' = LlDue(k) /\ LlOpen(k)' \subseteq LlOpen(k)
    <2>1. LlDue(k)' = LlDue(k)
        BY <1>1, LlSetsFollow
    <2>2. CASE b \in LlVerifying(k)
        BY <1>1, <2>1, <2>2, LlSetsFollow
    <2>3. CASE b \notin LlVerifying(k)
        BY <1>1, <2>1, <2>3, LlSetsFollow
    <2> QED
        BY <2>1, <2>2, <2>3
<1> QED
    BY <1>1, <1>2, LlQuietStep

LEMMA LlVerifyKeeps ==
    ASSUME LlInv, NEW c \in LlCallers, VerifyRequest(c) \/ Right(c)
    PROVE  LlInv'
<1>1. /\ llCaller[c].at \in {"password", "hash"} /\ UNCHANGED <<llEntries, llNow, llWrong>>
      /\ \E b \in {"hash", "out", "success"} : Proceed(c, b) /\ (b = "hash" => llCaller[c].at = "password")
    BY DEF VerifyRequest, Right, Proved
<1>2. PICK b \in {"hash", "out", "success"} : Proceed(c, b)
    BY <1>1
<1>3. llCaller[c].at # "out" /\ b \in LlPlaces
    BY <1>1 DEF LlPlaces
<1>4. \A k : /\ llCaller[c].at \notin LlUnrecorded(k) /\ b \notin LlUnrecorded(k)
             /\ b \in LlVerifying(k) => llCaller[c].at \in LlVerifying(k)
    BY <1>1 DEF LlUnrecorded, LlVerifying
<1>5. LlTableKept
    BY <1>1, LlSameTable DEF LlInv
<1> QED
    BY <1>1, <1>2, <1>3, <1>4, <1>5, LlQuietGoesOn

LEMMA LlWrongKeeps ==
    ASSUME LlInv, NEW c \in LlCallers, Wrong(c)
    PROVE  LlInv'
<1> DEFINE b == "failIp"
<1>1. /\ llCaller[c].at \in {"password", "hash"} /\ llCaller[c].at # "out" /\ UNCHANGED <<llEntries, llNow>>
      /\ Proceed(c, b) /\ b \in LlPlaces /\ LlCallersTyped /\ llNow \in LlTimes
      /\ llWrong' = [llWrong EXCEPT ![llCaller[c].ip] = Another(@),
                                    ![Principal(llCaller[c].ip, llCaller[c].account)] = Another(@)]
    BY DEF Wrong, Proved, LlInv, LlEntriesTyped, LlPlaces
<1>2. /\ llWrong' = [k \in LimitKeys |-> llWrong'[k]]
      /\ \A k \in LimitKeys : llWrong'[k] = IF k \in LlKeysOf(c) THEN LlWith(llWrong[k], llNow) ELSE llWrong[k]
    <2>1. llCaller[c].ip # Principal(llCaller[c].ip, llCaller[c].account)
        BY <1>1, LlIsOne
    <2>2. llWrong = [k \in LimitKeys |-> llWrong[k]]
        BY DEF LlInv, LlWrongTyped
    <2> QED
        BY <1>1, <2>1, <2>2 DEF LlKeysOf, Another, Recent, LlWith
<1>3. \A k \in LimitKeys : llWrong[k] \in LlTables /\ \A t \in LlTimes : llWrong[k][t] # 0 => llNow - t < LlWindow /\ t <= llNow
    BY DEF LlInv, LlWrongTyped
<1>4. LlWrongTyped'
    <2>1. ASSUME NEW k \in LimitKeys
          PROVE  llWrong'[k] \in LlTables /\ \A t \in LlTimes : llWrong'[k][t] # 0 => llNow - t < LlWindow /\ t <= llNow
        <3>1. CASE k \in LlKeysOf(c)
            <4>1. llWrong'[k] = LlWith(llWrong[k], llNow)
                BY <1>2, <3>1
            <4>2. llWrong[k] \in LlTables /\ \A t \in LlTimes : llWrong[k][t] # 0 => t <= llNow
                BY <1>3
            <4>3. /\ LlWith(llWrong[k], llNow) \in LlTables
                  /\ \A t \in LlTimes : LlWith(llWrong[k], llNow)[t] # 0 => llNow - t < LlWindow /\ t <= llNow
                BY <1>1, <4>2, LlOneMore
            <4> QED
                BY <4>1, <4>3
        <3>2. CASE k \notin LlKeysOf(c)
            BY <1>2, <1>3, <3>2
        <3> QED
            BY <3>1, <3>2
    <2> QED
        BY <1>1, <1>2, <2>1 DEF LlWrongTyped
<1>5. LlTableKept
    BY <1>1, LlSameTable DEF LlInv
<1>6. LlCallersTyped'
    BY <1>1, LlProceeds
<1>7. ASSUME NEW k \in LlCounted PROVE LlKeyBounded(k)'
    <2>1. k \in LimitKeys /\ IsFiniteSet(LlOpen(k)') /\ ThresholdFor(k) \in Nat
        BY LlKeys, LlNumbersNext
    <2>2. CASE k \notin LlKeysOf(c)
        <3>1. LlDue(k)' = LlDue(k) /\ LlOpen(k)' = LlOpen(k)
            BY <1>1, <2>2, LlSetsFollow
        <3> QED
            BY <1>1, <1>2, <1>5, <2>1, <2>2, <3>1, LlKeyQuiet DEF LlInv, LlTableKept
    <2>3. CASE k \in LlKeysOf(c)
        <3>1. /\ b \in LlUnrecorded(k) /\ llCaller[c].at \in LlVerifying(k) /\ llCaller[c].at \notin LlUnrecorded(k)
            BY <1>1 DEF LlUnrecorded, LlVerifying
        <3>2. LlDue(k)' = LlDue(k) \cup {c} /\ LlOpen(k)' = LlOpen(k)
            BY <1>1, <2>3, <3>1, LlSetsFollow
        <3>3. c \notin LlDue(k)
            BY <1>1, <3>1, LlIsOf DEF LlDue
        <3> DEFINE d == Cardinality(LlDue(k))
                   o == Cardinality(LlOpen(k))
        <3>4. Cardinality(LlDue(k)') = d + 1 /\ Cardinality(LlOpen(k)') = o
            BY <3>2, <3>3, LlNumbers, FS_AddElement
        <3>5. d \in Nat /\ o \in Nat
            BY LlNumbers
        <3>6. LlBounded(llEntries[k].failures, llEntries[k].until, llWrong[k], llNow, d, o, ThresholdFor(k))
            BY DEF LlInv, LlKeyBounded
        <3>7. llEntries[k].failures \in LlTables /\ llEntries[k].until \in Nat
            BY <2>1, LlEntryIsOK DEF LlInv
        <3> HIDE DEF d, o
        <3>8. LlBounded(llEntries[k].failures, llEntries[k].until, LlWith(llWrong[k], llNow), llNow, d + 1, o, ThresholdFor(k))
            BY <1>1, <1>3, <2>1, <3>5, <3>6, <3>7, LlTold
        <3>9. /\ llEntries' = llEntries /\ llNow' = llNow /\ llWrong'[k] = LlWith(llWrong[k], llNow)
            BY <1>1, <1>2, <2>1, <2>3
        <3> QED
            BY <3>4, <3>8, <3>9 DEF LlKeyBounded, ThresholdFor
    <2> QED
        BY <2>2, <2>3
<1> QED
    BY <1>4, <1>5, <1>6, <1>7 DEF LlInv, LlTableKept

(* What is left of the wrong guesses of a key is what was there, or nothing. *)
LEMMA LlWrongFewer ==
    ASSUME LlWrongTyped, llNow' = llNow, llWrong' = [j \in LimitKeys |-> llWrong'[j]],
           \A j \in LimitKeys : llWrong'[j] = llWrong[j] \/ llWrong'[j] = NoTimes
    PROVE  LlWrongTyped'
<1>1. \A j \in LimitKeys : llWrong'[j] \in LlTables /\ \A t \in LlTimes : llWrong'[j][t] # 0 => llNow - t < LlWindow /\ t <= llNow
    BY LlNoTimes DEF LlWrongTyped, NoTimes
<1> QED
    BY <1>1 DEF LlWrongTyped

(* A wrong guess is recorded for a key.                                    *)
LEMMA LlRecordKeeps ==
    ASSUME LlInv, UNCHANGED llNow, NEW c \in LlCallers, NEW k \in LimitKeys, Failure(k),
           NEW b \in LlPlaces, Proceed(c, b),
           \/ llCaller[c].at = "failIp" /\ b = "fail" /\ k = llCaller[c].ip
           \/ llCaller[c].at = "fail" /\ b = "out" /\ k = Principal(llCaller[c].ip, llCaller[c].account)
    PROVE  LlInv'
<1>1. /\ LlEntriesTyped' /\ LlTableBounded'
      /\ llWrong' = [j \in LimitKeys |-> llWrong'[j]]
      /\ \A j \in LimitKeys \ {k} :
            \/ llWrong'[j] = llWrong[j] /\ LlKept(llEntries[j], llEntries'[j], llNow)
            \/ llWrong'[j] = NoTimes /\ llEntries'[j].until <= llNow
      /\ llWrong'[k] = llWrong[k]
      /\ LockedKey(k) => llEntries'[k] = llEntries[k]
      /\ ~LockedKey(k) => llEntries'[k] = LlStruckEntry(k, llEntries[k])
    BY LlFailureDoes DEF LlInv
<1>2. LlCallersTyped /\ LlCallersTyped' /\ llCaller[c].at # "out" /\ k \in LlKeysOf(c)
    BY LlProceeds DEF LlInv, LlKeysOf
<1>3. LlWrongTyped'
    BY <1>1, LlWrongFewer DEF LlInv
<1>4. ASSUME NEW j \in LlCounted, j # k PROVE LlKeyBounded(j)'
    <2>1. LlDue(j)' = LlDue(j) /\ LlOpen(j)' = LlOpen(j)
        <3>1. CASE j \notin LlKeysOf(c)
            BY <1>2, <3>1, LlSetsFollow
        <3>2. CASE llCaller[c].at = "failIp" /\ j \in LlKeysOf(c)
            <4>1. b = "fail" /\ j \notin LlIps
                BY <1>2, <1>4, <3>2, LlIsOne DEF LlKeysOf
            <4>2. llCaller[c].at \in LlUnrecorded(j) /\ b \in LlUnrecorded(j)
                BY <3>2, <4>1 DEF LlUnrecorded
            <4> QED
                BY <1>2, <4>2, LlSetsFollow
        <3>3. CASE llCaller[c].at = "fail" /\ j \in LlKeysOf(c)
            <4>1. b = "out" /\ j \in LlIps
                BY <1>2, <1>4, <3>3, LlIsOne DEF LlKeysOf
            <4>2. llCaller[c].at \notin LlUnrecorded(j) \cup LlVerifying(j) /\ b \notin LlUnrecorded(j) \cup LlVerifying(j)
                BY <3>3, <4>1 DEF LlUnrecorded, LlVerifying
            <4> QED
                BY <1>2, <4>2, LlSetsFollow
        <3> QED
            BY <3>1, <3>2, <3>3
    <2>2. j \in LimitKeys \ {k} /\ IsFiniteSet(LlDue(j)') /\ IsFiniteSet(LlOpen(j)')
        BY <1>4, LlKeys, LlNumbersNext
    <2>3. CASE llWrong'[j] = llWrong[j] /\ LlKept(llEntries[j], llEntries'[j], llNow)
        BY <1>1, <2>1, <2>2, <2>3, LlKeyQuiet DEF LlInv
    <2>4. CASE llWrong'[j] = NoTimes /\ llEntries'[j].until <= llNow
        BY <1>1, <2>2, <2>4, LlKeyForgotten
    <2> QED
        BY <1>1, <2>2, <2>3, <2>4
<1>5. ASSUME k \in LlCounted PROVE LlKeyBounded(k)'
    <2> DEFINE d == Cardinality(LlDue(k))
               o == Cardinality(LlOpen(k))
               e == Cardinality(LlDue(k)')
               p == Cardinality(LlOpen(k)')
               f == llEntries[k].failures
               u == llEntries[k].until
               w == llWrong[k]
               T == ThresholdFor(k)
    <2>1. llCaller[c].at \in LlUnrecorded(k) /\ b \notin LlUnrecorded(k) \cup LlVerifying(k)
        BY <1>2, LlIsOne DEF LlUnrecorded, LlVerifying
    <2>2. LlDue(k)' = LlDue(k) \ {c} /\ LlOpen(k)' = LlOpen(k) \ {c} /\ c \in LlDue(k) /\ c \in LlOpen(k)
        BY <1>2, <2>1, LlSetsFollow, LlIsOf DEF LlDue, LlOpen
    <2>3. d \in Nat /\ o \in Nat /\ e \in Nat /\ p \in Nat /\ e + 1 = d /\ p + 1 = o /\ o <= LlOthers + 1
        <3>1. IsFiniteSet(LlDue(k)) /\ IsFiniteSet(LlOpen(k)) /\ d \in Nat /\ o \in Nat
            BY LlNumbers
        <3>2. e = d - 1 /\ p = o - 1
            BY <2>2, <3>1, FS_RemoveElement
        <3>3. e \in Nat /\ p \in Nat
            BY LlNumbersNext, FS_CardinalityType
        <3>4. o <= LlOthers + 1
            <4>1. LlOpen(k) \subseteq LlCallers
                BY DEF LlOpen, LlOf
            <4>2. o <= Cardinality(LlCallers)
                BY <4>1, LlAssumption, FS_Subset
            <4> QED
                BY <4>2, LlConstants DEF LlPositive
        <3> QED
            BY <3>1, <3>2, <3>3, <3>4
    <2>4. /\ f \in LlTables /\ u \in Nat /\ llNow \in LlTimes /\ llNow \in Nat /\ (LockedKey(k) <=> u > llNow)
          /\ HowMany(f) < T /\ T \in Nat /\ \A t \in LlTimes : f[t] # 0 => t <= llNow
        <3>1. /\ f \in LlTables /\ u \in Nat /\ llNow \in LlTimes /\ llNow \in Nat /\ (LockedKey(k) <=> u > llNow)
            BY LlEntryIsOK DEF LlInv
        <3>2. LlEntryGood(k, llEntries[k], llNow) /\ T \in Nat
            BY LlKeys DEF LlInv, LlEntriesTyped
        <3> QED
            BY <3>1, <3>2 DEF LlEntryGood
    <2>5. w \in LlTables /\ (\A t \in LlTimes : w[t] # 0 => t <= llNow) /\ llNow' = llNow
        BY DEF LlInv, LlWrongTyped
    <2>6. LlBounded(f, u, w, llNow, d, o, T)
        BY <1>5 DEF LlInv, LlKeyBounded
    <2>7. SUFFICES LlBounded(llEntries'[k].failures, llEntries'[k].until, w, llNow, e, p, T)
        BY <1>1, <2>5 DEF LlKeyBounded, ThresholdFor
    <2>8. CASE LockedKey(k)
        <3>1. llEntries'[k].failures = f /\ llEntries'[k].until = u /\ u > llNow
            BY <1>1, <2>4, <2>8
        <3>2. /\ f \in LlTables /\ u \in Nat /\ w \in LlTables /\ llNow \in LlTimes
              /\ d \in Nat /\ o \in Nat /\ T \in Nat /\ e \in Nat /\ p \in Nat /\ e + 1 = d /\ p + 1 = o
              /\ LlBounded(f, u, w, llNow, d, o, T)
            BY <2>3, <2>4, <2>5, <2>6
        <3> HIDE DEF d, o, e, p, f, u, w, T
        <3>3. LlBounded(f, u, w, llNow, e, p, T)
            BY <3>1, <3>2, LlRecordedLocked
        <3> QED
            BY <3>1, <3>3
    <2>9. CASE ~LockedKey(k)
        <3>1. llEntries'[k] = LlStruckEntry(k, llEntries[k]) /\ u <= llNow
            BY <1>1, <2>4, <2>9
        <3>2. CASE HowMany(LlWith(f, llNow)) >= T
            <4>1. llEntries'[k].failures = NoTimes /\ llEntries'[k].until = llNow + LlLockout
                BY <3>1, <3>2 DEF LlStruckEntry
            <4>2. p <= LlOthers
                BY <2>3, LlConstants DEF LlPositive
            <4>3. /\ f \in LlTables /\ u \in Nat /\ w \in LlTables /\ llNow \in LlTimes /\ u <= llNow
                  /\ \A t \in LlTimes : w[t] # 0 => t <= llNow
                  /\ d \in Nat /\ o \in Nat /\ T \in Nat /\ e \in Nat /\ p \in Nat /\ e + 1 = d /\ HowMany(f) < T
                  /\ LlBounded(f, u, w, llNow, d, o, T)
                BY <2>3, <2>4, <2>5, <2>6, <3>1
            <4> HIDE DEF d, o, e, p, f, u, w, T
            <4>4. LlBounded(NoTimes, llNow + LlLockout, w, llNow, e, p, T)
                BY <4>2, <4>3, LlRecordedLocks
            <4> QED
                BY <4>1, <4>4
        <3>3. CASE ~(HowMany(LlWith(f, llNow)) >= T)
            <4>1. llEntries'[k].failures = LlWith(f, llNow) /\ llEntries'[k].until = u
                BY <3>1, <3>3 DEF LlStruckEntry
            <4>2. /\ f \in LlTables /\ u \in Nat /\ w \in LlTables /\ llNow \in LlTimes /\ u <= llNow
                  /\ (\A t \in LlTimes : f[t] # 0 => t <= llNow) /\ (\A t \in LlTimes : w[t] # 0 => t <= llNow)
                  /\ d \in Nat /\ o \in Nat /\ T \in Nat /\ e \in Nat /\ p \in Nat /\ e + 1 = d
                  /\ LlBounded(f, u, w, llNow, d, o, T)
                BY <2>3, <2>4, <2>5, <2>6, <3>1
            <4> HIDE DEF d, o, e, p, f, u, w, T
            <4>3. LlBounded(LlWith(f, llNow), u, w, llNow, e, p, T)
                BY <4>2, LlRecordedOpen
            <4> QED
                BY <4>1, <4>3
        <3> QED
            BY <3>2, <3>3
    <2> QED
        BY <2>8, <2>9
<1> QED
    BY <1>1, <1>2, <1>3, <1>4, <1>5 DEF LlInv

LEMMA LlSuccessKeeps ==
    ASSUME LlInv, UNCHANGED llNow, NEW c \in LlCallers, llCaller[c].at = "success",
           Success(Principal(llCaller[c].ip, llCaller[c].account)), Proceed(c, "successIp")
    PROVE  LlInv'
<1> DEFINE k == Principal(llCaller[c].ip, llCaller[c].account)
           b == "successIp"
<1>1. LlCallersTyped /\ llCaller[c].at # "out" /\ k \in LimitKeys /\ b \in LlPlaces
    BY LlKeys DEF LlInv, LlKeysOf, LlPlaces
<1>2. /\ LlEntriesTyped' /\ LlTableBounded'
      /\ llWrong' = [j \in LimitKeys |-> llWrong'[j]]
      /\ \A j \in LimitKeys :
            \/ llWrong'[j] = llWrong[j] /\ LlKept(llEntries[j], llEntries'[j], llNow)
            \/ llWrong'[j] = NoTimes /\ llEntries'[j].until <= llNow
    BY <1>1, LlSuccessDoes DEF LlInv
<1>3. LlWrongTyped'
    BY <1>2, LlWrongFewer DEF LlInv
<1>4. LlCallersTyped'
    BY <1>1, LlProceeds
<1>5. ASSUME NEW j \in LlCounted PROVE LlKeyBounded(j)'
    <2>1. LlDue(j)' = LlDue(j) /\ LlOpen(j)' = LlOpen(j)
        <3>1. llCaller[c].at \notin LlUnrecorded(j) \cup LlVerifying(j) /\ b \notin LlUnrecorded(j) \cup LlVerifying(j)
            BY DEF LlUnrecorded, LlVerifying
        <3> QED
            BY <1>1, <3>1, LlSetsFollow
    <2>2. j \in LimitKeys /\ IsFiniteSet(LlDue(j)') /\ IsFiniteSet(LlOpen(j)')
        BY LlKeys, LlNumbersNext
    <2>3. CASE llWrong'[j] = llWrong[j] /\ LlKept(llEntries[j], llEntries'[j], llNow)
        BY <1>2, <2>1, <2>2, <2>3, LlKeyQuiet DEF LlInv
    <2>4. CASE llWrong'[j] = NoTimes /\ llEntries'[j].until <= llNow
        BY <1>2, <2>2, <2>4, LlKeyForgotten
    <2> QED
        BY <1>2, <2>2, <2>3, <2>4
<1> QED
    BY <1>2, <1>3, <1>4, <1>5 DEF LlInv

LEMMA LlTickKeeps ==
    ASSUME LlInv, Tick
    PROVE  LlInv'
<1>1. /\ llNow < LlMaxTime /\ llNow' = llNow + 1 /\ UNCHANGED <<llEntries, llCaller>>
      /\ llWrong' = [k \in LimitKeys |-> Since(llWrong[k], llNow + 1)]
      /\ llNow \in LlTimes /\ llNow \in Nat
    BY LlTimesFinite DEF Tick, LlInv, LlEntriesTyped
<1>2. llNow + 1 \in LlTimes
    BY <1>1, LlAssumption DEF LlTimes
<1>3. LlCallersTyped' /\ LlTableBounded'
    BY <1>1 DEF LlInv, LlCallersTyped, LlTableBounded
<1>4. LlEntriesTyped'
    <2>1. ASSUME NEW k \in LimitKeys PROVE LlEntryGood(k, llEntries[k], llNow + 1)
        <3>1. LlEntryGood(k, llEntries[k], llNow) /\ llEntries[k].until \in Nat /\ LlLockout \in Nat /\ LlTimes \subseteq Nat
            BY LlEntryIsOK, LlConstants DEF LlInv, LlEntriesTyped, LlPositive
        <3>2. llEntries[k].until <= (llNow + 1) + LlLockout
            BY <1>1, <3>1 DEF LlEntryGood
        <3>3. \A t \in LlTimes : llEntries[k].failures[t] # 0 => t <= llNow + 1
            BY <1>1, <3>1 DEF LlEntryGood
        <3> QED
            BY <3>1, <3>2, <3>3 DEF LlEntryGood
    <2> QED
        BY <1>1, <1>2, <2>1 DEF LlInv, LlEntriesTyped
<1>5. ASSUME NEW k \in LimitKeys
      PROVE  /\ llWrong[k] \in LlTables /\ Since(llWrong[k], llNow + 1) \in LlTables
             /\ \A t \in LlTimes : Since(llWrong[k], llNow + 1)[t] # 0 => (llNow + 1) - t < LlWindow /\ t <= llNow + 1
    <2>1. llWrong[k] \in LlTables /\ \A t \in LlTimes : llWrong[k][t] # 0 => t <= llNow
        BY DEF LlInv, LlWrongTyped
    <2>2. \A t \in LlTimes : t <= llNow => t <= llNow + 1
        BY <1>1, LlTimesFinite
    <2> QED
        BY <1>2, <2>1, <2>2, LlSince
<1>6. LlWrongTyped'
    BY <1>1, <1>5 DEF LlWrongTyped
<1>7. ASSUME NEW k \in LlCounted PROVE LlKeyBounded(k)'
    <2>1. /\ k \in LimitKeys /\ ThresholdFor(k) \in Nat
          /\ llEntries[k].failures \in LlTables /\ llEntries[k].until \in Nat
          /\ Cardinality(LlDue(k)) \in Nat /\ Cardinality(LlOpen(k)) \in Nat
        BY LlKeys, LlEntryIsOK, LlNumbers DEF LlInv
    <2>2. LlBounded(llEntries[k].failures, llEntries[k].until, llWrong[k], llNow, Cardinality(LlDue(k)), Cardinality(LlOpen(k)),
                    ThresholdFor(k))
        BY DEF LlInv, LlKeyBounded
    <2>3. LlBounded(llEntries[k].failures, llEntries[k].until, Since(llWrong[k], llNow + 1), llNow + 1, Cardinality(LlDue(k)),
                    Cardinality(LlOpen(k)), ThresholdFor(k))
        BY <1>1, <1>2, <1>5, <2>1, <2>2, LlTicked
    <2>4. LlDue(k)' = LlDue(k) /\ LlOpen(k)' = LlOpen(k)
        BY <1>1 DEF LlDue, LlOpen, LlOf
    <2>5. llWrong'[k] = Since(llWrong[k], llNow + 1)
        BY <1>1, <2>1
    <2> QED
        BY <1>1, <2>3, <2>4, <2>5 DEF LlKeyBounded, ThresholdFor
<1> QED
    BY <1>3, <1>4, <1>6, <1>7 DEF LlInv

LEMMA LlStep == LlInv /\ [LlNext]_llVars => LlInv'
<1> SUFFICES ASSUME LlInv, [LlNext]_llVars PROVE LlInv'
    OBVIOUS
<1>1. CASE UNCHANGED llVars
    <2>1. /\ LlTableKept /\ UNCHANGED <<llWrong, llCaller>>
        BY <1>1, LlSameTable DEF LlInv, llVars
    <2>2. LlCallersTyped' /\ \A k : LlDue(k)' = LlDue(k) /\ LlOpen(k)' = LlOpen(k)
        BY <2>1 DEF LlInv, LlCallersTyped, LlDue, LlOpen, LlOf
    <2> QED
        BY <2>1, <2>2, LlQuietStep
<1>2. ASSUME NEW c \in LlCallers, NEW ip \in LlIps, NEW account \in LlAccounts,
             \/ Login(c, ip, account) \/ JellyfinAuthenticate(c, ip, account) \/ AbsLogin(c, ip, account)
             \/ OpdsAuth(c, ip, account) \/ SubsonicAuthenticate(c, ip, account)
      PROVE  LlInv'
    <2>1. \E gate \in {"allow", "password"}, proof \in {"hash", "token", "cached"} :
             Attempt(c, ip, account, gate, proof) /\ (gate = "password" => account \notin LlKnown)
        BY <1>2 DEF Login, JellyfinAuthenticate, AbsLogin, OpdsAuth, SubsonicAuthenticate
    <2> QED
        BY <2>1, LlAttemptKeeps
<1>3. ASSUME NEW c \in LlCallers, Record(c) PROVE LlInv'
    <2>1. UNCHANGED llNow /\ LlCallersTyped /\ {"fail", "out", "successIp"} \subseteq LlPlaces
        BY <1>3 DEF Record, LlInv, LlPlaces
    <2>2. CASE llCaller[c].at = "failIp" /\ Failure(KeyOf(c, "ip")) /\ Proceed(c, "fail")
        <3>1. llCaller[c].ip \in LimitKeys /\ Failure(llCaller[c].ip)
            BY <2>1, <2>2, LlKeys DEF LlKeysOf, KeyOf
        <3> QED
            BY <2>1, <2>2, <3>1, LlRecordKeeps
    <2>3. CASE llCaller[c].at = "fail" /\ Failure(KeyOf(c, "principal")) /\ Proceed(c, "out")
        <3>1. /\ Principal(llCaller[c].ip, llCaller[c].account) \in LimitKeys
              /\ Failure(Principal(llCaller[c].ip, llCaller[c].account))
            BY <2>1, <2>3, LlKeys DEF LlKeysOf, KeyOf
        <3> QED
            BY <2>1, <2>3, <3>1, LlRecordKeeps
    <2>4. CASE llCaller[c].at = "success" /\ Success(KeyOf(c, "principal")) /\ Proceed(c, "successIp")
        BY <2>1, <2>4, LlSuccessKeeps DEF KeyOf
    <2>5. CASE llCaller[c].at = "successIp" /\ SuccessIP(llCaller[c].ip) /\ Proceed(c, "out") /\ UNCHANGED llWrong
        <3>1. llCaller[c].ip \in LimitKeys
            BY <2>1, <2>5, LlKeys DEF LlKeysOf
        <3>2. LlTableKept
            BY <2>1, <2>5, <3>1, LlSuccessIPKeeps DEF LlInv
        <3>3. \A k : /\ "successIp" \notin LlUnrecorded(k) /\ "out" \notin LlUnrecorded(k)
                     /\ "out" \notin LlVerifying(k)
            BY DEF LlUnrecorded, LlVerifying
        <3> QED
            BY <2>1, <2>5, <3>2, <3>3, LlQuietGoesOn
    <2> QED
        BY <1>3, <2>2, <2>3, <2>4, <2>5 DEF Record
<1> QED
    BY <1>1, <1>2, <1>3, LlAllowIPKeeps, LlPrincipalAllowKeeps, LlVerifyKeeps, LlWrongKeeps, LlTickKeeps DEF LlNext

(* Whatever requests in flight, evictions and the clock do, every key is bounded as LlInv says. *)
THEOREM LlAlways == LlSpec => []LlInv
    BY LlInitHolds, LlStep, PTL DEF LlSpec

(* The table of the limiter never exceeds its bound, however many addresses and names are tried, and no lock outlasts the
   lockout (LlTypeOK). *)
THEOREM LoginsTyped == LlSpec => []LlTypeOK
<1>1. LlInv => LlTypeOK
    BY DEF LlInv, LlTableBounded, LlThere, LlEntriesTyped, LlEntryGood, LlTypeOK
<1> QED
    BY <1>1, LlAlways, PTL

(* In a window, no more wrong guesses are verified against an address, or against a name that exists from an address,
   than its threshold and twice the other requests in flight (GuessesBounded). *)
THEOREM GuessesAlwaysBounded == LlSpec => []GuessesBounded
<1>1. LlInv => GuessesBounded
    <2> SUFFICES ASSUME LlInv, NEW k \in LlCounted
                 PROVE  HowMany(llWrong[k]) <= ThresholdFor(k) + 2 * (Cardinality(LlCallers) - 1)
        BY DEF GuessesBounded, LlCounted
    <2>1. /\ k \in LimitKeys /\ ThresholdFor(k) \in Nat
          /\ llEntries[k].failures \in LlTables /\ llEntries[k].until \in Nat /\ llNow \in LlTimes
          /\ HowMany(llEntries[k].failures) < ThresholdFor(k)
        BY LlKeys, LlEntryIsOK DEF LlInv, LlEntriesTyped, LlEntryGood
    <2>2. llWrong[k] \in LlTables /\ \A t \in LlTimes : llWrong[k][t] # 0 => llNow - t < LlWindow
        BY <2>1 DEF LlInv, LlWrongTyped
    <2>3. /\ Cardinality(LlDue(k)) \in Nat /\ Cardinality(LlOpen(k)) \in Nat
          /\ Cardinality(LlDue(k)) <= Cardinality(LlOpen(k)) /\ Cardinality(LlDue(k)) <= LlOthers + 1
        BY LlNumbers
    <2>4. LlBounded(llEntries[k].failures, llEntries[k].until, llWrong[k], llNow, Cardinality(LlDue(k)), Cardinality(LlOpen(k)),
                    ThresholdFor(k))
        BY DEF LlInv, LlKeyBounded
    <2>5. HowMany(llWrong[k]) <= ThresholdFor(k) + 2 * LlOthers
        BY <2>1, <2>2, <2>3, <2>4, LlBoundHolds
    <2> QED
        BY <2>5 DEF LlOthers
<1> QED
    BY <1>1, LlAlways, PTL

-----------------------------------------------------------------------------
(* The server of MCServer: a behaviour of it is one of each part.          *)

LEMMA EachPartFollows == Spec => ScanSpec /\ RpSpec /\ LlSpec /\ AcSpec /\ SkSpec /\ PlSpec
<1>1. Init => ScanInit /\ RpInit /\ LlInit /\ AcInit /\ SkInit /\ PlInit
    BY DEF Init
<1>2. [Next]_<<part, scanVars, rpVars, llVars, acVars, skVars, plVars>> =>
          /\ [ScanNext]_scanVars /\ [RpNext]_rpVars /\ [LlNext]_llVars
          /\ [AcNext]_acVars /\ [SkNext]_skVars /\ [PlNext]_plVars
    BY Zenon DEF Next
<1> QED
    BY <1>1, <1>2, PTL DEF Spec, ScanSpec, RpSpec, LlSpec, AcSpec, SkSpec, PlSpec

(* Every part of the server keeps its types, and what they say of the code: an administrator is left, a slot of a scan
   has one job, no channel and no table is over its limit, no two items of a playlist have one position. *)
THEOREM ServerTyped == Spec => []ServerTypeOK
<1>1. Spec => [](ScanTypeOK /\ RpTypeOK /\ LlTypeOK /\ AcTypeOK /\ SkTypeOK /\ PlTypeOK)
    BY EachPartFollows, ScanTypeCorrect, RpTypeCorrect, LoginsTyped, AnAdministratorStays, SocketsTyped, PlaylistsTyped, PTL
<1>2. ScanTypeOK /\ RpTypeOK /\ LlTypeOK /\ AcTypeOK /\ SkTypeOK /\ PlTypeOK => ServerTypeOK
    BY DEF ServerTypeOK
<1> QED
    BY <1>1, <1>2, PTL

(* All that the run MCServer checks of the server holds of it for every value of the constants. *)
THEOREM ServerHolds ==
    Spec => /\ [](ScansAreTracked /\ ProgressAgrees /\ GuessesBounded /\ TokensFollowPasswords)
            /\ [](FramesAreDue /\ SubscribersMissNothing)
            /\ NoLostUpdate /\ OthersKeepTheirOrder
    BY EachPartFollows, ScansStayTracked, ProgressAlwaysAgrees, GuessesAlwaysBounded, TokensAreOfTheirPassword,
       FramesMayBeSent, NoReportIsMissed, NoUpdateIsLost, OthersStayInOrder, PTL

===============================================================================
