------------------------------ MODULE Accounts ------------------------------
(***************************************************************************)
(* Users and tokens: core/users.go, store/users.go and auth/auth.go.  A    *)
(* request proves who it is first and acts later, when the rows it read    *)
(* may be gone or belong to somebody else: a new user gets the highest id  *)
(* plus one, and a deleted one's may be that.                              *)
(***************************************************************************)
EXTENDS Integers

CONSTANTS AcMaxId, AcTokens, AcRequests, AcNone,
          AcMaxPasswords,   \* bound on the passwords ever set, each of them new
          AcMaxWork         \* bound on the requests of a behaviour

ASSUME AcAssumption == {AcMaxId, AcMaxPasswords} \subseteq Nat \ {0} /\ AcMaxWork \in Nat

VARIABLES acUser,      \* users by id: [there, admin, password]
          acToken,     \* tokens: [state, user, password], the password by which the login was proved
          acReq,       \* requests in flight: what they have read
          acPasswords, acWork

acVars == <<acUser, acToken, acReq, acPasswords, acWork>>

AcIds == 1..AcMaxId
NoUser == [there |-> FALSE, admin |-> FALSE, password |-> 0]
NoToken == [state |-> "none", user |-> 0, password |-> 0]
AcQuiet == [kind |-> "none", token |-> AcNone, user |-> 0, read |-> NoUser, target |-> 0]

Users == {i \in AcIds : acUser[i].there}
Admins == {i \in AcIds : acUser[i].there /\ acUser[i].admin}
LiveToken(t) == acToken[t].state = "live"
FreshPassword == acPasswords < AcMaxPasswords

(* InitAdmin created the first administrator.                              *)
AcInit ==
    /\ acUser = [i \in AcIds |-> IF i = 1 THEN [there |-> TRUE, admin |-> TRUE, password |-> 1] ELSE NoUser]
    /\ acToken = [t \in AcTokens |-> NoToken]
    /\ acReq = [r \in AcRequests |-> AcQuiet]
    /\ acPasswords = 1 /\ acWork = 0

Done(r) == acReq' = [acReq EXCEPT ![r] = AcQuiet]
Begin(r, request) ==
    /\ acReq[r].kind = "none" /\ acWork < AcMaxWork /\ acWork' = acWork + 1
    /\ acReq' = [acReq EXCEPT ![r] = request]

-----------------------------------------------------------------------------
(* Logins: CheckPassword reads the user, hashes, and only then is a token  *)
(* issued.                                                                 *)

CheckPassword(r, id) ==
    /\ id \in Users
    /\ Begin(r, [AcQuiet EXCEPT !.kind = "login", !.user = id, !.read = acUser[id]])
    /\ UNCHANGED <<acUser, acToken, acPasswords>>

Unused == {t \in AcTokens : acToken[t].state = "none"}
Issued(t, id, password) == acToken' = [acToken EXCEPT ![t] = [state |-> "live", user |-> id, password |-> password]]

IssueTokenForPassword_MutantUnchecked(r) ==
    LET req == acReq[r] IN
    /\ req.kind = "login" /\ Done(r)
    /\ IF req.user \in Users
       THEN \E t \in Unused : Issued(t, req.user, req.read.password)
       ELSE UNCHANGED acToken
    /\ UNCHANGED <<acUser, acPasswords, acWork>>

IssueTokenForPassword(r) ==
    LET req == acReq[r] IN
    /\ req.kind = "login" /\ Done(r)
    /\ IF req.user \in Users /\ acUser[req.user].password = req.read.password
       THEN \E t \in Unused : Issued(t, req.user, req.read.password)
       ELSE UNCHANGED acToken
    /\ UNCHANGED <<acUser, acPasswords, acWork>>

-----------------------------------------------------------------------------
(* Requests under a token: the middleware looks it up, the handler reads   *)
(* the user, and acts.                                                     *)

Authenticate(r, t, kind, target) ==
    LET id == acToken[t].user IN
    /\ LiveToken(t) /\ id \in Users
    /\ \/ kind = "issue"
       \/ kind = "password" /\ target \in Users /\ (acUser[id].admin \/ target = id)
       \/ kind = "delete" /\ acUser[id].admin /\ target # id
       \/ kind = "create" /\ acUser[id].admin
       \/ kind = "revoke"
    /\ Begin(r, [AcQuiet EXCEPT !.kind = kind, !.token = t, !.user = id, !.read = acUser[id], !.target = target])
    /\ UNCHANGED <<acUser, acToken, acPasswords>>

IssueTokenFromParent(r) ==
    LET req == acReq[r] IN
    /\ req.kind = "issue" /\ Done(r)
    /\ IF LiveToken(req.token) /\ acToken[req.token].user = req.user
       THEN \E t \in Unused : Issued(t, req.user, acToken[req.token].password)
       ELSE UNCHANGED acToken
    /\ UNCHANGED <<acUser, acPasswords, acWork>>

Revoked(ids) == acToken' = [t \in AcTokens |->
    IF acToken[t].user \in ids /\ LiveToken(t) THEN [acToken[t] EXCEPT !.state = "revoked"] ELSE acToken[t]]

(* RotatePasswordChecked: one's own password only while it is the one that was verified. *)
RotatePassword(r) ==
    LET req == acReq[r] IN
    /\ req.kind = "password" /\ FreshPassword /\ Done(r)
    /\ IF /\ req.target \in Users
          /\ ~req.read.admin => acUser[req.target].password = req.read.password
       THEN /\ acUser' = [acUser EXCEPT ![req.target].password = acPasswords + 1]
            /\ Revoked({req.target})
            /\ acPasswords' = acPasswords + 1
       ELSE UNCHANGED <<acUser, acToken, acPasswords>>
    /\ UNCHANGED acWork

CreateUser(r) ==
    /\ acReq[r].kind = "create" /\ FreshPassword /\ Done(r)
    /\ \E id \in AcIds, admin \in BOOLEAN :
          /\ id = 1 \/ id - 1 \in Users
          /\ \A other \in Users : other < id
          /\ acUser' = [acUser EXCEPT ![id] = [there |-> TRUE, admin |-> admin, password |-> acPasswords + 1]]
    /\ acPasswords' = acPasswords + 1
    /\ UNCHANGED <<acToken, acWork>>

LastAdmin_MutantEarly(req) == FALSE
LastAdmin(req) == Admins = {req.target}

DeletedRows(id) ==
    /\ acUser' = [acUser EXCEPT ![id] = NoUser]
    /\ acToken' = [t \in AcTokens |-> IF acToken[t].user = id THEN NoToken ELSE acToken[t]]

(* DeleteUserGuarded: count, rows and user in one transaction.             *)
DeleteUserGuarded(r) ==
    LET req == acReq[r] IN
    /\ req.kind = "delete" /\ Done(r)
    /\ IF req.target \in Users /\ ~LastAdmin(req) THEN DeletedRows(req.target)
       ELSE UNCHANGED <<acUser, acToken>>
    /\ UNCHANGED <<acPasswords, acWork>>

(* logout, or the revocation of another token of the user or, by an administrator, of anyone. *)
RevokeToken(r) ==
    LET req == acReq[r] IN
    /\ req.kind = "revoke" /\ Done(r)
    /\ \E t \in AcTokens :
          /\ LiveToken(t) /\ (req.read.admin \/ acToken[t].user = req.user)
          /\ acToken' = [acToken EXCEPT ![t].state = "revoked"]
    /\ UNCHANGED <<acUser, acPasswords, acWork>>

AcNext ==
    \E r \in AcRequests :
       \/ \E id \in AcIds : CheckPassword(r, id)
       \/ IssueTokenForPassword(r)
       \/ \E t \in AcTokens, kind \in {"password", "delete"}, id \in AcIds : Authenticate(r, t, kind, id)
       \/ \E t \in AcTokens, kind \in {"issue", "create", "revoke"} : Authenticate(r, t, kind, 0)
       \/ IssueTokenFromParent(r) \/ RotatePassword(r) \/ CreateUser(r) \/ DeleteUserGuarded(r) \/ RevokeToken(r)

AcSpec == AcInit /\ [][AcNext]_acVars

-----------------------------------------------------------------------------
(* Properties.                                                             *)

(* Every variable keeps its type, and an administrator is left: two of them cannot delete each other
   (DeleteUserGuarded, and its comment on two concurrent deletions). *)
AcTypeOK ==
    /\ acUser \in [AcIds -> [there : BOOLEAN, admin : BOOLEAN, password : 0..AcMaxPasswords]]
    /\ acToken \in [AcTokens -> [state : {"none", "live", "revoked"}, user : {0} \cup AcIds, password : 0..AcMaxPasswords]]
    /\ Admins # {}

(* A token in force was obtained with the password its user has now, by a login or from another such token: one that
   was being issued while the password changed, or whose user was deleted and whose id was given to another, is not
   (IssueTokenForPassword, IssueTokenFromParent, RotatePasswordChecked). *)
TokensFollowPasswords == \A t \in AcTokens :
    LiveToken(t) => acToken[t].user \in Users /\ acToken[t].password = acUser[acToken[t].user].password

=============================================================================
