------------------------------- MODULE Sockets -------------------------------
(***************************************************************************)
(* The Jellyfin sockets (jellyfin/ws.go) and the lock that keeps their     *)
(* frames and a revocation apart (store/socket_authority.go): a hub, one   *)
(* writer and one reader goroutine per connection, a bounded channel       *)
(* between them, and playback reports fanned out to the subscribers.       *)
(***************************************************************************)
EXTENDS Integers, Sequences, FiniteSets, Functions

CONSTANTS SkConns, SkTokens, SkUsers, SkNone,
          SkUserOf,        \* whose token it is
          SkDevices,       \* device ids, which clients choose
          SkReporters,     \* playback reports under way
          SkQueue,         \* capacity of socketConn.send
          SkBudgets        \* bounds: the tokens in use, how many connections, reports and messages of clients there may
                           \* be, and how often building a list of sessions outlasts its five seconds

(* A Sessions message lists what hub.sessions held of a user at some version, all of it or what was read in time. *)
SkLists == [version : Nat, whole : BOOLEAN]
NoList == [version |-> 0, whole |-> FALSE]
SkMessages == [about : SkUsers, sessions : SkLists, sender : SkTokens \cup {SkNone}]

ASSUME SkAssumption ==
    /\ SkUserOf \in [SkTokens -> SkUsers] /\ SkQueue \in Nat \ {0}
    /\ SkNone \notin SkTokens \cup SkConns \cup SkMessages
    /\ \A budget \in SkBudgets : budget.tokens \subseteq SkTokens

VARIABLES skLive,      \* tokens not revoked
          skConn,      \* each connection: its token and device, its channel, where its two goroutines are, and
                       \* (history) the last list its client got and the newest version it was told of
          skHub,       \* hub.conns: the registered connections, and whether they are subscribed
          skVersion,   \* hub.sessions: the version of each user's sessions; every report makes another
          skReport,    \* ReportPlayback under way: whom it has to reach, the lists made, and whether its time is over
          skExcused,   \* the connections whose newest list may be overtaken by an older one, or was cut short (history)
          skLeft       \* what is left of the bounds

skVars == <<skLive, skConn, skHub, skVersion, skReport, skExcused, skLeft>>

Away == [at |-> "away", token |-> SkNone, device |-> SkNone, shut |-> FALSE, queue |-> <<>>,
         writer |-> "none", reader |-> "none", sending |-> SkNone, snapshot |-> NoList, got |-> NoList, told |-> 0]
NoReport == [todo |-> {}, late |-> FALSE, made |-> [u \in SkUsers |-> NoList]]
UserOf(c) == SkUserOf[skConn[c].token]
Registered(c) == c \in DOMAIN skHub
Listens(c) == Registered(c) /\ skHub[c]
LeavesOut(c) == [d \in DOMAIN skHub \ {c} |-> skHub[d]]
With(c, subscribed) == [d \in DOMAIN skHub \cup {c} |-> IF d = c THEN subscribed ELSE skHub[d]]

SkInit ==
    /\ skConn = [c \in SkConns |-> Away]
    /\ skHub = <<>>
    /\ skVersion = [u \in SkUsers |-> 1]
    /\ skReport = [r \in SkReporters |-> NoReport]
    /\ skExcused = {}
    /\ skLeft \in SkBudgets /\ skLive = skLeft.tokens

-----------------------------------------------------------------------------
(* WithSocketAuthority: a reader lock around the check of the credentials  *)
(* and the action; revocations and rotations take the writer lock.         *)

Authorized(c) == skConn[c].token \in skLive
LockHeld == \E c \in SkConns : skConn[c].writer = "writing"

Revoke_MutantUnlocked(t) ==
    /\ t \in skLive /\ skLive' = skLive \ {t}
    /\ UNCHANGED <<skConn, skHub, skVersion, skReport, skExcused, skLeft>>

Revoke(t) ==
    /\ t \in skLive /\ ~LockHeld /\ skLive' = skLive \ {t}
    /\ UNCHANGED <<skConn, skHub, skVersion, skReport, skExcused, skLeft>>

-----------------------------------------------------------------------------
(* hub.deliver: what finds no room closes the connection.                  *)

Shut(conn) == [conn EXCEPT !.shut = TRUE, !.queue = <<>>]
Delivered(conns, c, message) ==
    IF Len(conns[c].queue) < SkQueue
    THEN /\ skConn' = [conns EXCEPT ![c].queue = IF conns[c].shut THEN @ ELSE Append(@, message)]
         /\ UNCHANGED skHub
    ELSE skConn' = [conns EXCEPT ![c] = Shut(@)] /\ skHub' = LeavesOut(c)

Sessions(u, list) == [about |-> u, sessions |-> list, sender |-> SkNone]
KeepAlive(t) == [about |-> SkUserOf[t], sessions |-> NoList, sender |-> SkNone]
Command(t) == [about |-> SkUserOf[t], sessions |-> NoList, sender |-> t]

(* sessionsMessageFor: what it finds when it reads hub.sessions, left incomplete when its context has ended. *)
ListOf(u, whole) == [version |-> skVersion[u], whole |-> whole]

-----------------------------------------------------------------------------
(* handleSocket: the token is looked up, the connection hijacked, and then *)
(* registered; ForceKeepAlive is queued past the hub.                      *)

Dial(c, t, device) ==
    /\ skConn[c].at = "away" /\ t \in skLive /\ skLeft.dials > 0
    /\ skConn' = [skConn EXCEPT ![c] = [Away EXCEPT !.at = "shaking", !.token = t, !.device = device]]
    /\ skLeft' = [skLeft EXCEPT !.dials = @ - 1]
    /\ UNCHANGED <<skLive, skHub, skVersion, skReport, skExcused>>

RegisterConn(c) ==
    /\ skConn[c].at = "shaking"
    /\ skHub' = With(c, FALSE)
    /\ skConn' = [skConn EXCEPT ![c] = [@ EXCEPT !.at = "open", !.writer = "ready", !.reader = "ready",
                                                 !.queue = <<KeepAlive(skConn[c].token)>>]]
    /\ UNCHANGED <<skLive, skVersion, skReport, skExcused, skLeft>>

(* writeLoop takes a message: dropped when its sender was revoked, the end of the connection when its own token was. *)
TakeMessage(c) ==
    /\ skConn[c].writer = "ready" /\ ~skConn[c].shut /\ skConn[c].queue # <<>>
    /\ LET m == Head(skConn[c].queue)
           rest == [skConn[c] EXCEPT !.queue = Tail(@)] IN
       skConn' = [skConn EXCEPT ![c] =
          IF ~Authorized(c) THEN [Shut(rest) EXCEPT !.writer = "gone"]
          ELSE IF m.sender \notin skLive \cup {SkNone} THEN rest
          ELSE [rest EXCEPT !.writer = "writing", !.sending = m]]
    /\ UNCHANGED <<skLive, skHub, skVersion, skReport, skExcused, skLeft>>

(* The frame is on its way, or ten seconds have passed.                    *)
FrameWritten(c) ==
    LET list == skConn[c].sending.sessions IN
    /\ skConn[c].writer = "writing"
    /\ \/ skConn' = [skConn EXCEPT ![c].writer = "ready", ![c].sending = SkNone,
                                   ![c].got = IF list = NoList THEN @ ELSE list,
                                   ![c].told = IF list.version > @ THEN list.version ELSE @]
       \/ skConn' = [skConn EXCEPT ![c] = [Shut(@) EXCEPT !.writer = "gone", !.sending = SkNone]]
    /\ UNCHANGED <<skLive, skHub, skVersion, skReport, skExcused, skLeft>>

(* Every second the writer asks whether the token still holds; done ends it. *)
WriterTick(c) ==
    /\ skConn[c].writer = "ready" /\ (skConn[c].shut \/ ~Authorized(c))
    /\ skConn' = [skConn EXCEPT ![c] = [Shut(@) EXCEPT !.writer = "gone"]]
    /\ UNCHANGED <<skLive, skHub, skVersion, skReport, skExcused, skLeft>>

-----------------------------------------------------------------------------
(* readLoop.                                                               *)

(* The client goes away or breaks the protocol, or the connection was shut under the reader. *)
ReaderEnds_MutantStays(c) ==
    /\ skConn[c].reader \notin {"none", "gone"}
    /\ skConn' = [skConn EXCEPT ![c] = [Shut(@) EXCEPT !.reader = "gone"]]
    /\ UNCHANGED <<skLive, skHub, skVersion, skReport, skExcused, skLeft>>

ReaderEnds(c) ==
    /\ skConn[c].reader \notin {"none", "gone"}
    /\ skHub' = LeavesOut(c)
    /\ skConn' = [skConn EXCEPT ![c] = [Shut(@) EXCEPT !.reader = "gone"]]
    /\ UNCHANGED <<skLive, skVersion, skReport, skExcused, skLeft>>

(* A message of a client is acted on under the authority of its token.     *)
Says(c) ==
    /\ skConn[c].reader = "ready" /\ ~skConn[c].shut /\ Authorized(c)
    /\ skLeft.commands > 0 /\ skLeft' = [skLeft EXCEPT !.commands = @ - 1]

(* SessionsStart: subscribed first, so that no report falls between the snapshot and the subscription. *)
SessionsStart_MutantLater(c) ==
    /\ \/ /\ Says(c) /\ Registered(c) /\ UNCHANGED skHub
          /\ skConn' = [skConn EXCEPT ![c].reader = "later", ![c].snapshot = ListOf(UserOf(c), TRUE)]
       \/ /\ skConn[c].reader = "later" /\ Registered(c) /\ UNCHANGED skLeft
          /\ skHub' = With(c, TRUE)
          /\ skConn' = [skConn EXCEPT ![c].reader = "snapshot"]
    /\ UNCHANGED <<skLive, skVersion, skReport, skExcused>>

ReportsUnderWay == \E r \in SkReporters : skReport[r].todo # {}

SessionsStart(c) ==
    /\ Says(c) /\ Registered(c)
    /\ skHub' = With(c, TRUE)
    /\ skConn' = [skConn EXCEPT ![c].reader = "starting"]
    /\ skExcused' = IF ReportsUnderWay THEN skExcused ELSE skExcused \ {c}
    /\ UNCHANGED <<skLive, skVersion, skReport>>

(* The snapshot is read outside the lock, in five seconds (detailContext).  *)
SessionsSnapshot(c, whole) ==
    /\ skConn[c].reader = "starting"
    /\ skConn' = [skConn EXCEPT ![c].reader = "snapshot", ![c].snapshot = ListOf(UserOf(c), whole)]
    /\ IF whole THEN UNCHANGED <<skExcused, skLeft>>
       ELSE skLeft.cuts > 0 /\ skLeft' = [skLeft EXCEPT !.cuts = @ - 1] /\ skExcused' = skExcused \cup {c}
    /\ UNCHANGED <<skLive, skHub, skVersion, skReport>>

PushSnapshot(c) ==
    /\ skConn[c].reader = "snapshot"
    /\ \/ ~Authorized(c) /\ skConn' = [skConn EXCEPT ![c] = Shut(@)] /\ UNCHANGED skHub
       \/ Authorized(c) /\ ~Registered(c) /\ skConn' = [skConn EXCEPT ![c].reader = "ready"] /\ UNCHANGED skHub
       \/ /\ Authorized(c) /\ Registered(c)
          /\ Delivered([skConn EXCEPT ![c].reader = "ready"], c, Sessions(UserOf(c), skConn[c].snapshot))
    /\ UNCHANGED <<skLive, skVersion, skReport, skExcused, skLeft>>

SessionsStop(c) ==
    /\ Says(c) /\ Listens(c)
    /\ skHub' = With(c, FALSE)
    /\ UNCHANGED <<skLive, skConn, skVersion, skReport, skExcused>>

Receiver(from, device) == {d \in DOMAIN skHub : skConn[d].device = device /\ UserOf(d) = UserOf(from)}

(* forwardCommand: the socket is found and served under one hold of the hub. *)
ForwardCommand(c, device) ==
    /\ Says(c) /\ device # skConn[c].device
    /\ \E d \in Receiver(c, device) : Delivered(skConn, d, Command(skConn[c].token))
    /\ UNCHANGED <<skLive, skVersion, skReport, skExcused>>

(* A message from a connection whose token was revoked ends it.            *)
ReadRefused(c) ==
    /\ skConn[c].reader = "ready" /\ ~skConn[c].shut /\ ~Authorized(c)
    /\ skConn' = [skConn EXCEPT ![c] = Shut(@)]
    /\ UNCHANGED <<skLive, skHub, skVersion, skReport, skExcused, skLeft>>

-----------------------------------------------------------------------------
(* ReportPlayback: hub.update, then broadcastPerUser, which collects the   *)
(* subscribers, makes one message per user and delivers one by one.        *)

(* A list made for another report, or for a snapshot, before this one may still be delivered after its own. *)
Overtakes(r, u) ==
    {c \in SkConns : /\ skConn[c].at = "open" /\ UserOf(c) = u
                     /\ \/ \E q \in SkReporters \ {r} : skReport[q].todo # {}
                        \/ skConn[c].reader \in {"starting", "snapshot"}}
Newly(u) == {c \in SkConns : skConn[c].at = "open" /\ UserOf(c) = u}

Report(r, u) ==
    /\ skReport[r].todo = {} /\ skLeft.reports > 0 /\ skLeft' = [skLeft EXCEPT !.reports = @ - 1]
    /\ skVersion' = [skVersion EXCEPT ![u] = @ + 1]
    /\ skReport' = [skReport EXCEPT ![r] = [NoReport EXCEPT !.todo = {SkNone}]]
    /\ skExcused' = (skExcused \ Newly(u)) \cup Overtakes(r, u)
    /\ UNCHANGED <<skLive, skConn, skHub>>

(* The five seconds of the report are over: what it builds from now on is left incomplete. *)
BudgetEnds(r) ==
    /\ skReport[r].todo # {} /\ ~skReport[r].late
    /\ skLeft.cuts > 0 /\ skLeft' = [skLeft EXCEPT !.cuts = @ - 1]
    /\ skReport' = [skReport EXCEPT ![r].late = TRUE]
    /\ UNCHANGED <<skLive, skConn, skHub, skVersion, skExcused>>

Collect(r) ==
    /\ skReport[r].todo = {SkNone}
    /\ skReport' = [skReport EXCEPT ![r].todo = {c \in DOMAIN skHub : skHub[c]}]
    /\ UNCHANGED <<skLive, skConn, skHub, skVersion, skExcused, skLeft>>

MessageFor(r, c) ==
    LET report == skReport[r] IN
    /\ c \in report.todo /\ report.made[UserOf(c)] = NoList
    /\ skReport' = [skReport EXCEPT ![r].made[UserOf(c)] = ListOf(UserOf(c), ~report.late)]
    /\ skExcused' = IF report.late THEN skExcused \cup {d \in report.todo : UserOf(d) = UserOf(c)} ELSE skExcused
    /\ UNCHANGED <<skLive, skConn, skHub, skVersion, skLeft>>

Fan(r, c) ==
    LET list == skReport[r].made[UserOf(c)] IN
    /\ c \in skReport[r].todo /\ list # NoList
    /\ skReport' = [skReport EXCEPT ![r].todo = @ \ {c}]
    /\ IF Listens(c) THEN Delivered(skConn, c, Sessions(UserOf(c), list))
       ELSE UNCHANGED <<skConn, skHub>>
    /\ UNCHANGED <<skLive, skVersion, skExcused, skLeft>>

(* CloseSockets, at shutdown.                                              *)
CloseSockets ==
    /\ DOMAIN skHub # {}
    /\ skConn' = [c \in SkConns |-> IF Registered(c) THEN Shut(skConn[c]) ELSE skConn[c]]
    /\ skHub' = <<>>
    /\ UNCHANGED <<skLive, skVersion, skReport, skExcused, skLeft>>

SkNext ==
    \/ \E t \in SkTokens : Revoke(t)
    \/ \E c \in SkConns : \/ \E t \in SkTokens, device \in SkDevices : Dial(c, t, device)
                         \/ RegisterConn(c) \/ TakeMessage(c) \/ FrameWritten(c) \/ WriterTick(c) \/ ReaderEnds(c)
                         \/ SessionsStart(c) \/ (\E whole \in BOOLEAN : SessionsSnapshot(c, whole)) \/ PushSnapshot(c) \/ SessionsStop(c) \/ ReadRefused(c)
                         \/ \E device \in SkDevices : ForwardCommand(c, device)
                         \/ \E r \in SkReporters : MessageFor(r, c) \/ Fan(r, c)
    \/ \E r \in SkReporters : Collect(r) \/ BudgetEnds(r) \/ \E u \in SkUsers : Report(r, u)
    \/ CloseSockets

(* Goroutines run, a write ends within its deadline, and the writer's ticker ticks. *)
SkFair == \A c \in SkConns :
    /\ WF_skVars(RegisterConn(c)) /\ WF_skVars(TakeMessage(c)) /\ WF_skVars(FrameWritten(c)) /\ WF_skVars(WriterTick(c))
    /\ WF_skVars(skConn[c].shut /\ ReaderEnds(c))

SkSpec == SkInit /\ [][SkNext]_skVars

-----------------------------------------------------------------------------
(* Properties.                                                             *)

(* Every variable keeps its type, no channel grows past its capacity, and the hub holds only what it registered. *)
SkTypeOK ==
    /\ skLive \subseteq SkTokens /\ skVersion \in [SkUsers -> Nat]
    /\ \A c \in SkConns : Len(skConn[c].queue) <= SkQueue /\ (skConn[c].writer = "writing") = (skConn[c].sending # SkNone)
    /\ \A c \in DOMAIN skHub : skConn[c].at = "open"

(* No frame is on the wire under a revoked token, its own or that of who sent it: a revocation waits for the writers
   that checked before it, and they for nobody (WithSocketAuthority). *)
NothingAfterRevocation == \A c \in SkConns :
    skConn[c].writer = "writing" => Authorized(c) /\ skConn[c].sending.sender \in skLive \cup {SkNone}

(* What is queued for a connection is about its user and from its user, although clients choose their device ids and
   several connections share one (sendToOwnedBy). *)
MessagesStayWithUser == \A c \in SkConns :
    \A m \in {skConn[c].sending} \cup Range(skConn[c].queue) : m # SkNone => m.about = UserOf(c)

(* Both of it, for the runs: what is on its way to a connection may be sent to it. *)
FramesAreDue == NothingAfterRevocation /\ MessagesStayWithUser

(* When nothing is under way a subscriber has been sent a list made since the newest report, however its subscription
   raced the report (admitText, broadcastPerUser). That list is the last one it got, and whole, unless the report was
   made while another one or the snapshot was under way, which may overtake it, or building it took more than five
   seconds (DECISIONS.md item 64, sessionDTOsFor). *)
Settled(c) ==
    /\ Listens(c) /\ ~skConn[c].shut /\ skConn[c].queue = <<>>
    /\ skConn[c].reader = "ready" /\ skConn[c].writer = "ready"
    /\ \A r \in SkReporters : skReport[r].todo = {}
SubscribersMissNothing == \A c \in SkConns : Settled(c) =>
    /\ skConn[c].told = skVersion[UserOf(c)]
    /\ c \notin skExcused => skConn[c].got = ListOf(UserOf(c), TRUE)

(* A connection whose token is revoked is closed and leaves the hub, whatever its reader and its writer are at. *)
RevokedSocketsLeave == \A c \in SkConns :
    (skConn[c].at = "open" /\ ~Authorized(c)) ~> (skConn[c].shut /\ ~Registered(c))
=============================================================================
