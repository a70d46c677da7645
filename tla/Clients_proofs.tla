---------------------------- MODULE Clients_proofs -----------------------------
(***************************************************************************)
(* Proofs about what the clients of one user share through the server: the *)
(* live messages on their sockets, and the position that readers and       *)
(* players save.  For every set of connections, tokens, users, devices,    *)
(* reporters, pages, sessions and positions, every capacity of a channel   *)
(* and every bound on the writes.                                          *)
(***************************************************************************)
EXTENDS Sockets, ReaderProgress, SumTheorems, SequenceTheorems, TLAPS

-----------------------------------------------------------------------------
(* Sockets.                                                                *)


Conns == [at : {"away", "shaking", "open"}, token : SkTokens \cup {SkNone}, device : SkDevices \cup {SkNone},
          shut : BOOLEAN, queue : Seq(SkMessages), writer : {"none", "ready", "writing", "gone"},
          reader : {"none", "ready", "starting", "snapshot", "gone"}, sending : SkMessages \cup {SkNone},
          snapshot : SkLists, got : SkLists, told : Nat]

(* A message for the connections of a token's user, not newer than the user's last report; only a command has a sender. *)
MessageInv(m, t, versions) ==
    /\ m \in SkMessages
    /\ m.about = SkUserOf[t] /\ m.sessions.version <= versions[SkUserOf[t]]
    /\ m.sessions # NoList => m.sender = SkNone

ConnInv(x, versions) ==
    /\ x \in Conns
    /\ x.at # "away" => x.token \in SkTokens /\ x.told <= versions[SkUserOf[x.token]] /\ x.snapshot.version <= versions[SkUserOf[x.token]]
    /\ x.at # "open" => x.reader = "none" /\ x.writer = "none" /\ x.queue = <<>>
    /\ Len(x.queue) <= SkQueue
    /\ (x.writer = "writing") = (x.sending # SkNone)
    /\ x.sending # SkNone => MessageInv(x.sending, x.token, versions)
    /\ \A i \in 1..Len(x.queue) : MessageInv(x.queue[i], x.token, versions)

Reports == [todo : SUBSET (SkConns \cup {SkNone}), late : BOOLEAN, made : [SkUsers -> SkLists]]
ReportInv(x, versions) ==
    /\ x \in Reports
    /\ SkNone \in x.todo => x.todo = {SkNone} /\ \A u \in SkUsers : x.made[u] = NoList
    /\ \A u \in SkUsers : x.made[u].version <= versions[u]

SkInv ==
    /\ skLive \subseteq SkTokens /\ skVersion \in [SkUsers -> Nat]
    /\ skConn \in [SkConns -> Conns] /\ \A c \in SkConns : ConnInv(skConn[c], skVersion)
    /\ skHub \in [DOMAIN skHub -> BOOLEAN] /\ \A c \in DOMAIN skHub : c \in SkConns /\ skConn[c].at = "open"
    /\ skReport \in [SkReporters -> Reports] /\ \A r \in SkReporters : ReportInv(skReport[r], skVersion)

USE SkAssumption

LEMMA AwayConn == \A versions : ConnInv(Away, versions)
<1>1. Away \in Conns
    BY DEF Away, Conns, NoList, SkLists
<1>2. Len(Away.queue) = 0
    BY DEF Away
<1> QED
    BY <1>1, <1>2 DEF ConnInv, Away

LEMMA ShutConn ==
    ASSUME NEW x, NEW versions, ConnInv(x, versions)
    PROVE  ConnInv(Shut(x), versions)
<1>1. <<>> \in Seq(SkMessages) /\ Len(<<>>) = 0
    OBVIOUS
<1>2. Shut(x) \in Conns
    BY <1>1 DEF ConnInv, Conns, Shut
<1> QED
    BY <1>1, <1>2 DEF ConnInv, Conns, Shut

(* A message that finds room is one more, at the end.                      *)
LEMMA QueuedConn ==
    ASSUME NEW x, NEW versions, ConnInv(x, versions), x.at = "open", NEW m, MessageInv(m, x.token, versions), Len(x.queue) < SkQueue
    PROVE  ConnInv([x EXCEPT !.queue = Append(x.queue, m)], versions)
<1> DEFINE y == [x EXCEPT !.queue = Append(x.queue, m)]
<1>1. x.queue \in Seq(SkMessages) /\ m \in SkMessages
    BY DEF ConnInv, Conns, MessageInv
<1>2. /\ Append(x.queue, m) \in Seq(SkMessages)
      /\ Len(Append(x.queue, m)) = Len(x.queue) + 1
      /\ \A i \in 1..Len(Append(x.queue, m)) : Append(x.queue, m)[i] = IF i <= Len(x.queue) THEN x.queue[i] ELSE m
    BY <1>1, AppendProperties
<1>3. y \in Conns
    BY <1>2 DEF ConnInv, Conns
<1>4. y.queue = Append(x.queue, m)
    BY DEF ConnInv, Conns
<1>5. Len(x.queue) \in Nat
    BY <1>1, LenProperties
<1>6. \A i \in 1..Len(y.queue) : MessageInv(y.queue[i], x.token, versions)
    BY <1>2, <1>4, <1>5 DEF ConnInv
<1> QED
    BY <1>2, <1>3, <1>4, <1>5, <1>6 DEF ConnInv, Conns

(* The writer takes the first message.                                     *)
LEMMA TakenConn ==
    ASSUME NEW x, NEW versions, ConnInv(x, versions), x.queue # <<>>
    PROVE  /\ MessageInv(Head(x.queue), x.token, versions)
           /\ ConnInv([x EXCEPT !.queue = Tail(x.queue)], versions)
<1>1. x.queue \in Seq(SkMessages)
    BY DEF ConnInv, Conns
<1>2. /\ Tail(x.queue) \in Seq(SkMessages) /\ Len(Tail(x.queue)) = Len(x.queue) - 1
      /\ \A i \in 1..Len(Tail(x.queue)) : Tail(x.queue)[i] = x.queue[i + 1]
      /\ Head(x.queue) = x.queue[1] /\ Len(x.queue) \in Nat /\ Len(x.queue) > 0
    BY <1>1, HeadTailProperties, LenProperties, EmptySeq
<1>3. [x EXCEPT !.queue = Tail(x.queue)] \in Conns
    BY <1>2 DEF ConnInv, Conns
<1>4. \A i \in 1..Len(Tail(x.queue)) : MessageInv(Tail(x.queue)[i], x.token, versions)
    BY <1>2 DEF ConnInv
<1> QED
    BY <1>2, <1>3, <1>4 DEF ConnInv, Conns

(* What holds of a connection or a report stays when users report again.   *)
LEMMA LaterConn ==
    ASSUME NEW x, NEW old, NEW new, ConnInv(x, old), old \in [SkUsers -> Nat], new \in [SkUsers -> Nat],
           \A u \in SkUsers : old[u] <= new[u]
    PROVE  ConnInv(x, new)
<1>1. \A t \in SkTokens : SkUserOf[t] \in SkUsers
    OBVIOUS
<1>2. x.at # "away" => x.told <= new[SkUserOf[x.token]] /\ x.snapshot.version <= new[SkUserOf[x.token]]
    BY <1>1 DEF ConnInv, Conns, SkLists
<1>3. ASSUME NEW m, NEW t \in SkTokens, MessageInv(m, t, old)
      PROVE  MessageInv(m, t, new)
    BY <1>1, <1>3 DEF MessageInv, SkMessages, SkLists
<1>4. x.at = "away" => x.sending = SkNone /\ Len(x.queue) = 0
    BY DEF ConnInv, Conns
<1> QED
    BY <1>2, <1>3, <1>4 DEF ConnInv, Conns

LEMMA SkInitHolds == SkInit => SkInv
<1> SUFFICES ASSUME SkInit PROVE SkInv
    OBVIOUS
<1>1. \A c \in SkConns : skConn[c] = Away
    BY DEF SkInit
<1>2. skConn \in [SkConns -> Conns]
    BY AwayConn DEF SkInit, ConnInv
<1>3. DOMAIN skHub = {} /\ skHub \in [DOMAIN skHub -> BOOLEAN]
    BY DEF SkInit
<1>4. NoReport \in Reports /\ NoReport.todo = {} /\ \A u \in SkUsers : NoReport.made[u] = NoList /\ NoList.version = 0
    BY DEF NoReport, Reports, NoList, SkLists
<1>5. skReport \in [SkReporters -> Reports] /\ \A r \in SkReporters : skReport[r] = NoReport
    BY <1>4 DEF SkInit
<1>6. skVersion \in [SkUsers -> Nat] /\ \A u \in SkUsers : skVersion[u] = 1
    BY DEF SkInit
<1> QED
    BY <1>1, <1>2, <1>3, <1>4, <1>5, <1>6, AwayConn DEF SkInv, SkInit, ReportInv

(* One connection changes, and the hub with it at most.                    *)
LEMMA OneConnKeeps ==
    ASSUME SkInv, skReport' \in [SkReporters -> Reports], \A r \in SkReporters : ReportInv(skReport'[r], skVersion), NEW c \in SkConns, NEW x, ConnInv(x, skVersion), skConn' = [skConn EXCEPT ![c] = x],
           x.at = "open" \/ skConn[c].at # "open",
           \/ UNCHANGED skHub
           \/ skHub' = LeavesOut(c)
           \/ x.at = "open" /\ \E b \in BOOLEAN : skHub' = With(c, b),
           UNCHANGED <<skLive, skVersion>>
    PROVE  SkInv'
<1>1. x \in Conns /\ skConn' \in [SkConns -> Conns]
    BY DEF SkInv, ConnInv
<1>2. \A d \in SkConns : ConnInv(skConn'[d], skVersion')
    BY DEF SkInv
<1>3. skHub' \in [DOMAIN skHub' -> BOOLEAN]
    BY DEF SkInv, LeavesOut, With
<1>4. \A d \in DOMAIN skHub' : d \in SkConns /\ skConn'[d].at = "open"
    BY DEF SkInv, LeavesOut, With
<1> QED
    BY <1>1, <1>2, <1>3, <1>4 DEF SkInv

(* hub.deliver keeps the connection in order or closes it.                 *)
LEMMA DeliveryKeeps ==
    ASSUME SkInv, skReport' \in [SkReporters -> Reports], \A r \in SkReporters : ReportInv(skReport'[r], skVersion), NEW c \in SkConns, NEW x, ConnInv(x, skVersion), x.at = "open",
           NEW m, MessageInv(m, x.token, skVersion), Delivered([skConn EXCEPT ![c] = x], c, m),
           UNCHANGED <<skLive, skVersion>>
    PROVE  SkInv'
<1> DEFINE conns == [skConn EXCEPT ![c] = x]
<1>1. conns \in [SkConns -> Conns] /\ conns[c] = x
    BY DEF SkInv, ConnInv
<1>2. CASE Len(x.queue) < SkQueue /\ ~x.shut
    <2>1. skConn' = [skConn EXCEPT ![c] = [x EXCEPT !.queue = Append(x.queue, m)]] /\ UNCHANGED skHub
        BY <1>1, <1>2 DEF Delivered, SkInv
    <2>2. ConnInv([x EXCEPT !.queue = Append(x.queue, m)], skVersion)
        BY <1>2, QueuedConn
    <2>3. [x EXCEPT !.queue = Append(x.queue, m)].at = "open"
        BY DEF ConnInv, Conns
    <2> QED
        BY <2>1, <2>2, <2>3, OneConnKeeps
<1>3. CASE Len(x.queue) < SkQueue /\ x.shut
    <2>1. skConn' = [skConn EXCEPT ![c] = x] /\ UNCHANGED skHub
        BY <1>1, <1>3 DEF Delivered, SkInv, ConnInv, Conns
    <2> QED
        BY <2>1, OneConnKeeps
<1>4. CASE ~(Len(x.queue) < SkQueue)
    <2>1. skConn' = [skConn EXCEPT ![c] = Shut(x)] /\ skHub' = LeavesOut(c)
        BY <1>1, <1>4 DEF Delivered, SkInv
    <2>2. Shut(x).at = "open"
        BY DEF Shut, ConnInv, Conns
    <2> QED
        BY <2>1, <2>2, ShutConn, OneConnKeeps
<1> QED
    BY <1>2, <1>3, <1>4

LEMMA SkStep == SkInv /\ [SkNext]_skVars => SkInv'
<1> SUFFICES ASSUME SkInv, [SkNext]_skVars PROVE SkInv'
    OBVIOUS
<1>0. /\ \A c \in SkConns : skConn[c] \in Conns /\ ConnInv(skConn[c], skVersion)
      /\ \A t \in SkTokens : SkUserOf[t] \in SkUsers
      /\ \A u \in SkUsers : skVersion[u] \in Nat
      /\ UNCHANGED skReport => skReport' \in [SkReporters -> Reports] /\ \A r \in SkReporters : ReportInv(skReport'[r], skVersion)
    BY DEF SkInv
<1>1. CASE UNCHANGED skVars
    BY <1>1 DEF SkInv, skVars
<1>2. ASSUME NEW t \in SkTokens, Revoke(t)
      PROVE  SkInv'
    BY <1>2 DEF SkInv, Revoke
<1>3. ASSUME NEW c \in SkConns, NEW t \in SkTokens, NEW device \in SkDevices, Dial(c, t, device)
      PROVE  SkInv'
    <2> DEFINE x == [Away EXCEPT !.at = "shaking", !.token = t, !.device = device]
    <2>0. <<>> \in Seq(SkMessages) /\ Len(<<>>) = 0
        OBVIOUS
    <2>1. x \in Conns /\ Len(x.queue) = 0
        BY <2>0 DEF Away, Conns, NoList, SkLists
    <2>2. x.told = 0 /\ x.snapshot.version = 0 /\ x.token = t
        BY DEF Away, NoList
    <2>3. skVersion[SkUserOf[t]] \in Nat
        BY <1>0
    <2>4. ConnInv(x, skVersion)
        BY <2>1, <2>2, <2>3 DEF ConnInv, Away
    <2> QED
        BY <1>3, <2>4, <1>0, OneConnKeeps DEF Dial
<1>4. ASSUME NEW c \in SkConns, RegisterConn(c)
      PROVE  SkInv'
    <2> DEFINE m == KeepAlive(skConn[c].token)
               q == <<m>>
               x == [skConn[c] EXCEPT !.at = "open", !.writer = "ready", !.reader = "ready", !.queue = q]
    <2>1. skConn[c].token \in SkTokens /\ skConn[c].sending = SkNone
        BY <1>0, <1>4 DEF RegisterConn, ConnInv, Conns
    <2>2. MessageInv(m, skConn[c].token, skVersion)
        BY <1>0, <2>1 DEF MessageInv, KeepAlive, SkMessages, NoList, SkLists
    <2>3. q \in Seq(SkMessages) /\ Len(q) = 1 /\ q[1] = m
        BY <2>2 DEF MessageInv
    <2> HIDE DEF m, q
    <2>4. skConn[c] \in Conns /\ ConnInv(skConn[c], skVersion) /\ skConn[c].at = "shaking"
        BY <1>0, <1>4 DEF RegisterConn
    <2>5. x \in Conns /\ x.at = "open" /\ x.token = skConn[c].token /\ x.sending = skConn[c].sending /\ x.queue = q
          /\ x.writer = "ready" /\ x.told = skConn[c].told /\ x.snapshot = skConn[c].snapshot
        BY <2>3, <2>4 DEF Conns
    <2> HIDE DEF x
    <2>7. \A i \in 1..Len(x.queue) : MessageInv(x.queue[i], x.token, skVersion)
        <3>1. ASSUME NEW i \in 1..Len(q)
              PROVE  q[i] = m
            BY <2>3
        <3> QED
            BY <2>2, <2>5, <3>1
    <2>8. x.sending = SkNone /\ x.writer # "writing" /\ Len(x.queue) <= SkQueue
        <3>1. x.sending = SkNone /\ x.writer # "writing"
            BY <2>1, <2>5
        <3>2. Len(q) <= SkQueue
            BY <2>3
        <3> QED
            BY <2>5, <3>1, <3>2
    <2>9. skConn[c].told <= skVersion[SkUserOf[skConn[c].token]] /\ skConn[c].snapshot.version <= skVersion[SkUserOf[skConn[c].token]]
        BY <2>4 DEF ConnInv
    <2>6. ConnInv(x, skVersion)
        BY <2>1, <2>5, <2>7, <2>8, <2>9 DEF ConnInv
    <2> QED
        BY <1>4, <2>5, <2>6, <1>0, OneConnKeeps DEF RegisterConn, x, q, m
<1>5. ASSUME NEW c \in SkConns, TakeMessage(c)
      PROVE  SkInv'
    <2> DEFINE m == Head(skConn[c].queue)
               rest == [skConn[c] EXCEPT !.queue = Tail(skConn[c].queue)]
    <2>1. MessageInv(m, skConn[c].token, skVersion) /\ ConnInv(rest, skVersion)
        BY <1>0, <1>5, TakenConn DEF TakeMessage
    <2>2. rest \in Conns /\ rest.at = "open" /\ rest.token = skConn[c].token /\ rest.writer = "ready"
        BY <1>0, <1>5, <2>1 DEF TakeMessage, ConnInv, Conns
    <2>3. ConnInv(Shut(rest), skVersion) /\ Shut(rest).at = "open" /\ Shut(rest).writer = "ready"
        BY <2>1, <2>2, ShutConn DEF Shut, Conns
    <2>4. ConnInv([Shut(rest) EXCEPT !.writer = "gone"], skVersion) /\ [Shut(rest) EXCEPT !.writer = "gone"].at = "open"
        BY <2>3 DEF ConnInv, Conns
    <2>5. m \in SkMessages /\ m # SkNone
        BY <2>1 DEF MessageInv
    <2>6. ConnInv([rest EXCEPT !.writer = "writing", !.sending = m], skVersion) /\ [rest EXCEPT !.writer = "writing", !.sending = m].at = "open"
        BY <2>1, <2>2, <2>5 DEF ConnInv, Conns
    <2>7. \/ skConn' = [skConn EXCEPT ![c] = [Shut(rest) EXCEPT !.writer = "gone"]]
          \/ skConn' = [skConn EXCEPT ![c] = rest]
          \/ skConn' = [skConn EXCEPT ![c] = [rest EXCEPT !.writer = "writing", !.sending = m]]
        BY <1>5 DEF TakeMessage
    <2> HIDE DEF rest, m
    <2> QED
        BY <1>5, <2>1, <2>2, <2>4, <2>6, <2>7, <1>0, OneConnKeeps DEF TakeMessage
<1>6. ASSUME NEW c \in SkConns, FrameWritten(c)
      PROVE  SkInv'
    <2> DEFINE m == skConn[c].sending
               x == [skConn[c] EXCEPT !.writer = "ready", !.sending = SkNone,
                        !.got = IF m.sessions = NoList THEN skConn[c].got ELSE m.sessions,
                        !.told = IF m.sessions.version > skConn[c].told THEN m.sessions.version ELSE skConn[c].told]
               y == [Shut(skConn[c]) EXCEPT !.writer = "gone", !.sending = SkNone]
    <2>1. MessageInv(m, skConn[c].token, skVersion) /\ skConn[c].at = "open"
        BY <1>0, <1>6 DEF FrameWritten, ConnInv
    <2>2. /\ m.sessions \in SkLists /\ m.sessions.version \in Nat
          /\ m.sessions.version <= skVersion[SkUserOf[skConn[c].token]]
        BY <2>1 DEF MessageInv, SkMessages, SkLists
    <2>3. x \in Conns /\ x.at = "open"
        BY <1>0, <2>1, <2>2 DEF Conns
    <2>4. ConnInv(x, skVersion)
        BY <1>0, <1>6, <2>1, <2>2, <2>3 DEF ConnInv, Conns
    <2>5. ConnInv(Shut(skConn[c]), skVersion) /\ Shut(skConn[c]).at = "open"
        BY <1>0, <2>1, ShutConn DEF Shut, Conns
    <2>6. ConnInv(y, skVersion) /\ y.at = "open"
        BY <2>5 DEF ConnInv, Conns
    <2>7. skConn' = [skConn EXCEPT ![c] = x] \/ skConn' = [skConn EXCEPT ![c] = y]
        BY <1>6 DEF FrameWritten
    <2> HIDE DEF x, y
    <2> QED
        BY <1>6, <2>3, <2>4, <2>6, <2>7, <1>0, OneConnKeeps DEF FrameWritten
<1>7. ASSUME NEW c \in SkConns, WriterTick(c) \/ ReaderEnds(c) \/ ReadRefused(c)
      PROVE  SkInv'
    <2> DEFINE x == Shut(skConn[c])
    <2>1. skConn[c].at = "open"
        BY <1>0, <1>7 DEF WriterTick, ReaderEnds, ReadRefused, ConnInv, Conns
    <2>2. ConnInv(x, skVersion) /\ x.at = "open" /\ x.writer = skConn[c].writer
        BY <1>0, <2>1, ShutConn DEF Shut, Conns
    <2>3. CASE WriterTick(c)
        <3>0. x.writer = "ready"
            BY <2>2, <2>3 DEF WriterTick
        <3>1. ConnInv([x EXCEPT !.writer = "gone"], skVersion) /\ [x EXCEPT !.writer = "gone"].at = "open"
            BY <2>1, <2>2, <3>0 DEF ConnInv, Conns
        <3> QED
            BY <2>3, <3>1, <1>0, OneConnKeeps DEF WriterTick
    <2>4. CASE ReaderEnds(c)
        <3>1. ConnInv([x EXCEPT !.reader = "gone"], skVersion) /\ [x EXCEPT !.reader = "gone"].at = "open"
            BY <2>1, <2>2, <2>4 DEF ConnInv, Conns
        <3> QED
            BY <2>4, <3>1, <1>0, OneConnKeeps DEF ReaderEnds
    <2>5. CASE ReadRefused(c)
        BY <2>2, <2>5, <1>0, OneConnKeeps DEF ReadRefused
    <2> QED
        BY <1>7, <2>3, <2>4, <2>5
<1>8. ASSUME NEW c \in SkConns, SessionsStart(c)
      PROVE  SkInv'
    <2> DEFINE x == [skConn[c] EXCEPT !.reader = "starting"]
    <2>1. skConn[c].at = "open"
        BY <1>0, <1>8 DEF SessionsStart, Says, ConnInv, Conns
    <2>2. ConnInv(x, skVersion) /\ x.at = "open"
        BY <1>0, <2>1 DEF ConnInv, Conns
    <2> HIDE DEF x
    <2> QED
        BY <1>8, <2>2, <1>0, OneConnKeeps DEF SessionsStart, x
<1>9. ASSUME NEW c \in SkConns, NEW whole \in BOOLEAN, SessionsSnapshot(c, whole)
      PROVE  SkInv'
    <2> DEFINE v == ListOf(UserOf(c), whole)
               x == [skConn[c] EXCEPT !.reader = "snapshot", !.snapshot = v]
    <2>1. skConn[c].at = "open" /\ skConn[c].token \in SkTokens
        BY <1>0, <1>9 DEF SessionsSnapshot, ConnInv, Conns
    <2>2. v \in SkLists /\ v.version = skVersion[SkUserOf[skConn[c].token]]
        BY <1>0, <2>1 DEF UserOf, ListOf, SkLists
    <2> HIDE DEF v
    <2>0. skConn[c] \in Conns /\ ConnInv(skConn[c], skVersion)
        BY <1>0
    <2>3. x \in Conns /\ x.at = "open"
        BY <2>0, <2>1, <2>2 DEF Conns
    <2>4. ConnInv(x, skVersion)
        BY <1>0, <2>1, <2>2, <2>3 DEF ConnInv, Conns
    <2>5. skConn' = [skConn EXCEPT ![c] = x]
        BY <1>9 DEF SessionsSnapshot, SkInv, v
    <2> HIDE DEF x
    <2> QED
        BY <1>9, <2>3, <2>4, <2>5, <1>0, OneConnKeeps DEF SessionsSnapshot
<1>10. ASSUME NEW c \in SkConns, PushSnapshot(c)
       PROVE  SkInv'
    <2> DEFINE x == [skConn[c] EXCEPT !.reader = "ready"]
               m == Sessions(UserOf(c), skConn[c].snapshot)
    <2>1. skConn[c].at = "open" /\ skConn[c].token \in SkTokens
        BY <1>0, <1>10 DEF PushSnapshot, ConnInv, Conns
    <2>2. ConnInv(x, skVersion) /\ x.at = "open" /\ x.token = skConn[c].token
        BY <1>0, <2>1 DEF ConnInv, Conns
    <2>3. MessageInv(m, x.token, skVersion)
        BY <1>0, <2>1, <2>2 DEF MessageInv, Sessions, SkMessages, UserOf, ConnInv, Conns
    <2>4. ConnInv(Shut(skConn[c]), skVersion) /\ Shut(skConn[c]).at = "open"
        BY <1>0, <2>1, ShutConn DEF Shut, Conns
    <2> HIDE DEF x, m
    <2>5. CASE skConn' = [skConn EXCEPT ![c] = Shut(skConn[c])] /\ UNCHANGED skHub
        BY <1>10, <2>4, <2>5, <1>0, OneConnKeeps DEF PushSnapshot
    <2>6. CASE skConn' = [skConn EXCEPT ![c] = x] /\ UNCHANGED skHub
        BY <1>10, <2>2, <2>6, <1>0, OneConnKeeps DEF PushSnapshot
    <2>7. CASE Delivered([skConn EXCEPT ![c] = x], c, m)
        BY <1>10, <2>2, <2>3, <2>7, <1>0, DeliveryKeeps DEF PushSnapshot
    <2> QED
        BY <1>10, <2>5, <2>6, <2>7 DEF PushSnapshot, x, m
<1>11. ASSUME NEW c \in SkConns, SessionsStop(c)
       PROVE  SkInv'
    BY <1>11 DEF SessionsStop, SkInv, Listens, Registered, With
<1>12. ASSUME NEW c \in SkConns, NEW device \in SkDevices, ForwardCommand(c, device)
       PROVE  SkInv'
    <2>1. PICK d \in Receiver(c, device) : Delivered(skConn, d, Command(skConn[c].token))
        BY <1>12 DEF ForwardCommand
    <2>2. d \in SkConns /\ skConn[d].at = "open" /\ UserOf(d) = UserOf(c)
        BY <2>1 DEF Receiver, SkInv
    <2>3. skConn[c].token \in SkTokens
        BY <1>0, <1>12 DEF ForwardCommand, Says, ConnInv, Conns
    <2>4. MessageInv(Command(skConn[c].token), skConn[d].token, skVersion)
        BY <1>0, <2>2, <2>3 DEF MessageInv, Command, SkMessages, UserOf, NoList, SkLists
    <2>5. [skConn EXCEPT ![d] = skConn[d]] = skConn
        BY <2>2 DEF SkInv
    <2> QED
        BY <1>0, <1>12, <2>1, <2>2, <2>4, <2>5, DeliveryKeeps DEF ForwardCommand
<1>13. ASSUME NEW r \in SkReporters, NEW u \in SkUsers, Report(r, u)
       PROVE  SkInv'
    <2>1. skVersion' \in [SkUsers -> Nat] /\ \A w \in SkUsers : skVersion[w] <= skVersion'[w]
        BY <1>13 DEF Report, SkInv
    <2>2. \A c \in SkConns : ConnInv(skConn[c], skVersion')
        BY <1>0, <2>1, LaterConn DEF SkInv
    <2>3. /\ [NoReport EXCEPT !.todo = {SkNone}] \in Reports /\ NoList.version = 0
          /\ \A w \in SkUsers : [NoReport EXCEPT !.todo = {SkNone}].made[w] = NoList
        BY DEF NoReport, Reports, NoList, SkLists
    <2>4. skReport' \in [SkReporters -> Reports]
        BY <1>13, <2>3 DEF Report, SkInv
    <2>5. ASSUME NEW q \in SkReporters
          PROVE  ReportInv(skReport'[q], skVersion')
        <3>1. CASE q = r
            BY <1>13, <2>1, <2>3, <3>1 DEF Report, SkInv, ReportInv
        <3>2. CASE q # r
            BY <1>13, <2>1, <3>2 DEF Report, SkInv, ReportInv, Reports, SkLists
        <3> QED
            BY <3>1, <3>2
    <2> QED
        BY <1>13, <2>1, <2>2, <2>4, <2>5 DEF SkInv, Report
<1>14. ASSUME NEW r \in SkReporters, Collect(r)
       PROVE  SkInv'
    <2> DEFINE x == [skReport[r] EXCEPT !.todo = {c \in DOMAIN skHub : skHub[c]}]
    <2>1. x \in Reports /\ ReportInv(x, skVersion)
        BY <1>14 DEF Collect, SkInv, ReportInv, Reports
    <2> HIDE DEF x
    <2>2. skReport' = [skReport EXCEPT ![r] = x]
        BY <1>14 DEF Collect, x
    <2> QED
        BY <1>14, <2>1, <2>2 DEF SkInv, Collect
<1>15. ASSUME NEW r \in SkReporters, NEW c \in SkConns, MessageFor(r, c)
       PROVE  SkInv'
    <2> DEFINE list == ListOf(UserOf(c), ~skReport[r].late)
               made == [skReport[r].made EXCEPT ![UserOf(c)] = list]
               x == [skReport[r] EXCEPT !.made = made]
    <2>0. /\ skReport[r].made \in [SkUsers -> SkLists] /\ \A u \in SkUsers : skReport[r].made[u].version <= skVersion[u]
          /\ (~skReport[r].late) \in BOOLEAN
        BY DEF SkInv, ReportInv, Reports
    <2>1. made \in [SkUsers -> SkLists] /\ \A u \in SkUsers : made[u].version <= skVersion[u]
        <3>0. UserOf(c) \in SkUsers => list \in SkLists /\ list.version = skVersion[UserOf(c)]
            BY <1>0, <2>0 DEF ListOf, SkLists
        <3> HIDE DEF list
        <3>1. ASSUME NEW u \in SkUsers
              PROVE  made[u] \in SkLists /\ made[u].version <= skVersion[u]
            BY <1>0, <2>0, <3>0
        <3>2. made = [u \in SkUsers |-> made[u]]
            BY <2>0
        <3> HIDE DEF made
        <3> QED
            BY <3>1, <3>2
    <2>2. c \in skReport[r].todo /\ skReport[r].todo # {SkNone}
        BY <1>15 DEF MessageFor
    <2> HIDE DEF made
    <2>3. x \in Reports /\ ReportInv(x, skVersion)
        BY <2>1, <2>2 DEF SkInv, ReportInv, Reports
    <2> HIDE DEF x
    <2>4. skReport' = [skReport EXCEPT ![r] = x]
        BY <1>15 DEF MessageFor, x, made, list
    <2> QED
        BY <1>15, <2>3, <2>4 DEF SkInv, MessageFor
<1>16. ASSUME NEW r \in SkReporters, NEW c \in SkConns, Fan(r, c)
       PROVE  SkInv'
    <2> DEFINE x == [skReport[r] EXCEPT !.todo = skReport[r].todo \ {c}]
               m == Sessions(UserOf(c), skReport[r].made[UserOf(c)])
    <2>1. x \in Reports /\ ReportInv(x, skVersion) /\ skReport' = [skReport EXCEPT ![r] = x]
        BY <1>16 DEF SkInv, ReportInv, Reports, Fan
    <2>2. CASE UNCHANGED <<skConn, skHub>>
        <3> HIDE DEF x
        <3> QED
            BY <1>16, <2>1, <2>2 DEF SkInv, Fan
    <2>3. CASE Listens(c) /\ Delivered(skConn, c, m)
        <3>1. skConn[c].at = "open" /\ skConn[c].token \in SkTokens
            BY <1>0, <2>3 DEF Listens, Registered, SkInv, ConnInv
        <3>2. MessageInv(m, skConn[c].token, skVersion)
            BY <1>0, <1>16, <3>1 DEF MessageInv, Sessions, SkMessages, UserOf, Fan, SkInv, ReportInv, Reports
        <3>3. [skConn EXCEPT ![c] = skConn[c]] = skConn
            BY DEF SkInv
        <3>4. UNCHANGED <<skLive, skVersion>>
            BY <1>16 DEF Fan
        <3> HIDE DEF m, x
        <3>5. skReport' \in [SkReporters -> Reports] /\ \A q \in SkReporters : ReportInv(skReport'[q], skVersion)
            BY <2>1 DEF SkInv
        <3> QED
            BY <1>0, <2>3, <3>1, <3>2, <3>3, <3>4, <3>5, DeliveryKeeps
    <2> QED
        BY <1>16, <2>2, <2>3 DEF Fan
<1>17. CASE CloseSockets
    <2>1. skConn' \in [SkConns -> Conns] /\ \A c \in SkConns : ConnInv(skConn'[c], skVersion)
        BY <1>0, <1>17, ShutConn DEF CloseSockets, ConnInv
    <2>2. DOMAIN skHub' = {} /\ skHub' \in [DOMAIN skHub' -> BOOLEAN]
        BY <1>17 DEF CloseSockets
    <2> QED
        BY <1>17, <2>1, <2>2 DEF SkInv, CloseSockets
<1>18. ASSUME NEW r \in SkReporters, BudgetEnds(r)
       PROVE  SkInv'
    <2> DEFINE x == [skReport[r] EXCEPT !.late = TRUE]
    <2>1. x \in Reports /\ ReportInv(x, skVersion)
        BY DEF SkInv, ReportInv, Reports
    <2>2. skReport' = [skReport EXCEPT ![r] = x]
        BY <1>18 DEF BudgetEnds
    <2> HIDE DEF x
    <2> QED
        BY <1>18, <2>1, <2>2 DEF SkInv, BudgetEnds
<1> QED
    BY <1>1, <1>2, <1>3, <1>4, <1>5, <1>6, <1>7, <1>8, <1>9, <1>10, <1>11, <1>12, <1>13, <1>14, <1>15, <1>16, <1>17, <1>18 DEF SkNext

LEMMA SkAlways == SkSpec => []SkInv
BY SkInitHolds, SkStep, PTL DEF SkSpec

(* Every variable keeps its type; no channel exceeds its capacity; the hub holds only what it registered. *)
THEOREM SocketsTyped == SkSpec => []SkTypeOK
<1>1. SkInv => SkTypeOK
    BY DEF SkInv, SkTypeOK, ConnInv
<1> QED
    BY <1>1, SkAlways, PTL

(* Nobody's socket carries what is about or from somebody else.            *)
THEOREM MessagesStay == SkSpec => []MessagesStayWithUser
<1>1. SkInv => MessagesStayWithUser
    <2> SUFFICES ASSUME SkInv, NEW c \in SkConns, NEW m \in {skConn[c].sending} \cup Range(skConn[c].queue), m # SkNone
                 PROVE  m.about = UserOf(c)
        BY DEF MessagesStayWithUser
    <2>1. skConn[c].queue \in Seq(SkMessages) /\ ConnInv(skConn[c], skVersion)
        BY DEF SkInv, Conns
    <2>2. CASE m = skConn[c].sending
        BY <2>1, <2>2 DEF ConnInv, MessageInv, UserOf
    <2>3. CASE m \in Range(skConn[c].queue)
        <3>1. PICK i \in 1..Len(skConn[c].queue) : m = skConn[c].queue[i]
            BY <2>1, <2>3 DEF Range
        <3> QED
            BY <2>1, <3>1 DEF ConnInv, MessageInv, UserOf
    <2> QED
        BY <2>2, <2>3
<1> QED
    BY <1>1, SkAlways, PTL

(* A revocation waits for the frames that were checked before it, so that none is under way after it. *)
THEOREM RevocationIsFinal == SkSpec => []NothingAfterRevocation
<1>1. SkInit => NothingAfterRevocation
    BY DEF SkInit, NothingAfterRevocation, Away
<1>2. SkInv /\ NothingAfterRevocation /\ [SkNext]_skVars => NothingAfterRevocation'
    <2> SUFFICES ASSUME SkInv, NothingAfterRevocation, [SkNext]_skVars, NEW c \in SkConns, skConn'[c].writer = "writing"
                 PROVE  skConn'[c].token \in skLive' /\ skConn'[c].sending.sender \in skLive' \cup {SkNone}
        BY DEF NothingAfterRevocation, Authorized
    <2> DEFINE Same == /\ UNCHANGED skLive /\ skConn'[c].token = skConn[c].token
                       /\ skConn'[c].writer = skConn[c].writer /\ skConn'[c].sending = skConn[c].sending
    <2>0. \A d \in SkConns : skConn[d] \in Conns
        BY DEF SkInv
    <2>1. ASSUME NEW t \in SkTokens, Revoke(t)
          PROVE  FALSE
        BY <2>1 DEF Revoke, LockHeld
    <2>2. ASSUME NEW d \in SkConns, TakeMessage(d), d = c
          PROVE  skConn'[c].token \in skLive' /\ skConn'[c].sending.sender \in skLive' \cup {SkNone}
        <3> DEFINE x == skConn[c]
                   rest == [x EXCEPT !.queue = Tail(x.queue)]
        <3>1. rest.writer = "ready" /\ [Shut(rest) EXCEPT !.writer = "gone"].writer = "gone"
            BY <2>0, <2>2 DEF TakeMessage, Conns, Shut
        <3>2. /\ Authorized(c) /\ UNCHANGED skLive /\ Head(x.queue).sender \in skLive \cup {SkNone}
              /\ skConn'[c] = [rest EXCEPT !.writer = "writing", !.sending = Head(x.queue)]
            BY <2>0, <2>2, <3>1 DEF TakeMessage, SkInv
        <3>3. skConn'[c].token = x.token /\ skConn'[c].sending = Head(x.queue)
            BY <2>0, <3>2 DEF Conns
        <3> QED
            BY <3>2, <3>3 DEF Authorized
    <2>3. ASSUME NEW d \in SkConns, NEW y, skConn' = [skConn EXCEPT ![d] = y], UNCHANGED skLive,
                 y.writer = "writing" => y.token = skConn[d].token /\ skConn[d].writer = "writing" /\ y.sending = skConn[d].sending
          PROVE  Same
        <3>1. c # d => skConn'[c] = skConn[c]
            BY <2>3 DEF SkInv
        <3>2. c = d => skConn'[c] = y
            BY <2>3 DEF SkInv
        <3> QED
            BY <2>3, <3>1, <3>2
    <2>4. ASSUME NEW d \in SkConns, NEW x \in Conns, NEW m, Delivered([skConn EXCEPT ![d] = x], d, m),
                 x.token = skConn[d].token, x.writer = skConn[d].writer, x.sending = skConn[d].sending, UNCHANGED skLive
          PROVE  Same
        <3> DEFINE q == IF x.shut THEN x.queue ELSE Append(x.queue, m)
        <3>1. skConn' = [skConn EXCEPT ![d] = [x EXCEPT !.queue = q]] \/ skConn' = [skConn EXCEPT ![d] = Shut(x)]
            BY <2>4 DEF Delivered, SkInv
        <3> HIDE DEF q
        <3>2. /\ Shut(x).token = x.token /\ Shut(x).writer = x.writer /\ Shut(x).sending = x.sending
              /\ [x EXCEPT !.queue = q].token = x.token /\ [x EXCEPT !.queue = q].writer = x.writer
              /\ [x EXCEPT !.queue = q].sending = x.sending
            BY DEF Shut, Conns
        <3>3. CASE skConn' = [skConn EXCEPT ![d] = Shut(x)]
            BY <2>3, <2>4, <3>2, <3>3
        <3>4. CASE skConn' = [skConn EXCEPT ![d] = [x EXCEPT !.queue = q]]
            BY <2>3, <2>4, <3>2, <3>4
        <3> QED
            BY <3>1, <3>3, <3>4
    <2>5. ASSUME NEW d \in SkConns, SessionsStart(d) \/ (\E whole \in BOOLEAN : SessionsSnapshot(d, whole)) \/ SessionsStop(d)
          PROVE  Same
        <3>1. CASE SessionsStart(d)
            <4>1. skConn' = [skConn EXCEPT ![d] = [skConn[d] EXCEPT !.reader = "starting"]] /\ UNCHANGED skLive
                BY <3>1 DEF SessionsStart
            <4> QED
                BY <2>0, <2>3, <4>1 DEF Conns
        <3>2. ASSUME NEW whole \in BOOLEAN, SessionsSnapshot(d, whole) PROVE Same
            <4> DEFINE y == [skConn[d] EXCEPT !.reader = "snapshot", !.snapshot = ListOf(UserOf(d), whole)]
            <4>1. skConn' = [skConn EXCEPT ![d] = y] /\ UNCHANGED skLive
                BY <3>2 DEF SessionsSnapshot
            <4>2. y.token = skConn[d].token /\ y.writer = skConn[d].writer /\ y.sending = skConn[d].sending
                BY <2>0 DEF Conns
            <4> HIDE DEF y
            <4> QED
                BY <2>3, <4>1, <4>2
        <3>3. CASE SessionsStop(d)
            BY <3>3 DEF SessionsStop
        <3> QED
            BY <2>5, <3>1, <3>2, <3>3
    <2>12. ASSUME NEW d \in SkConns, UNCHANGED skLive, NEW y,
                  \/ \E t \in SkTokens, device \in SkDevices : y = [Away EXCEPT !.at = "shaking", !.token = t, !.device = device]
                  \/ y = [skConn[d] EXCEPT !.at = "open", !.writer = "ready", !.reader = "ready", !.queue = <<KeepAlive(skConn[d].token)>>]
                  \/ y = [skConn[d] EXCEPT !.writer = "ready", !.sending = SkNone,
                           !.got = IF skConn[d].sending.sessions = NoList THEN skConn[d].got ELSE skConn[d].sending.sessions,
                           !.told = IF skConn[d].sending.sessions.version > skConn[d].told
                                    THEN skConn[d].sending.sessions.version ELSE skConn[d].told]
                  \/ y = [Shut(skConn[d]) EXCEPT !.writer = "gone"] \/ y = [Shut(skConn[d]) EXCEPT !.writer = "gone", !.sending = SkNone],
                  skConn' = [skConn EXCEPT ![d] = y]
          PROVE  Same
        <3>1. y.writer \in {"none", "ready", "gone"}
            BY <2>0, <2>12 DEF Away, Shut, Conns
        <3> QED
            BY <2>3, <2>12, <3>1
    <2>13. ASSUME NEW d \in SkConns, (\E t \in SkTokens, device \in SkDevices : Dial(d, t, device))
                  \/ RegisterConn(d) \/ FrameWritten(d) \/ WriterTick(d)
           PROVE  Same
        <3>1. CASE FrameWritten(d)
            <4>0. UNCHANGED skLive
                BY <3>1 DEF FrameWritten
            <4>1. \/ skConn' = [skConn EXCEPT ![d] = [skConn[d] EXCEPT !.writer = "ready", !.sending = SkNone,
                        !.got = IF skConn[d].sending.sessions = NoList THEN skConn[d].got ELSE skConn[d].sending.sessions,
                           !.told = IF skConn[d].sending.sessions.version > skConn[d].told
                                    THEN skConn[d].sending.sessions.version ELSE skConn[d].told]]
                  \/ skConn' = [skConn EXCEPT ![d] = [Shut(skConn[d]) EXCEPT !.writer = "gone", !.sending = SkNone]]
                BY <3>1 DEF FrameWritten
            <4>2. ASSUME NEW y, y.writer # "writing", skConn' = [skConn EXCEPT ![d] = y]
                  PROVE  Same
                BY <2>3, <4>0, <4>2
            <4>3. [skConn[d] EXCEPT !.writer = "ready", !.sending = SkNone,
                      !.got = IF skConn[d].sending.sessions = NoList THEN skConn[d].got ELSE skConn[d].sending.sessions,
                           !.told = IF skConn[d].sending.sessions.version > skConn[d].told
                                    THEN skConn[d].sending.sessions.version ELSE skConn[d].told].writer = "ready"
                  /\ [Shut(skConn[d]) EXCEPT !.writer = "gone", !.sending = SkNone].writer = "gone"
                BY <2>0 DEF Shut, Conns
            <4> HIDE DEF Same
            <4> QED
                BY <4>1, <4>2, <4>3
        <3> QED
            BY <2>12, <2>13, <3>1 DEF Dial, RegisterConn, WriterTick
    <2>14. ASSUME NEW d \in SkConns, ReaderEnds(d) \/ ReadRefused(d)
           PROVE  Same
        <3>0. UNCHANGED skLive
            BY <2>14 DEF ReaderEnds, ReadRefused
        <3>1. \/ skConn' = [skConn EXCEPT ![d] = Shut(skConn[d])]
              \/ skConn' = [skConn EXCEPT ![d] = [Shut(skConn[d]) EXCEPT !.reader = "gone"]]
            BY <2>14 DEF ReaderEnds, ReadRefused
        <3> DEFINE Kept(y) == y.token = skConn[d].token /\ y.writer = skConn[d].writer /\ y.sending = skConn[d].sending
        <3>2. Kept(Shut(skConn[d])) /\ Kept([Shut(skConn[d]) EXCEPT !.reader = "gone"])
            BY <2>0 DEF Shut, Conns
        <3> HIDE DEF Same
        <3>3. ASSUME NEW y, Kept(y), skConn' = [skConn EXCEPT ![d] = y]
              PROVE  Same
            <4>1. y.writer = "writing" => y.token = skConn[d].token /\ skConn[d].writer = "writing" /\ y.sending = skConn[d].sending
                BY <3>3
            <4>2. UNCHANGED skLive /\ skConn' = [skConn EXCEPT ![d] = y]
                BY <3>0, <3>3
            <4> QED
                BY <2>3, <4>1, <4>2
        <3> HIDE DEF Kept
        <3> QED
            BY <3>1, <3>2, <3>3
    <2>15. ASSUME NEW d \in SkConns, TakeMessage(d), d # c
           PROVE  Same
        BY <2>15 DEF TakeMessage, SkInv
    <2>6. ASSUME NEW d \in SkConns, PushSnapshot(d)
          PROVE  Same
        <3> DEFINE x == [skConn[d] EXCEPT !.reader = "ready"]
        <3>1. x \in Conns /\ x.token = skConn[d].token /\ x.writer = skConn[d].writer /\ x.sending = skConn[d].sending
            BY <2>0 DEF Conns
        <3>2. [skConn EXCEPT ![d].reader = "ready"] = [skConn EXCEPT ![d] = x] /\ UNCHANGED skLive
            BY <2>6 DEF PushSnapshot
        <3>3. \/ skConn' = [skConn EXCEPT ![d] = Shut(skConn[d])]
              \/ skConn' = [skConn EXCEPT ![d] = x]
              \/ Delivered([skConn EXCEPT ![d] = x], d, Sessions(UserOf(d), skConn[d].snapshot))
            BY <2>6, <3>2 DEF PushSnapshot
        <3>4. Shut(skConn[d]).token = skConn[d].token /\ Shut(skConn[d]).writer = skConn[d].writer /\ Shut(skConn[d]).sending = skConn[d].sending
            BY <2>0 DEF Shut, Conns
        <3> HIDE DEF x
        <3> QED
            BY <2>4, <3>1, <3>2, <3>3, <3>4 DEF SkInv
    <2>7. ASSUME NEW d \in SkConns, NEW device \in SkDevices, ForwardCommand(d, device)
          PROVE  Same
        <3>1. PICK e \in DOMAIN skHub : Delivered(skConn, e, Command(skConn[d].token))
            BY <2>7 DEF ForwardCommand, Receiver
        <3>2. e \in SkConns /\ [skConn EXCEPT ![e] = skConn[e]] = skConn /\ skConn[e] \in Conns /\ UNCHANGED skLive
            BY <2>7 DEF SkInv, ForwardCommand
        <3> QED
            BY <2>4, <3>1, <3>2
    <2>8. ASSUME NEW r \in SkReporters, NEW d \in SkConns, Fan(r, d)
          PROVE  Same
        <3>1. UNCHANGED skLive /\ [skConn EXCEPT ![d] = skConn[d]] = skConn
            BY <2>8 DEF Fan, SkInv
        <3>2. UNCHANGED skConn \/ Delivered(skConn, d, Sessions(UserOf(d), skReport[r].made[UserOf(d)]))
            BY <2>8 DEF Fan
        <3> QED
            BY <2>0, <2>4, <3>1, <3>2
    <2>9. ASSUME UNCHANGED skVars \/ (\E r \in SkReporters : Collect(r) \/ BudgetEnds(r) \/ (\E u \in SkUsers : Report(r, u))
                 \/ \E d \in SkConns : MessageFor(r, d))
          PROVE  Same
        BY <2>9 DEF skVars, Collect, Report, MessageFor, BudgetEnds
    <2>10. ASSUME CloseSockets
           PROVE  Same
        <3>1. UNCHANGED skLive /\ skConn'[c] \in {Shut(skConn[c]), skConn[c]}
            BY <2>10 DEF CloseSockets
        <3>2. Shut(skConn[c]).token = skConn[c].token /\ Shut(skConn[c]).writer = skConn[c].writer /\ Shut(skConn[c]).sending = skConn[c].sending
            BY <2>0 DEF Shut, Conns
        <3> QED
            BY <3>1, <3>2
    <2>11. Same => skConn'[c].token \in skLive' /\ skConn'[c].sending.sender \in skLive' \cup {SkNone}
        BY DEF NothingAfterRevocation, Authorized
    <2> HIDE DEF Same
    <2> QED
        BY <2>1, <2>2, <2>5, <2>6, <2>7, <2>8, <2>9, <2>10, <2>11, <2>13, <2>14, <2>15 DEF SkNext
<1> QED
    BY <1>1, <1>2, SkAlways, PTL DEF SkSpec

(* So whatever is on its way to a connection may be sent to it.            *)
THEOREM FramesMayBeSent == SkSpec => []FramesAreDue
BY MessagesStay, RevocationIsFinal, PTL DEF FramesAreDue

-----------------------------------------------------------------------------
(* No subscriber misses the last report of its user: it has been told of it, or a message of it is on its way, or its
   snapshot is still to be taken, or a report under way has still to make or to deliver one. *)

OwedBy(x, v) ==
    \/ x.shut \/ x.told = v
    \/ \E i \in 1..Len(x.queue) : x.queue[i].sessions.version = v
    \/ x.sending # SkNone /\ x.sending.sessions.version = v
    \/ x.reader = "starting" \/ (x.reader = "snapshot" /\ x.snapshot.version = v)
OwedFrom(q, c, u, v) == SkNone \in q.todo \/ (c \in q.todo /\ (q.made[u] = NoList \/ q.made[u].version = v))
Last(c) == skVersion[UserOf(c)]
Owed(c) == OwedBy(skConn[c], Last(c)) \/ \E r \in SkReporters : OwedFrom(skReport[r], c, UserOf(c), Last(c))
NobodyForgotten == \A c \in SkConns : Listens(c) => Owed(c)

(* Delivering a message never loses what is owed, and pays it if it is the last. *)
LEMMA DeliveryPays ==
    ASSUME SkInv, NEW c \in SkConns, NEW x, ConnInv(x, skVersion), NEW m \in SkMessages, Delivered([skConn EXCEPT ![c] = x], c, m),
           NEW v, OwedBy(x, v) \/ m.sessions.version = v
    PROVE  OwedBy(skConn'[c], v) /\ skConn'[c].token = x.token
<1> DEFINE conns == [skConn EXCEPT ![c] = x]
<1>1. conns[c] = x /\ DOMAIN conns = SkConns /\ x \in Conns
    BY DEF SkInv, ConnInv
<1>2. CASE Len(x.queue) < SkQueue /\ ~x.shut
    <2> DEFINE q == Append(x.queue, m)
               y == [x EXCEPT !.queue = q]
    <2>1. skConn'[c] = y
        BY <1>1, <1>2 DEF Delivered
    <2>2. Len(q) = Len(x.queue) + 1 /\ Len(x.queue) \in Nat /\ (\A i \in 1..Len(x.queue) : q[i] = x.queue[i]) /\ q[Len(x.queue) + 1] = m
        BY <1>1, AppendProperties, LenProperties DEF Conns
    <2> HIDE DEF q
    <2>3. /\ y.queue = q /\ y.shut = x.shut /\ y.told = x.told /\ y.sending = x.sending /\ y.reader = x.reader
          /\ y.snapshot = x.snapshot /\ y.token = x.token
        BY <1>1 DEF Conns
    <2> HIDE DEF y
    <2>4. OwedBy(y, v)
        <3>1. CASE m.sessions.version = v
            <4>1. Len(x.queue) + 1 \in 1..Len(y.queue)
                BY <2>2, <2>3
            <4> QED
                BY <2>2, <2>3, <3>1, <4>1 DEF OwedBy
        <3>2. CASE \E i \in 1..Len(x.queue) : x.queue[i].sessions.version = v
            <4>1. PICK i \in 1..Len(x.queue) : x.queue[i].sessions.version = v
                BY <3>2
            <4>2. i \in 1..Len(y.queue) /\ y.queue[i].sessions.version = v
                BY <2>2, <2>3, <4>1
            <4> QED
                BY <4>2 DEF OwedBy
        <3> QED
            BY <2>3, <3>1, <3>2 DEF OwedBy
    <2> QED
        BY <2>1, <2>3, <2>4
<1>3. CASE Len(x.queue) < SkQueue /\ x.shut
    <2>1. skConn'[c] = [x EXCEPT !.queue = x.queue]
        BY <1>1, <1>3 DEF Delivered
    <2> QED
        BY <1>1, <1>3, <2>1 DEF OwedBy, Conns
<1>4. CASE ~(Len(x.queue) < SkQueue)
    <2>1. skConn'[c] = Shut(x)
        BY <1>1, <1>4 DEF Delivered
    <2> QED
        BY <1>1, <2>1 DEF OwedBy, Shut, Conns
<1> QED
    BY <1>2, <1>3, <1>4

(* Delivering touches nobody else, and subscribes nobody.                  *)
LEMMA DeliverySpares ==
    ASSUME SkInv, NEW c \in SkConns, NEW x, NEW m, Delivered([skConn EXCEPT ![c] = x], c, m)
    PROVE  (\A d \in SkConns \ {c} : skConn'[d] = skConn[d]) /\ (\A d \in SkConns : Listens(d)' => Listens(d))
BY DEF Delivered, SkInv, Listens, Registered, LeavesOut

(* A connection that a step does not touch is owed what it was.            *)
LEMMA OthersKeepOwed ==
    ASSUME SkInv, NobodyForgotten, UNCHANGED <<skVersion, skReport>>, NEW d \in SkConns, Listens(d)' => Listens(d),
           skConn'[d] = skConn[d]
    PROVE  Listens(d)' => Owed(d)'
BY DEF NobodyForgotten, Owed, Last, UserOf

(* One connection changes, and what it is owed stays or is paid.           *)
LEMMA OneKeepsOwed ==
    ASSUME SkInv, NobodyForgotten, UNCHANGED <<skVersion, skReport>>, NEW c \in SkConns, NEW d \in SkConns,
           Listens(d)' => Listens(d), d # c => skConn'[d] = skConn[d],
           skConn'[c].token = skConn[c].token, OwedBy(skConn[c], Last(c)) => OwedBy(skConn'[c], Last(c))
    PROVE  Listens(d)' => Owed(d)'
BY DEF NobodyForgotten, Owed, Last, UserOf

(* Every step keeps or pays what a subscriber is owed.                     *)
LEMMA OwedStep == SkInv /\ NobodyForgotten /\ [SkNext]_skVars => NobodyForgotten'
<1> SUFFICES ASSUME SkInv, NobodyForgotten, [SkNext]_skVars, NEW d \in SkConns, Listens(d)'
             PROVE  Owed(d)'
    BY DEF NobodyForgotten
<1>0. /\ \A c \in SkConns : skConn[c] \in Conns /\ ConnInv(skConn[c], skVersion)
      /\ \A r \in SkReporters : skReport[r] \in Reports /\ ReportInv(skReport[r], skVersion)
      /\ \A c \in DOMAIN skHub : c \in SkConns /\ skConn[c].at = "open" /\ skConn[c].token \in SkTokens
      /\ \A c \in SkConns : Listens(c) => UserOf(c) \in SkUsers /\ skVersion[UserOf(c)] \in Nat
    BY DEF SkInv, ConnInv, Listens, Registered, UserOf
<1>1. CASE UNCHANGED skVars
    BY <1>1, OthersKeepOwed DEF skVars, Listens, Registered
<1>2. CASE \E t \in SkTokens : Revoke(t)
    BY <1>2, OthersKeepOwed DEF Revoke, Listens, Registered
<1>3. ASSUME NEW c \in SkConns, NEW t \in SkTokens, NEW device \in SkDevices, Dial(c, t, device)
      PROVE  Owed(d)'
    <2>1. Listens(d) /\ d # c
        BY <1>0, <1>3 DEF Dial, Listens, Registered
    <2> QED
        BY <1>3, <2>1, OthersKeepOwed DEF Dial, SkInv
<1>4. ASSUME NEW c \in SkConns, RegisterConn(c)
      PROVE  Owed(d)'
    <2>1. Listens(d) /\ d # c
        BY <1>4 DEF RegisterConn, Listens, Registered, With
    <2> QED
        BY <1>4, <2>1, OthersKeepOwed DEF RegisterConn, SkInv
<1>5. ASSUME NEW c \in SkConns, TakeMessage(c)
      PROVE  Owed(d)'
    <2>1. Listens(d) /\ UNCHANGED <<skVersion, skReport>>
        BY <1>5 DEF TakeMessage, Listens, Registered
    <2>2. CASE d # c
        BY <1>5, <2>1, <2>2, OthersKeepOwed DEF TakeMessage, SkInv
    <2>3. CASE d = c
        <3> DEFINE x == skConn[c]
                   m == Head(x.queue)
                   t == Tail(x.queue)
                   rest == [x EXCEPT !.queue = t]
        <3>1. x.queue \in Seq(SkMessages) /\ x.queue # <<>> /\ x.sending = SkNone /\ ConnInv(x, skVersion) /\ x.writer = "ready" /\ x \in Conns
            BY <1>0, <1>5 DEF TakeMessage, ConnInv, Conns
        <3>2. /\ m \in SkMessages /\ MessageInv(m, x.token, skVersion) /\ m = x.queue[1] /\ Len(x.queue) \in Nat
              /\ Len(t) = Len(x.queue) - 1 /\ \A i \in 1..Len(t) : t[i] = x.queue[i + 1]
            <4>1. /\ Tail(x.queue) \in Seq(SkMessages) /\ Len(Tail(x.queue)) = Len(x.queue) - 1
                  /\ \A i \in 1..Len(Tail(x.queue)) : Tail(x.queue)[i] = x.queue[i + 1]
                  /\ Head(x.queue) = x.queue[1] /\ Len(x.queue) \in Nat
                BY <3>1, HeadTailProperties, LenProperties, EmptySeq
            <4>2. MessageInv(Head(x.queue), x.token, skVersion)
                BY <3>1, TakenConn
            <4> QED
                BY <4>1, <4>2 DEF MessageInv, m, t
        <3>3. \/ skConn'[c] = [Shut(rest) EXCEPT !.writer = "gone"]
              \/ m.sender # SkNone /\ skConn'[c] = rest
              \/ skConn'[c] = [rest EXCEPT !.writer = "writing", !.sending = m]
            BY <1>5 DEF TakeMessage, SkInv
        <3> HIDE DEF t, m
        <3>4. ASSUME NEW v, OwedBy(x, v), x.told # v, m.sessions.version # v
              PROVE  OwedBy(rest, v)
            <4>1. rest.shut = x.shut /\ rest.told = x.told /\ rest.queue = t /\ rest.sending = x.sending /\ rest.reader = x.reader /\ rest.snapshot = x.snapshot
                BY <3>1 DEF Conns
            <4>2. CASE \E i \in 1..Len(x.queue) : x.queue[i].sessions.version = v
                <5>1. PICK i \in 1..Len(x.queue) : x.queue[i].sessions.version = v
                    BY <4>2
                <5>2. i # 1 /\ i - 1 \in 1..Len(t) /\ t[i - 1] = x.queue[i]
                    BY <3>2, <3>4, <5>1
                <5> HIDE DEF rest
                <5> QED
                    BY <4>1, <5>1, <5>2 DEF OwedBy
            <4> HIDE DEF rest
            <4> QED
                BY <3>4, <4>1, <4>2 DEF OwedBy
        <3>5. rest \in Conns /\ rest.told = x.told /\ rest.token = x.token
            <4>1. Tail(x.queue) \in Seq(SkMessages)
                BY <3>1, HeadTailProperties
            <4> QED
                BY <3>1, <4>1 DEF Conns, t, rest
        <3>6. m # SkNone
            BY <3>2
        <3>7. ASSUME NEW v, OwedBy(x, v), v = skVersion[SkUserOf[x.token]], v \in Nat, x.at = "open"
              PROVE  OwedBy(skConn'[c], v)
            <4>1. CASE skConn'[c] = [Shut(rest) EXCEPT !.writer = "gone"]
                BY <3>5, <4>1 DEF OwedBy, Shut, Conns
            <4>2. CASE m.sender # SkNone /\ skConn'[c] = rest
                <5>1. m.sessions.version = 0
                    BY <3>2, <4>2 DEF MessageInv, SkMessages, NoList
                <5>2. m.sessions.version = v => x.told = v
                    BY <3>1, <3>7, <5>1 DEF ConnInv, Conns
                <5>3. x.told = v => OwedBy(rest, v)
                    BY <3>5 DEF OwedBy
                <5> HIDE DEF rest
                <5> QED
                    BY <3>4, <3>7, <4>2, <5>2, <5>3
            <4>3. CASE skConn'[c] = [rest EXCEPT !.writer = "writing", !.sending = m]
                <5> DEFINE y == [rest EXCEPT !.writer = "writing", !.sending = m]
                <5>1. /\ y.shut = rest.shut /\ y.told = rest.told /\ y.queue = rest.queue /\ y.sending = m
                      /\ y.reader = rest.reader /\ y.snapshot = rest.snapshot
                    BY <3>5 DEF Conns
                <5>2. rest.sending = SkNone
                    BY <3>1 DEF Conns
                <5> HIDE DEF rest, y
                <5>3. OwedBy(rest, v) \/ x.told = v \/ m.sessions.version = v
                    BY <3>4, <3>7
                <5>4. OwedBy(y, v)
                    BY <3>5, <3>6, <5>1, <5>2, <5>3 DEF OwedBy
                <5> QED
                    BY <4>3, <5>4 DEF y
            <4> QED
                BY <3>3, <4>1, <4>2, <4>3
        <3>8. skConn'[c].token = x.token
            BY <3>3, <3>5 DEF Shut, Conns
        <3>9. x.at = "open" /\ Owed(c) /\ Last(c) = skVersion[SkUserOf[x.token]] /\ Last(c) \in Nat /\ Last(c)' = Last(c) /\ UserOf(c)' = UserOf(c)
            BY <1>0, <2>1, <2>3, <3>8 DEF NobodyForgotten, Listens, Registered, Last, UserOf
        <3> HIDE DEF x
        <3> QED
            BY <2>1, <2>3, <3>7, <3>9 DEF Owed, x
    <2> QED
        BY <2>2, <2>3
<1>6. ASSUME NEW c \in SkConns, FrameWritten(c)
      PROVE  Owed(d)'
    <2> DEFINE x == skConn[c]
               v == Last(c)
               newest == IF x.sending.sessions.version > x.told THEN x.sending.sessions.version ELSE x.told
               latest == IF x.sending.sessions = NoList THEN x.got ELSE x.sending.sessions
               y == [x EXCEPT !.writer = "ready", !.sending = SkNone, !.got = latest, !.told = newest]
               z == [Shut(x) EXCEPT !.writer = "gone", !.sending = SkNone]
    <2>1. x \in Conns /\ ConnInv(x, skVersion) /\ x.at = "open" /\ x.sending # SkNone /\ x.token \in SkTokens
        BY <1>0, <1>6 DEF FrameWritten, ConnInv
    <2>2. v = skVersion[SkUserOf[x.token]] /\ v \in Nat /\ x.told \in Nat /\ x.told <= v
          /\ x.sending.sessions.version \in Nat /\ x.sending.sessions.version <= v
        BY <2>1 DEF ConnInv, Conns, MessageInv, SkMessages, SkLists, Last, UserOf, SkInv
    <2>3. skConn' = [skConn EXCEPT ![c] = y] \/ skConn' = [skConn EXCEPT ![c] = z]
        BY <1>6 DEF FrameWritten
    <2>4. newest \in Nat /\ (x.told = v => newest = v) /\ (x.sending.sessions.version = v => newest = v)
        BY <2>2
    <2> HIDE DEF newest, latest, v
    <2>5. /\ y.token = x.token /\ y.told = newest /\ y.shut = x.shut /\ y.queue = x.queue
          /\ y.reader = x.reader /\ y.snapshot = x.snapshot
        BY <2>1, <2>4 DEF Conns
    <2>6. z.token = x.token /\ z.shut
        BY <2>1 DEF Shut, Conns
    <2> HIDE DEF y, z, x
    <2>7. OwedBy(x, v) => OwedBy(y, v)
        BY <2>4, <2>5 DEF OwedBy
    <2>8. OwedBy(z, v)
        BY <2>6 DEF OwedBy
    <2>9. /\ skConn'[c].token = skConn[c].token /\ (OwedBy(skConn[c], Last(c)) => OwedBy(skConn'[c], Last(c)))
          /\ (d # c => skConn'[d] = skConn[d])
        BY <2>3, <2>5, <2>6, <2>7, <2>8 DEF SkInv, x, v
    <2>10. UNCHANGED <<skVersion, skReport, skHub>>
        BY <1>6 DEF FrameWritten
    <2> QED
        BY <2>9, <2>10, OneKeepsOwed DEF Listens, Registered
<1>7. ASSUME NEW c \in SkConns, WriterTick(c) \/ ReaderEnds(c) \/ ReadRefused(c)
      PROVE  Owed(d)'
    <2> DEFINE x == Shut(skConn[c])
    <2>1. x.shut /\ x.token = skConn[c].token /\ x.queue = <<>>
        BY <1>0 DEF Shut, Conns
    <2>2. [x EXCEPT !.writer = "gone"].shut /\ [x EXCEPT !.writer = "gone"].token = skConn[c].token
          /\ [x EXCEPT !.reader = "gone"].shut /\ [x EXCEPT !.reader = "gone"].token = skConn[c].token
        BY <1>0 DEF Shut, Conns
    <2>3. \/ skConn' = [skConn EXCEPT ![c] = x]
          \/ skConn' = [skConn EXCEPT ![c] = [x EXCEPT !.writer = "gone"]]
          \/ skConn' = [skConn EXCEPT ![c] = [x EXCEPT !.reader = "gone"]]
        BY <1>7 DEF WriterTick, ReaderEnds, ReadRefused
    <2> HIDE DEF x
    <2>4. skConn'[c].shut /\ skConn'[c].token = skConn[c].token /\ (d # c => skConn'[d] = skConn[d])
        BY <2>1, <2>2, <2>3 DEF SkInv
    <2>5. UNCHANGED <<skVersion, skReport>> /\ (Listens(d)' => Listens(d))
        BY <1>7 DEF WriterTick, ReaderEnds, ReadRefused, Listens, Registered, LeavesOut
    <2>6. OwedBy(skConn'[c], Last(c))
        BY <2>4 DEF OwedBy
    <2> QED
        BY <2>4, <2>5, <2>6, OneKeepsOwed
<1>8. ASSUME NEW c \in SkConns, SessionsStart(c)
      PROVE  Owed(d)'
    <2>1. skConn' = [skConn EXCEPT ![c] = [skConn[c] EXCEPT !.reader = "starting"]] /\ UNCHANGED <<skVersion, skReport>>
        BY <1>8 DEF SessionsStart
    <2>2. [skConn[c] EXCEPT !.reader = "starting"].reader = "starting"
        BY <1>0 DEF Conns
    <2>3. CASE d = c
        <3>1. skConn'[d].reader = "starting"
            BY <2>1, <2>2, <2>3 DEF SkInv
        <3> QED
            BY <3>1 DEF Owed, OwedBy
    <2>4. CASE d # c
        BY <1>8, <2>1, <2>4, OthersKeepOwed DEF SessionsStart, Listens, Registered, With, SkInv
    <2> QED
        BY <2>3, <2>4
<1>9. ASSUME NEW c \in SkConns, NEW whole \in BOOLEAN, SessionsSnapshot(c, whole)
      PROVE  Owed(d)'
    <2> DEFINE y == [skConn[c] EXCEPT !.reader = "snapshot", !.snapshot = ListOf(UserOf(c), whole)]
    <2>1. skConn' = [skConn EXCEPT ![c] = y] /\ UNCHANGED <<skVersion, skReport, skHub>>
        BY <1>9 DEF SessionsSnapshot
    <2>2. y.reader = "snapshot" /\ y.snapshot.version = Last(c) /\ y.token = skConn[c].token
        BY <1>0 DEF Conns, ListOf, Last
    <2> HIDE DEF y
    <2>3. OwedBy(y, Last(c))
        BY <2>2 DEF OwedBy
    <2>4. skConn'[c] = y /\ (d # c => skConn'[d] = skConn[d])
        BY <2>1 DEF SkInv
    <2> QED
        BY <2>1, <2>2, <2>3, <2>4, OneKeepsOwed DEF Listens, Registered
<1>10. ASSUME NEW c \in SkConns, PushSnapshot(c)
       PROVE  Owed(d)'
    <2> DEFINE x == [skConn[c] EXCEPT !.reader = "ready"]
               m == Sessions(UserOf(c), skConn[c].snapshot)
    <2>0. UNCHANGED <<skVersion, skReport>> /\ skConn[c].reader = "snapshot"
        BY <1>10 DEF PushSnapshot
    <2>1. x \in Conns /\ x.token = skConn[c].token /\ x.shut = skConn[c].shut /\ x.told = skConn[c].told
          /\ x.queue = skConn[c].queue /\ x.sending = skConn[c].sending
        <3>1. skConn[c] \in Conns
            BY <1>0
        <3> QED
            BY <3>1 DEF Conns
    <2>2. \/ skConn' = [skConn EXCEPT ![c] = Shut(skConn[c])] /\ UNCHANGED skHub
          \/ ~Registered(c) /\ skConn' = [skConn EXCEPT ![c] = x] /\ UNCHANGED skHub
          \/ Registered(c) /\ Delivered([skConn EXCEPT ![c] = x], c, m)
        BY <1>10 DEF PushSnapshot
    <2>3. m.sessions.version = skConn[c].snapshot.version
        BY DEF Sessions
    <2>4. OwedBy(skConn[c], Last(c)) => OwedBy(x, Last(c)) \/ m.sessions.version = Last(c)
        BY <2>0, <2>1, <2>3 DEF OwedBy
    <2>5. CASE skConn' = [skConn EXCEPT ![c] = Shut(skConn[c])] /\ UNCHANGED skHub
        <3>1. Shut(skConn[c]).shut /\ Shut(skConn[c]).token = skConn[c].token
            BY <1>0 DEF Shut, Conns
        <3>2. OwedBy(Shut(skConn[c]), Last(c))
            BY <3>1 DEF OwedBy
        <3>3. skConn'[c] = Shut(skConn[c]) /\ (d # c => skConn'[d] = skConn[d])
            BY <2>5 DEF SkInv
        <3> QED
            BY <2>0, <2>5, <3>1, <3>2, <3>3, OneKeepsOwed DEF Listens, Registered
    <2>6. CASE ~Registered(c) /\ skConn' = [skConn EXCEPT ![c] = x] /\ UNCHANGED skHub
        <3>1. d # c /\ Listens(d)
            BY <2>6 DEF Listens, Registered
        <3> QED
            BY <2>0, <2>6, <3>1, OthersKeepOwed DEF SkInv
    <2>7. CASE Registered(c) /\ Delivered([skConn EXCEPT ![c] = x], c, m)
        <3>0. skConn[c].at = "open" /\ skConn[c].token \in SkTokens /\ ConnInv(skConn[c], skVersion)
            BY <1>0, <2>7 DEF Registered
        <3>1. ConnInv(x, skVersion)
            BY <2>1, <3>0 DEF ConnInv, Conns
        <3>2. m \in SkMessages
            BY <1>0, <3>0 DEF Sessions, SkMessages, UserOf, Conns
        <3> HIDE DEF x, m
        <3>3. (\A e \in SkConns \ {c} : skConn'[e] = skConn[e]) /\ (\A e \in SkConns : Listens(e)' => Listens(e))
            BY <2>7, DeliverySpares
        <3>4. OwedBy(skConn[c], Last(c)) => OwedBy(skConn'[c], Last(c)) /\ skConn'[c].token = x.token
            BY <2>4, <2>7, <3>1, <3>2, DeliveryPays
        <3>5. OwedBy(skConn'[c], m.sessions.version) /\ skConn'[c].token = x.token
            BY <2>7, <3>1, <3>2, DeliveryPays
        <3> QED
            BY <2>0, <2>1, <3>3, <3>4, <3>5, OneKeepsOwed
    <2> QED
        BY <2>2, <2>5, <2>6, <2>7
<1>11. ASSUME NEW c \in SkConns, SessionsStop(c)
       PROVE  Owed(d)'
    <2>1. d # c /\ Listens(d) /\ UNCHANGED <<skConn, skVersion, skReport>>
        BY <1>11 DEF SessionsStop, Listens, Registered, With
    <2> QED
        BY <2>1, OthersKeepOwed
<1>12. ASSUME NEW c \in SkConns, NEW device \in SkDevices, ForwardCommand(c, device)
       PROVE  Owed(d)'
    <2> DEFINE m == Command(skConn[c].token)
    <2>1. UNCHANGED <<skVersion, skReport>> /\ skConn[c].reader = "ready"
        BY <1>12 DEF ForwardCommand, Says
    <2>2. PICK e \in DOMAIN skHub : Delivered(skConn, e, m)
        BY <1>12 DEF ForwardCommand, Receiver
    <2>3. skConn[c].token \in SkTokens /\ e \in SkConns /\ skConn[e] \in Conns /\ ConnInv(skConn[e], skVersion)
        BY <1>0, <2>1 DEF ConnInv
    <2>4. m \in SkMessages
        BY <2>3 DEF Command, SkMessages, NoList, SkLists
    <2>5. [skConn EXCEPT ![e] = skConn[e]] = skConn
        BY DEF SkInv
    <2> HIDE DEF m
    <2>6. (\A f \in SkConns \ {e} : skConn'[f] = skConn[f]) /\ (\A f \in SkConns : Listens(f)' => Listens(f))
        BY <2>2, <2>3, <2>5, DeliverySpares
    <2>7. OwedBy(skConn[e], Last(e)) => OwedBy(skConn'[e], Last(e))
        BY <2>2, <2>3, <2>4, <2>5, DeliveryPays
    <2>8. OwedBy(skConn'[e], m.sessions.version) /\ skConn'[e].token = skConn[e].token
        BY <2>2, <2>3, <2>4, <2>5, DeliveryPays
    <2> QED
        BY <2>1, <2>3, <2>6, <2>7, <2>8, OneKeepsOwed
<1>13. ASSUME NEW r \in SkReporters, NEW u \in SkUsers, Report(r, u)
       PROVE  Owed(d)'
    <2>1. skReport' = [skReport EXCEPT ![r] = [NoReport EXCEPT !.todo = {SkNone}]]
        BY <1>13 DEF Report
    <2>2. [NoReport EXCEPT !.todo = {SkNone}].todo = {SkNone}
        BY DEF NoReport
    <2>3. skReport'[r].todo = {SkNone}
        BY <2>1, <2>2 DEF SkInv
    <2> QED
        BY <2>3 DEF Owed, OwedFrom
<1>14. ASSUME NEW r \in SkReporters, Collect(r)
       PROVE  Owed(d)'
    <2>1. Listens(d) /\ UNCHANGED <<skConn, skVersion>> /\ skReport[r].todo = {SkNone}
        BY <1>14 DEF Collect, Listens, Registered
    <2>2. skReport'[r].todo = {c \in DOMAIN skHub : skHub[c]} /\ skReport'[r].made = skReport[r].made
        <3> DEFINE x == [skReport[r] EXCEPT !.todo = {c \in DOMAIN skHub : skHub[c]}]
        <3>1. skReport' = [skReport EXCEPT ![r] = x]
            BY <1>14 DEF Collect
        <3>2. x.todo = {c \in DOMAIN skHub : skHub[c]} /\ x.made = skReport[r].made
            BY <1>0 DEF Reports
        <3> HIDE DEF x
        <3> QED
            BY <3>1, <3>2 DEF SkInv
    <2>3. d \in skReport'[r].todo
        BY <2>1, <2>2 DEF Listens, Registered
    <2>4. UserOf(d) \in SkUsers /\ skReport'[r].made[UserOf(d)] = NoList /\ UserOf(d)' = UserOf(d)
        BY <1>0, <2>1, <2>2 DEF ReportInv, UserOf
    <2> QED
        BY <2>3, <2>4 DEF Owed, OwedFrom
<1>15. ASSUME NEW r \in SkReporters, NEW c \in SkConns, MessageFor(r, c)
       PROVE  Owed(d)'
    <2> DEFINE w == UserOf(c)
               made == [skReport[r].made EXCEPT ![w] = ListOf(w, ~skReport[r].late)]
               x == [skReport[r] EXCEPT !.made = made]
    <2>1. Listens(d) /\ UNCHANGED <<skConn, skVersion>>
        BY <1>15 DEF MessageFor, Listens, Registered
    <2>2. skReport' = [skReport EXCEPT ![r] = x]
        BY <1>15 DEF MessageFor
    <2>3. skReport[r].made \in [SkUsers -> SkLists] /\ UserOf(d) \in SkUsers
        BY <1>0, <2>1 DEF Reports
    <2>4. \/ made[UserOf(d)] = skReport[r].made[UserOf(d)]
          \/ made[UserOf(d)].version = skVersion[UserOf(d)]
        BY <2>3 DEF ListOf
    <2> HIDE DEF made
    <2>5. x.todo = skReport[r].todo /\ x.made = made
        BY <1>0 DEF Reports
    <2> HIDE DEF x
    <2>6. skReport'[r] = x /\ \A q \in SkReporters \ {r} : skReport'[q] = skReport[q]
        BY <2>2 DEF SkInv
    <2>7. OwedFrom(skReport[r], d, UserOf(d), Last(d)) => OwedFrom(skReport'[r], d, UserOf(d), Last(d))
        BY <2>4, <2>5, <2>6 DEF OwedFrom, Last
    <2>8. Owed(d) /\ UserOf(d)' = UserOf(d) /\ Last(d)' = Last(d)
        BY <2>1 DEF NobodyForgotten, UserOf, Last
    <2> QED
        BY <2>1, <2>6, <2>7, <2>8 DEF Owed
<1>16. ASSUME NEW r \in SkReporters, NEW c \in SkConns, Fan(r, c)
       PROVE  Owed(d)'
    <2> DEFINE x == [skReport[r] EXCEPT !.todo = skReport[r].todo \ {c}]
               m == Sessions(UserOf(c), skReport[r].made[UserOf(c)])
    <2>1. skReport' = [skReport EXCEPT ![r] = x] /\ skVersion' = skVersion /\ c \in skReport[r].todo
          /\ skReport[r].made[UserOf(c)] # NoList
        BY <1>16 DEF Fan
    <2>2. x.todo = skReport[r].todo \ {c} /\ x.made = skReport[r].made
        BY <1>0 DEF Reports
    <2> HIDE DEF x
    <2>3. skReport'[r] = x /\ \A q \in SkReporters \ {r} : skReport'[q] = skReport[q]
        BY <2>1 DEF SkInv
    <2>4. SkNone \notin skReport[r].todo
        BY <1>0, <2>1 DEF ReportInv
    <2>5. \/ Listens(c) /\ Delivered(skConn, c, m)
          \/ ~Listens(c) /\ UNCHANGED <<skConn, skHub>>
        BY <1>16 DEF Fan
    <2>6. [skConn EXCEPT ![c] = skConn[c]] = skConn
        BY DEF SkInv
    <2>7. CASE d # c
        <3>1. skConn'[d] = skConn[d] /\ Listens(d)
            <4>1. CASE UNCHANGED <<skConn, skHub>>
                BY <4>1 DEF Listens, Registered
            <4>2. CASE Listens(c) /\ Delivered(skConn, c, m)
                <5> HIDE DEF m
                <5> QED
                    BY <2>6, <2>7, <4>2, DeliverySpares
            <4> QED
                BY <2>5, <4>1, <4>2
        <3>2. Owed(d) /\ UserOf(d)' = UserOf(d) /\ Last(d)' = Last(d)
            BY <2>1, <3>1 DEF NobodyForgotten, UserOf, Last
        <3>3. OwedFrom(skReport[r], d, UserOf(d), Last(d)) => OwedFrom(skReport'[r], d, UserOf(d), Last(d))
            BY <2>2, <2>3, <2>4, <2>7 DEF OwedFrom
        <3> QED
            BY <2>3, <3>1, <3>2, <3>3 DEF Owed
    <2>8. CASE d = c
        <3>1. Listens(c) /\ Delivered(skConn, c, m)
            BY <2>5, <2>8 DEF Listens, Registered
        <3>2. skConn[c].token \in SkTokens /\ UserOf(c) \in SkUsers /\ ConnInv(skConn[c], skVersion) /\ Owed(c)
            BY <1>0, <3>1 DEF Listens, Registered, NobodyForgotten
        <3>3. m \in SkMessages /\ m.sessions = skReport[r].made[UserOf(c)]
            BY <1>0, <2>1, <3>2 DEF Sessions, SkMessages, Reports
        <3> HIDE DEF m
        <3>4. OwedBy(skConn'[c], m.sessions.version) /\ skConn'[c].token = skConn[c].token
            BY <2>6, <3>1, <3>2, <3>3, DeliveryPays
        <3>5. OwedBy(skConn[c], Last(c)) => OwedBy(skConn'[c], Last(c))
            BY <2>6, <3>1, <3>2, <3>3, DeliveryPays
        <3>6. UserOf(c)' = UserOf(c) /\ Last(c)' = Last(c)
            BY <2>1, <3>4 DEF UserOf, Last
        <3>7. OwedFrom(skReport[r], c, UserOf(c), Last(c)) => OwedBy(skConn'[c], Last(c))
            BY <2>1, <2>4, <3>2, <3>3, <3>4, <1>0 DEF OwedFrom, Reports
        <3> QED
            BY <2>3, <2>8, <3>2, <3>5, <3>6, <3>7 DEF Owed
    <2> QED
        BY <2>7, <2>8
<1>17. ASSUME CloseSockets
       PROVE  Owed(d)'
    BY <1>17 DEF CloseSockets, Listens, Registered
<1>18. ASSUME NEW r \in SkReporters, BudgetEnds(r)
       PROVE  Owed(d)'
    <2> DEFINE x == [skReport[r] EXCEPT !.late = TRUE]
    <2>1. x.todo = skReport[r].todo /\ x.made = skReport[r].made
        BY <1>0 DEF Reports
    <2>2. Listens(d) /\ UNCHANGED <<skConn, skVersion>> /\ skReport' = [skReport EXCEPT ![r] = x]
        BY <1>18 DEF BudgetEnds, Listens, Registered
    <2> HIDE DEF x
    <2>3. skReport'[r] = x /\ \A q \in SkReporters \ {r} : skReport'[q] = skReport[q]
        BY <2>2 DEF SkInv
    <2>4. OwedFrom(skReport[r], d, UserOf(d), Last(d)) => OwedFrom(skReport'[r], d, UserOf(d), Last(d))
        BY <2>1, <2>3 DEF OwedFrom
    <2>5. Owed(d) /\ UserOf(d)' = UserOf(d) /\ Last(d)' = Last(d)
        BY <2>2 DEF NobodyForgotten, UserOf, Last
    <2> QED
        BY <2>2, <2>3, <2>4, <2>5 DEF Owed
<1> QED
    BY <1>1, <1>2, <1>3, <1>4, <1>5, <1>6, <1>7, <1>8, <1>9, <1>10, <1>11, <1>12, <1>13, <1>14, <1>15, <1>16, <1>17, <1>18 DEF SkNext

(* The newest list is also the last a subscriber gets, unless it was excused: while a report or its own snapshot is
   under way it expects a list, and what was made for it is the newest; otherwise the newest list follows every older
   one on its way to the client. *)

NewestList(c) == ListOf(UserOf(c), TRUE)
Follows(x, l, i) == \E j \in 1..Len(x.queue) : j > i /\ x.queue[j].sessions = l
EndsWith(x, l) ==
    /\ x.got = l \/ (x.sending # SkNone /\ x.sending.sessions = l) \/ Follows(x, l, 0)
    /\ x.sending # SkNone => x.sending.sessions \in {NoList, l} \/ Follows(x, l, 0)
    /\ \A i \in 1..Len(x.queue) : x.queue[i].sessions \in {NoList, l} \/ Follows(x, l, i)
Expects(c) ==
    \/ skConn[c].reader \in {"starting", "snapshot"}
    \/ \E r \in SkReporters : SkNone \in skReport[r].todo \/ c \in skReport[r].todo
MadeNewest(c) ==
    /\ skConn[c].reader = "snapshot" => skConn[c].snapshot = NewestList(c)
    /\ \A r \in SkReporters : c \in skReport[r].todo => skReport[r].made[UserOf(c)] \in {NoList, NewestList(c)}
NewestIsLast(c) == skConn[c].at = "open" /\ c \notin skExcused =>
    /\ MadeNewest(c)
    /\ Listens(c) /\ ~skConn[c].shut => Expects(c) \/ EndsWith(skConn[c], NewestList(c))
OnlyOpen == \A r \in SkReporters : \A c \in skReport[r].todo : c = SkNone \/ skConn[c].at = "open"
NewestLast == OnlyOpen /\ \A c \in SkConns : NewestIsLast(c)

(* A message at the end of the channel: the list itself, or none.          *)
LEMMA AppendEnds ==
    ASSUME NEW x \in Conns, NEW l, NEW m \in SkMessages,
           m.sessions = l \/ (m.sessions = NoList /\ EndsWith(x, l))
    PROVE  EndsWith([x EXCEPT !.queue = Append(x.queue, m)], l)
<1> DEFINE q == Append(x.queue, m)
           n == Len(x.queue)
           y == [x EXCEPT !.queue = q]
<1>1. /\ Len(q) = n + 1 /\ n \in Nat /\ q[n + 1] = m
      /\ \A i \in 1..n : q[i] = x.queue[i]
    BY AppendProperties, LenProperties DEF Conns
<1> HIDE DEF q, n
<1>2. y.queue = q /\ y.got = x.got /\ y.sending = x.sending
    BY DEF Conns
<1> HIDE DEF y
<1>3. ASSUME m.sessions = l
      PROVE  EndsWith(y, l)
    <2>1. \A i \in 0..n : Follows(y, l, i)
        BY <1>1, <1>2, <1>3 DEF Follows
    <2>2. \A i \in 1..Len(y.queue) : i \in 0..n \/ i = n + 1
        BY <1>1, <1>2
    <2>3. \A i \in 1..Len(y.queue) : y.queue[i].sessions = l \/ Follows(y, l, i)
        BY <1>1, <1>2, <1>3, <2>1, <2>2
    <2>4. Follows(y, l, 0)
        BY <1>1, <2>1
    <2> QED
        BY <2>3, <2>4 DEF EndsWith
<1>4. ASSUME m.sessions = NoList, EndsWith(x, l)
      PROVE  EndsWith(y, l)
    <2>1. \A i \in 0..n : Follows(x, l, i) => Follows(y, l, i)
        BY <1>1, <1>2 DEF Follows, n
    <2>2. \A i \in 1..Len(y.queue) : i \in 1..n \/ i = n + 1
        BY <1>1, <1>2
    <2>3. \A i \in 1..n : x.queue[i].sessions \in {NoList, l} \/ Follows(x, l, i)
        BY <1>4 DEF EndsWith, n
    <2>4. \A i \in 1..Len(y.queue) : y.queue[i].sessions \in {NoList, l} \/ Follows(y, l, i)
        BY <1>1, <1>2, <1>4, <2>1, <2>2, <2>3
    <2>5. Follows(x, l, 0) => Follows(y, l, 0)
        BY <1>1, <2>1
    <2> QED
        BY <1>2, <1>4, <2>4, <2>5 DEF EndsWith
<1> QED
    BY <1>3, <1>4 DEF y, q

(* The writer takes the first message, or drops one that holds no list.    *)
LEMMA TakeEnds ==
    ASSUME NEW x \in Conns, NEW l, EndsWith(x, l), x.queue # <<>>, x.sending = SkNone,
           NEW y \in {[x EXCEPT !.queue = Tail(x.queue)],
                      [x EXCEPT !.queue = Tail(x.queue), !.writer = "writing", !.sending = Head(x.queue)]},
           y.sending = SkNone => Head(x.queue).sessions = NoList
    PROVE  EndsWith(y, l) \/ l = NoList
<1> DEFINE t == Tail(x.queue)
           n == Len(x.queue)
           m == Head(x.queue)
<1>1. /\ Len(t) = n - 1 /\ n \in Nat /\ n > 0 /\ m = x.queue[1]
      /\ \A i \in 1..Len(t) : t[i] = x.queue[i + 1]
    BY HeadTailProperties, LenProperties, EmptySeq DEF Conns
<1> HIDE DEF t, n, m
<1>2. y.queue = t /\ y.got = x.got /\ y.sending \in {SkNone, m}
    BY DEF Conns, t, m
<1>3. m.sessions = NoList \/ (y.sending = m /\ m # SkNone)
    BY <1>2 DEF m
<1>4. \A i \in 1..Len(t) : i + 1 \in 1..n /\ (Follows(x, l, i + 1) => Follows(y, l, i))
    <2>1. ASSUME NEW i \in 1..Len(t), Follows(x, l, i + 1)
          PROVE  Follows(y, l, i)
        <3>1. PICK j \in 1..n : j > i + 1 /\ x.queue[j].sessions = l
            BY <2>1 DEF Follows, n
        <3>2. j - 1 \in 1..Len(t) /\ j - 1 > i /\ t[j - 1] = x.queue[j]
            BY <1>1, <3>1
        <3> QED
            BY <1>2, <3>1, <3>2 DEF Follows
    <2> QED
        BY <1>1, <2>1
<1>5. Follows(x, l, 0) => m.sessions = l \/ Follows(y, l, 0)
    <2>1. ASSUME Follows(x, l, 0), m.sessions # l
          PROVE  Follows(y, l, 0)
        <3>1. PICK j \in 1..n : x.queue[j].sessions = l
            BY <2>1 DEF Follows, n
        <3>2. j # 1 /\ j - 1 \in 1..Len(t) /\ t[j - 1] = x.queue[j]
            BY <1>1, <2>1, <3>1
        <3> QED
            BY <1>2, <3>1, <3>2 DEF Follows
    <2> QED
        BY <2>1
<1>6. m.sessions \in {NoList, l} \/ Follows(y, l, 0)
    <2>1. 1 \in 1..n /\ (Follows(x, l, 1) => Follows(x, l, 0))
        BY <1>1 DEF Follows
    <2>2. m.sessions \in {NoList, l} \/ Follows(x, l, 1)
        BY <1>1, <2>1 DEF EndsWith, n
    <2> QED
        BY <1>5, <2>1, <2>2
<1>7. \A i \in 1..Len(y.queue) : y.queue[i].sessions \in {NoList, l} \/ Follows(y, l, i)
    BY <1>1, <1>2, <1>4 DEF EndsWith, n
<1>8. x.got = l \/ Follows(x, l, 0)
    BY DEF EndsWith
<1> QED
    BY <1>2, <1>3, <1>5, <1>6, <1>7, <1>8 DEF EndsWith

(* The frame reaches the client.                                           *)
LEMMA WriteEnds ==
    ASSUME NEW x \in Conns, NEW y \in Conns, NEW l, EndsWith(x, l), x.sending # SkNone, y.sending = SkNone, y.queue = x.queue,
           y.got = IF x.sending.sessions = NoList THEN x.got ELSE x.sending.sessions
    PROVE  EndsWith(y, l) \/ l = NoList
<1>1. \A i : Follows(x, l, i) <=> Follows(y, l, i)
    BY DEF Follows
<1> QED
    BY <1>1 DEF EndsWith

(* A step that leaves a connection, its user's lists and its excuse alone. *)
LEMMA OthersStayNewest ==
    ASSUME NEW d \in SkConns, NewestIsLast(d), UNCHANGED <<skVersion, skReport>>, skConn'[d] = skConn[d],
           d \in skExcused => d \in skExcused', Listens(d)' => Listens(d)
    PROVE  NewestIsLast(d)'
BY DEF NewestIsLast, MadeNewest, NewestList, ListOf, UserOf, Expects

(* One connection closes, or goes on with the newest list still the last.  *)
LEMMA OneStaysNewest ==
    ASSUME NEW c \in SkConns, NewestIsLast(c), UNCHANGED <<skVersion, skReport, skExcused>>, Listens(c)' => Listens(c),
           NEW x, NEW y, x = skConn[c], y = skConn'[c], y.token = x.token, x.at = "open",
           y.reader = "snapshot" => x.reader = "snapshot" /\ y.snapshot = x.snapshot,
           \/ y.shut
           \/ ~x.shut /\ y.reader = x.reader /\ (EndsWith(x, NewestList(c)) => EndsWith(y, NewestList(c)))
           \/ c \notin skExcused /\ MadeNewest(c) => EndsWith(y, NewestList(c))
    PROVE  NewestIsLast(c)'
<1> SUFFICES ASSUME c \notin skExcused
             PROVE  MadeNewest(c)' /\ (Listens(c)' /\ ~y.shut => Expects(c)' \/ EndsWith(y, NewestList(c)'))
    BY DEF NewestIsLast
<1>1. MadeNewest(c) /\ (Listens(c) /\ ~x.shut => Expects(c) \/ EndsWith(x, NewestList(c)))
    BY DEF NewestIsLast
<1>2. UserOf(c)' = UserOf(c) /\ NewestList(c)' = NewestList(c)
    BY DEF UserOf, NewestList, ListOf
<1>3. MadeNewest(c)'
    BY <1>1, <1>2 DEF MadeNewest
<1>4. y.reader = x.reader => (Expects(c)' <=> Expects(c))
    BY DEF Expects
<1> QED
    BY <1>1, <1>2, <1>3, <1>4

(* What a delivery does to the connection it is for.                       *)
LEMMA DeliveryAppends ==
    ASSUME SkInv, NEW c \in SkConns, NEW x \in Conns, NEW m, Delivered([skConn EXCEPT ![c] = x], c, m)
    PROVE  \/ skConn'[c] = Shut(x)
           \/ ~x.shut /\ skConn'[c] = [x EXCEPT !.queue = Append(x.queue, m)]
           \/ x.shut /\ skConn'[c] = x
<1> DEFINE conns == [skConn EXCEPT ![c] = x]
<1>1. conns[c] = x /\ DOMAIN conns = SkConns /\ [x EXCEPT !.queue = x.queue] = x
    BY DEF SkInv, Conns
<1> QED
    BY <1>1 DEF Delivered

LEMMA NewestStep == SkInv /\ NewestLast /\ [SkNext]_skVars => NewestLast'
<1> SUFFICES ASSUME SkInv, NewestLast, [SkNext]_skVars
             PROVE  OnlyOpen' /\ \A d \in SkConns : NewestIsLast(d)'
    BY DEF NewestLast
<1>0. /\ \A c \in SkConns : skConn[c] \in Conns /\ ConnInv(skConn[c], skVersion) /\ NewestIsLast(c)
      /\ \A r \in SkReporters : skReport[r] \in Reports /\ ReportInv(skReport[r], skVersion)
      /\ \A c \in DOMAIN skHub : c \in SkConns /\ skConn[c].at = "open" /\ skConn[c].token \in SkTokens
      /\ \A c \in SkConns : skConn[c].at = "open" => UserOf(c) \in SkUsers /\ skVersion[UserOf(c)] \in Nat
      /\ OnlyOpen
    BY DEF SkInv, ConnInv, UserOf, NewestLast
<1>a. ASSUME UNCHANGED skReport, \A c \in SkConns : skConn[c].at = "open" => skConn'[c].at = "open"
      PROVE  OnlyOpen'
    BY <1>0, <1>a DEF OnlyOpen, Reports
<1>b. ASSUME NEW c \in SkConns, NEW y \in Conns, y.at = "open" \/ skConn[c].at # "open", UNCHANGED skReport,
             skConn' = [skConn EXCEPT ![c] = y]
      PROVE  /\ OnlyOpen' /\ skConn'[c] = y
             /\ \A d \in SkConns \ {c} : skConn'[d] = skConn[d]
    BY <1>a, <1>b DEF SkInv
<1>c. ASSUME UNCHANGED skHub \/ \E c \in SkConns : skHub' = LeavesOut(c) \/ skHub' = With(c, FALSE)
      PROVE  \A d \in SkConns : Listens(d)' => Listens(d)
    BY <1>c DEF Listens, Registered, LeavesOut, With
<1>d. \A c \in SkConns : NewestList(c) # NoList
    BY DEF NewestList, ListOf, NoList
<1>1. CASE UNCHANGED skVars
    BY <1>0, <1>1, <1>a, OthersStayNewest DEF skVars, Listens, Registered
<1>2. CASE \E t \in SkTokens : Revoke(t)
    BY <1>0, <1>2, <1>a, OthersStayNewest DEF Revoke, Listens, Registered
<1>3. ASSUME NEW c \in SkConns, NEW t \in SkTokens, NEW device \in SkDevices, Dial(c, t, device)
      PROVE  OnlyOpen' /\ \A d \in SkConns : NewestIsLast(d)'
    <2> DEFINE y == [Away EXCEPT !.at = "shaking", !.token = t, !.device = device]
    <2>0. <<>> \in Seq(SkMessages)
        OBVIOUS
    <2>1. y \in Conns /\ y.at = "shaking"
        BY <2>0 DEF Away, Conns, NoList, SkLists
    <2> HIDE DEF y
    <2>2. skConn' = [skConn EXCEPT ![c] = y] /\ skConn[c].at # "open" /\ UNCHANGED <<skVersion, skReport, skExcused, skHub>>
        BY <1>3 DEF Dial, y
    <2>3. OnlyOpen' /\ skConn'[c] = y /\ \A d \in SkConns \ {c} : skConn'[d] = skConn[d]
        BY <1>b, <2>1, <2>2
    <2>4. NewestIsLast(c)'
        BY <2>1, <2>3 DEF NewestIsLast
    <2> QED
        BY <1>0, <1>c, <2>2, <2>3, <2>4, OthersStayNewest
<1>4. ASSUME NEW c \in SkConns, RegisterConn(c)
      PROVE  OnlyOpen' /\ \A d \in SkConns : NewestIsLast(d)'
    <2> DEFINE q == <<KeepAlive(skConn[c].token)>>
               y == [skConn[c] EXCEPT !.at = "open", !.writer = "ready", !.reader = "ready", !.queue = q]
    <2>0. skConn[c].token \in SkTokens /\ SkUserOf[skConn[c].token] \in SkUsers
        BY <1>0, <1>4 DEF RegisterConn, ConnInv, Conns
    <2>1. KeepAlive(skConn[c].token) \in SkMessages
        BY <2>0 DEF KeepAlive, SkMessages, NoList, SkLists
    <2>2. q \in Seq(SkMessages)
        BY <2>1
    <2> HIDE DEF q
    <2>3. y \in Conns /\ y.at = "open" /\ y.reader = "ready"
        <3>1. skConn[c] \in Conns
            BY <1>0
        <3> QED
            BY <2>2, <3>1 DEF Conns
    <2>4. skConn' = [skConn EXCEPT ![c] = y] /\ skConn[c].at = "shaking" /\ UNCHANGED <<skVersion, skReport, skExcused>>
          /\ skHub' = With(c, FALSE)
        BY <1>4 DEF RegisterConn, q
    <2> HIDE DEF y
    <2>5. OnlyOpen' /\ skConn'[c] = y /\ \A d \in SkConns \ {c} : skConn'[d] = skConn[d]
        BY <1>b, <2>3, <2>4
    <2>6. \A r \in SkReporters : c \notin skReport[r].todo
        BY <1>0, <2>4 DEF OnlyOpen
    <2>7. ~Listens(c)'
        BY <2>4 DEF Listens, Registered, With
    <2>8. NewestIsLast(c)'
        BY <2>3, <2>4, <2>5, <2>6, <2>7 DEF NewestIsLast, MadeNewest
    <2> QED
        BY <1>0, <1>c, <2>4, <2>5, <2>8, OthersStayNewest
<1>5. ASSUME NEW c \in SkConns, TakeMessage(c)
      PROVE  OnlyOpen' /\ \A d \in SkConns : NewestIsLast(d)'
    <2> DEFINE x == skConn[c]
               m == Head(x.queue)
               rest == [x EXCEPT !.queue = Tail(x.queue)]
               sent == [x EXCEPT !.queue = Tail(x.queue), !.writer = "writing", !.sending = m]
               closed == [Shut(rest) EXCEPT !.writer = "gone"]
    <2>1. x \in Conns /\ ConnInv(x, skVersion) /\ x.queue # <<>> /\ x.sending = SkNone /\ ~x.shut /\ x.at = "open"
        BY <1>0, <1>5 DEF TakeMessage, ConnInv
    <2>2. MessageInv(m, x.token, skVersion) /\ m \in SkMessages /\ m # SkNone
        BY <2>1, TakenConn DEF MessageInv
    <2>3. /\ Tail(x.queue) \in Seq(SkMessages) /\ <<>> \in Seq(SkMessages)
        BY <2>1, HeadTailProperties DEF Conns
    <2> DEFINE Like(y) == y \in Conns /\ y.at = x.at /\ y.token = x.token /\ y.reader = x.reader /\ y.snapshot = x.snapshot
    <2>4. Like(rest) /\ Like(sent) /\ Like(closed) /\ sent.sending = m /\ closed.shut
        <3>1. Like(rest)
            BY <2>1, <2>3 DEF Conns
        <3>2. Like(sent) /\ sent.sending = m
            BY <2>1, <2>2, <2>3 DEF Conns
        <3>3. Like(closed) /\ closed.shut
            BY <2>1, <2>3 DEF Conns, Shut
        <3> QED
            BY <3>1, <3>2, <3>3
    <2>5. \/ skConn' = [skConn EXCEPT ![c] = closed]
          \/ m.sender # SkNone /\ skConn' = [skConn EXCEPT ![c] = rest]
          \/ skConn' = [skConn EXCEPT ![c] = sent]
        BY <1>5 DEF TakeMessage
    <2>6. EndsWith(x, NewestList(c)) /\ m.sender # SkNone => EndsWith(rest, NewestList(c))
        BY <1>d, <2>1, <2>2, TakeEnds DEF MessageInv
    <2>7. EndsWith(x, NewestList(c)) => EndsWith(sent, NewestList(c))
        BY <1>d, <2>1, <2>2, <2>4, TakeEnds
    <2>8. UNCHANGED <<skVersion, skReport, skExcused, skHub>>
        BY <1>5 DEF TakeMessage
    <2> HIDE DEF m, rest, sent, closed
    <2>9. PICK y \in {rest, sent, closed} :
              /\ skConn' = [skConn EXCEPT ![c] = y]
              /\ y.shut \/ (EndsWith(x, NewestList(c)) => EndsWith(y, NewestList(c)))
        BY <2>4, <2>5, <2>6, <2>7
    <2>10. OnlyOpen' /\ skConn'[c] = y /\ \A d \in SkConns \ {c} : skConn'[d] = skConn[d]
        BY <1>b, <2>1, <2>4, <2>8, <2>9 DEF x
    <2>11. NewestIsLast(c)'
        BY <1>0, <1>c, <2>1, <2>4, <2>8, <2>9, <2>10, OneStaysNewest DEF x
    <2> QED
        BY <1>0, <1>c, <2>8, <2>10, <2>11, OthersStayNewest
<1>6. ASSUME NEW c \in SkConns, FrameWritten(c)
      PROVE  OnlyOpen' /\ \A d \in SkConns : NewestIsLast(d)'
    <2> DEFINE x == skConn[c]
               newest == IF x.sending.sessions.version > x.told THEN x.sending.sessions.version ELSE x.told
               latest == IF x.sending.sessions = NoList THEN x.got ELSE x.sending.sessions
               y == [x EXCEPT !.writer = "ready", !.sending = SkNone, !.got = latest, !.told = newest]
               z == [Shut(x) EXCEPT !.writer = "gone", !.sending = SkNone]
    <2>1. x \in Conns /\ ConnInv(x, skVersion) /\ x.at = "open" /\ x.sending # SkNone
        BY <1>0, <1>6 DEF FrameWritten, ConnInv
    <2>2. x.sending.sessions \in SkLists /\ newest \in Nat /\ latest \in SkLists
        BY <2>1 DEF ConnInv, Conns, MessageInv, SkMessages, SkLists
    <2>3. skConn' = [skConn EXCEPT ![c] = y] \/ skConn' = [skConn EXCEPT ![c] = z]
        BY <1>6 DEF FrameWritten
    <2>4. UNCHANGED <<skVersion, skReport, skExcused, skHub>>
        BY <1>6 DEF FrameWritten
    <2>5. y.got = latest
        BY <2>1 DEF Conns
    <2> HIDE DEF newest, latest
    <2>6. /\ y \in Conns /\ y.sending = SkNone /\ y.queue = x.queue /\ y.shut = x.shut
          /\ y.at = x.at /\ y.token = x.token /\ y.reader = x.reader /\ y.snapshot = x.snapshot
        BY <2>1, <2>2 DEF Conns
    <2>7. <<>> \in Seq(SkMessages)
        OBVIOUS
    <2>8. z \in Conns /\ z.shut /\ z.at = x.at /\ z.token = x.token /\ z.reader = x.reader /\ z.snapshot = x.snapshot
        BY <2>1, <2>7 DEF Conns, Shut
    <2> HIDE DEF x, y, z
    <2>9. EndsWith(x, NewestList(c)) => EndsWith(y, NewestList(c))
        BY <1>d, <2>1, <2>5, <2>6, WriteEnds DEF latest
    <2>10. PICK w \in {y, z} : skConn' = [skConn EXCEPT ![c] = w]
        BY <2>3
    <2>11. OnlyOpen' /\ skConn'[c] = w /\ \A d \in SkConns \ {c} : skConn'[d] = skConn[d]
        BY <1>b, <2>1, <2>4, <2>6, <2>8, <2>10 DEF x
    <2>12. NewestIsLast(c)'
        BY <1>0, <1>c, <2>1, <2>4, <2>6, <2>8, <2>9, <2>10, <2>11, OneStaysNewest DEF x
    <2> QED
        BY <1>0, <1>c, <2>4, <2>11, <2>12, OthersStayNewest
<1>7. ASSUME NEW c \in SkConns, WriterTick(c) \/ ReaderEnds(c) \/ ReadRefused(c)
      PROVE  OnlyOpen' /\ \A d \in SkConns : NewestIsLast(d)'
    <2> DEFINE x == skConn[c]
               s == Shut(x)
    <2>0. <<>> \in Seq(SkMessages)
        OBVIOUS
    <2>1. x \in Conns /\ x.at = "open"
        BY <1>0, <1>7 DEF WriterTick, ReaderEnds, ReadRefused, ConnInv
    <2>2. s \in Conns /\ s.shut /\ s.at = "open" /\ s.token = x.token /\ s.reader = x.reader /\ s.snapshot = x.snapshot
        BY <2>0, <2>1 DEF Shut, Conns
    <2>3. \/ skConn' = [skConn EXCEPT ![c] = s]
          \/ skConn' = [skConn EXCEPT ![c] = [s EXCEPT !.writer = "gone"]]
          \/ skConn' = [skConn EXCEPT ![c] = [s EXCEPT !.reader = "gone"]]
        BY <1>7 DEF WriterTick, ReaderEnds, ReadRefused
    <2>4. UNCHANGED <<skVersion, skReport, skExcused>> /\ (UNCHANGED skHub \/ skHub' = LeavesOut(c))
        BY <1>7 DEF WriterTick, ReaderEnds, ReadRefused
    <2> HIDE DEF x, s
    <2>5. PICK y \in Conns : /\ skConn' = [skConn EXCEPT ![c] = y] /\ y.shut /\ y.at = "open" /\ y.token = x.token
                             /\ y.reader = "snapshot" => x.reader = "snapshot" /\ y.snapshot = x.snapshot
        <3> DEFINE Closed(y) == y \in Conns /\ y.shut /\ y.at = "open" /\ y.token = x.token
                                /\ (y.reader = "snapshot" => x.reader = "snapshot" /\ y.snapshot = x.snapshot)
        <3>1. Closed(s) /\ Closed([s EXCEPT !.writer = "gone"]) /\ Closed([s EXCEPT !.reader = "gone"])
            BY <2>2 DEF Conns
        <3> HIDE DEF Closed
        <3>2. \E y : skConn' = [skConn EXCEPT ![c] = y] /\ Closed(y)
            BY <2>3, <3>1
        <3> QED
            BY <3>2 DEF Closed
    <2>6. OnlyOpen' /\ skConn'[c] = y /\ \A d \in SkConns \ {c} : skConn'[d] = skConn[d]
        BY <1>b, <2>4, <2>5
    <2>7. NewestIsLast(c)'
        BY <1>0, <1>c, <2>1, <2>4, <2>5, <2>6, OneStaysNewest DEF x
    <2> QED
        BY <1>0, <1>c, <2>4, <2>6, <2>7, OthersStayNewest
<1>8. ASSUME NEW c \in SkConns, SessionsStart(c)
      PROVE  OnlyOpen' /\ \A d \in SkConns : NewestIsLast(d)'
    <2> DEFINE y == [skConn[c] EXCEPT !.reader = "starting"]
    <2>1. skConn' = [skConn EXCEPT ![c] = y] /\ UNCHANGED <<skVersion, skReport>> /\ skHub' = With(c, TRUE)
          /\ skExcused' = IF ReportsUnderWay THEN skExcused ELSE skExcused \ {c}
        BY <1>8 DEF SessionsStart
    <2>2. y \in Conns /\ y.reader = "starting" /\ y.at = "open" /\ y.token = skConn[c].token /\ skConn[c].at = "open"
        <3>1. skConn[c] \in Conns /\ skConn[c].at = "open"
            BY <1>0, <1>8 DEF SessionsStart, Says, ConnInv
        <3> QED
            BY <3>1 DEF Conns
    <2> HIDE DEF y
    <2>3. OnlyOpen' /\ skConn'[c] = y /\ \A d \in SkConns \ {c} : skConn'[d] = skConn[d]
        BY <1>b, <2>1, <2>2
    <2>4. \A d \in SkConns \ {c} : (Listens(d)' => Listens(d)) /\ (d \in skExcused => d \in skExcused')
        BY <2>1 DEF Listens, Registered, With
    <2>5. NewestIsLast(c)'
        <3>1. SUFFICES ASSUME c \notin skExcused'
                       PROVE  MadeNewest(c)' /\ Expects(c)'
            BY DEF NewestIsLast
        <3>2. Expects(c)'
            BY <2>2, <2>3 DEF Expects
        <3>3. CASE c \notin skExcused
            <4>1. MadeNewest(c) /\ UserOf(c)' = UserOf(c) /\ NewestList(c)' = NewestList(c)
                BY <1>0, <2>1, <2>2, <2>3, <3>3 DEF NewestIsLast, UserOf, NewestList, ListOf
            <4> QED
                BY <2>1, <2>2, <2>3, <3>2, <4>1 DEF MadeNewest
        <3>4. CASE c \in skExcused
            <4>1. \A r \in SkReporters : skReport[r].todo = {}
                BY <2>1, <3>1, <3>4 DEF ReportsUnderWay
            <4> QED
                BY <2>1, <2>2, <2>3, <3>2, <4>1 DEF MadeNewest
        <3> QED
            BY <3>3, <3>4
    <2> QED
        BY <1>0, <2>1, <2>3, <2>4, <2>5, OthersStayNewest
<1>9. ASSUME NEW c \in SkConns, NEW whole \in BOOLEAN, SessionsSnapshot(c, whole)
      PROVE  OnlyOpen' /\ \A d \in SkConns : NewestIsLast(d)'
    <2> DEFINE l == ListOf(UserOf(c), whole)
               y == [skConn[c] EXCEPT !.reader = "snapshot", !.snapshot = l]
    <2>1. skConn' = [skConn EXCEPT ![c] = y] /\ UNCHANGED <<skVersion, skReport, skHub>>
          /\ skExcused' = IF whole THEN skExcused ELSE skExcused \cup {c}
        BY <1>9 DEF SessionsSnapshot
    <2>2. skConn[c] \in Conns /\ skConn[c].at = "open"
        BY <1>0, <1>9 DEF SessionsSnapshot, ConnInv
    <2>3. l \in SkLists /\ (whole => l = NewestList(c))
        BY <1>0, <2>2 DEF ListOf, SkLists, NewestList
    <2> HIDE DEF l
    <2>4. y \in Conns /\ y.reader = "snapshot" /\ y.snapshot = l /\ y.at = "open" /\ y.token = skConn[c].token
        BY <2>2, <2>3 DEF Conns
    <2> HIDE DEF y
    <2>5. OnlyOpen' /\ skConn'[c] = y /\ \A d \in SkConns \ {c} : skConn'[d] = skConn[d]
        BY <1>b, <2>1, <2>4
    <2>6. NewestIsLast(c)'
        <3>1. SUFFICES ASSUME c \notin skExcused'
                       PROVE  MadeNewest(c)' /\ Expects(c)'
            BY DEF NewestIsLast
        <3>2. Expects(c)'
            BY <2>4, <2>5 DEF Expects
        <3>3. MadeNewest(c) /\ whole /\ UserOf(c)' = UserOf(c) /\ NewestList(c)' = NewestList(c)
            BY <1>0, <2>1, <2>2, <2>4, <2>5, <3>1 DEF NewestIsLast, UserOf, NewestList, ListOf
        <3> QED
            BY <2>1, <2>3, <2>4, <2>5, <3>2, <3>3 DEF MadeNewest
    <2>7. \A d \in SkConns : d \in skExcused => d \in skExcused'
        BY <2>1
    <2> QED
        BY <1>0, <1>c, <2>1, <2>5, <2>6, <2>7, OthersStayNewest
<1>10. ASSUME NEW c \in SkConns, PushSnapshot(c)
       PROVE  OnlyOpen' /\ \A d \in SkConns : NewestIsLast(d)'
    <2> DEFINE x == [skConn[c] EXCEPT !.reader = "ready"]
               m == Sessions(UserOf(c), skConn[c].snapshot)
    <2>0. UNCHANGED <<skVersion, skReport, skExcused>> /\ skConn[c].reader = "snapshot"
        BY <1>10 DEF PushSnapshot
    <2>1. skConn[c] \in Conns /\ skConn[c].at = "open" /\ skConn[c].token \in SkTokens
        BY <1>0, <2>0 DEF ConnInv
    <2>2. /\ x \in Conns /\ x.token = skConn[c].token /\ x.shut = skConn[c].shut
          /\ x.at = "open" /\ x.reader = "ready"
        BY <2>1 DEF Conns
    <2>3. m \in SkMessages /\ m.sessions = skConn[c].snapshot
        BY <1>0, <2>1 DEF Sessions, SkMessages, UserOf, Conns
    <2>4. \/ skConn' = [skConn EXCEPT ![c] = Shut(skConn[c])] /\ UNCHANGED skHub
          \/ ~Registered(c) /\ skConn' = [skConn EXCEPT ![c] = x] /\ UNCHANGED skHub
          \/ Delivered([skConn EXCEPT ![c] = x], c, m)
        BY <1>10 DEF PushSnapshot
    <2> HIDE DEF x, m
    <2>5. CASE skConn' = [skConn EXCEPT ![c] = Shut(skConn[c])] /\ UNCHANGED skHub
        <3> DEFINE y == Shut(skConn[c])
        <3>0. <<>> \in Seq(SkMessages)
            OBVIOUS
        <3>1. y \in Conns /\ y.shut /\ y.at = "open" /\ y.token = skConn[c].token /\ y.snapshot = skConn[c].snapshot
            BY <2>1, <3>0 DEF Shut, Conns
        <3> HIDE DEF y
        <3>2. OnlyOpen' /\ skConn'[c] = y /\ \A d \in SkConns \ {c} : skConn'[d] = skConn[d]
            BY <1>b, <2>0, <2>5, <3>1 DEF y
        <3>3. NewestIsLast(c)'
            BY <1>0, <1>c, <2>0, <2>1, <2>5, <3>1, <3>2, OneStaysNewest
        <3> QED
            BY <1>0, <1>c, <2>0, <2>5, <3>2, <3>3, OthersStayNewest
    <2>6. CASE ~Registered(c) /\ skConn' = [skConn EXCEPT ![c] = x] /\ UNCHANGED skHub
        <3>2. OnlyOpen' /\ skConn'[c] = x /\ \A d \in SkConns \ {c} : skConn'[d] = skConn[d]
            BY <1>b, <2>0, <2>2, <2>6
        <3>3. NewestIsLast(c)'
            <4>1. ~Listens(c)' /\ UserOf(c)' = UserOf(c) /\ NewestList(c)' = NewestList(c)
                BY <2>0, <2>2, <2>6, <3>2 DEF Listens, Registered, UserOf, NewestList, ListOf
            <4>2. c \notin skExcused => MadeNewest(c)
                BY <1>0, <2>1 DEF NewestIsLast
            <4> QED
                BY <2>0, <2>2, <3>2, <4>1, <4>2 DEF NewestIsLast, MadeNewest
        <3> QED
            BY <1>0, <1>c, <2>0, <2>6, <3>2, <3>3, OthersStayNewest
    <2>7. CASE Delivered([skConn EXCEPT ![c] = x], c, m)
        <3>1. (\A d \in SkConns \ {c} : skConn'[d] = skConn[d]) /\ (\A d \in SkConns : Listens(d)' => Listens(d))
            BY <2>7, DeliverySpares
        <3> DEFINE y == [x EXCEPT !.queue = Append(x.queue, m)]
                   s == Shut(x)
        <3>2. \/ skConn'[c] = s
              \/ ~x.shut /\ skConn'[c] = y
              \/ x.shut /\ skConn'[c] = x
            BY <2>2, <2>7, DeliveryAppends
        <3>3. s.at = "open" /\ s.shut /\ s.token = x.token /\ s.reader = "ready"
              /\ y.at = "open" /\ y.token = x.token /\ y.reader = "ready"
            BY <2>2 DEF Shut, Conns
        <3>4. m.sessions = NewestList(c) => EndsWith(y, NewestList(c))
            BY <2>2, <2>3, AppendEnds
        <3> HIDE DEF y, s
        <3>5. MadeNewest(c) => m.sessions = NewestList(c)
            BY <2>0, <2>3 DEF MadeNewest
        <3>6. /\ skConn'[c].at = "open" /\ skConn'[c].token = skConn[c].token /\ skConn'[c].reader = "ready"
              /\ skConn'[c].shut \/ (MadeNewest(c) => EndsWith(skConn'[c], NewestList(c)))
            BY <2>2, <3>2, <3>3, <3>4, <3>5
        <3>7. NewestIsLast(c)'
            BY <1>0, <2>0, <2>1, <3>1, <3>6, OneStaysNewest
        <3>8. OnlyOpen'
            BY <1>a, <2>0, <3>1, <3>6
        <3> QED
            BY <1>0, <2>0, <3>1, <3>7, <3>8, OthersStayNewest
    <2> QED
        BY <2>4, <2>5, <2>6, <2>7
<1>11. ASSUME NEW c \in SkConns, SessionsStop(c)
       PROVE  OnlyOpen' /\ \A d \in SkConns : NewestIsLast(d)'
    <2>1. UNCHANGED <<skConn, skVersion, skReport, skExcused>> /\ skHub' = With(c, FALSE)
        BY <1>11 DEF SessionsStop
    <2> QED
        BY <1>0, <1>a, <1>c, <2>1, OthersStayNewest
<1>12. ASSUME NEW c \in SkConns, NEW device \in SkDevices, ForwardCommand(c, device)
       PROVE  OnlyOpen' /\ \A d \in SkConns : NewestIsLast(d)'
    <2> DEFINE m == Command(skConn[c].token)
    <2>1. UNCHANGED <<skVersion, skReport, skExcused>> /\ skConn[c].reader = "ready"
        BY <1>12 DEF ForwardCommand, Says
    <2>2. PICK e \in DOMAIN skHub : Delivered(skConn, e, m)
        BY <1>12 DEF ForwardCommand, Receiver
    <2>3. /\ skConn[c].token \in SkTokens /\ e \in SkConns /\ skConn[e] \in Conns /\ skConn[e].at = "open"
          /\ [skConn EXCEPT ![e] = skConn[e]] = skConn
        BY <1>0, <2>1 DEF ConnInv, SkInv
    <2>4. m \in SkMessages /\ m.sessions = NoList
        BY <2>3 DEF Command, SkMessages, NoList, SkLists
    <2> DEFINE x == skConn[e]
               y == [x EXCEPT !.queue = Append(x.queue, m)]
               s == Shut(x)
    <2>5. EndsWith(x, NewestList(e)) => EndsWith(y, NewestList(e))
        BY <2>3, <2>4, AppendEnds
    <2> HIDE DEF m
    <2>6. (\A d \in SkConns \ {e} : skConn'[d] = skConn[d]) /\ (\A d \in SkConns : Listens(d)' => Listens(d))
        BY <2>2, <2>3, DeliverySpares
    <2>7. skConn'[e] = s \/ (~x.shut /\ skConn'[e] = y) \/ (x.shut /\ skConn'[e] = x)
        BY <2>2, <2>3, DeliveryAppends
    <2>8. /\ s.shut /\ \A z \in {s, y} : z.at = "open" /\ z.token = x.token /\ z.reader = x.reader /\ z.snapshot = x.snapshot
        BY <2>3 DEF Shut, Conns
    <2> HIDE DEF x, y, s
    <2>9. NewestIsLast(e)'
        BY <1>0, <2>1, <2>3, <2>5, <2>6, <2>7, <2>8, OneStaysNewest DEF x
    <2>10. skConn'[e].at = "open"
        BY <2>3, <2>7, <2>8 DEF x
    <2>11. OnlyOpen'
        BY <1>a, <2>1, <2>6, <2>10
    <2> QED
        BY <1>0, <2>1, <2>6, <2>9, <2>11, OthersStayNewest
<1>13. ASSUME NEW r \in SkReporters, NEW u \in SkUsers, Report(r, u)
       PROVE  OnlyOpen' /\ \A d \in SkConns : NewestIsLast(d)'
    <2>1. /\ UNCHANGED <<skConn, skHub>> /\ skVersion' = [skVersion EXCEPT ![u] = @ + 1]
          /\ skExcused' = (skExcused \ Newly(u)) \cup Overtakes(r, u)
        BY <1>13 DEF Report
    <2>2. skReport'[r].todo = {SkNone} /\ \A q \in SkReporters \ {r} : skReport'[q] = skReport[q]
        <3>1. [NoReport EXCEPT !.todo = {SkNone}].todo = {SkNone}
            BY DEF NoReport
        <3> QED
            BY <1>13, <3>1 DEF Report, SkInv
    <2>3. OnlyOpen'
        BY <1>0, <2>1, <2>2 DEF OnlyOpen
    <2>4. ASSUME NEW d \in SkConns, skConn[d].at = "open", d \notin skExcused'
          PROVE  MadeNewest(d)' /\ Expects(d)'
        <3>1. Expects(d)' /\ UserOf(d)' = UserOf(d)
            BY <2>1, <2>2 DEF Expects, UserOf
        <3>2. CASE UserOf(d) = u
            <4>1. (\A q \in SkReporters \ {r} : skReport[q].todo = {}) /\ skConn[d].reader # "snapshot"
                BY <2>1, <2>4, <3>2 DEF Overtakes
            <4> QED
                BY <2>1, <2>2, <3>1, <4>1 DEF MadeNewest
        <3>3. CASE UserOf(d) # u
            <4>1. MadeNewest(d)
                BY <1>0, <2>1, <2>4, <3>3 DEF Newly, NewestIsLast
            <4>2. NewestList(d)' = NewestList(d)
                BY <1>0, <2>1, <2>4, <3>1, <3>3 DEF NewestList, ListOf, SkInv
            <4> QED
                BY <2>1, <2>2, <3>1, <4>1, <4>2 DEF MadeNewest
        <3> QED
            BY <3>2, <3>3
    <2> QED
        BY <2>1, <2>3, <2>4 DEF NewestIsLast
<1>14. ASSUME NEW r \in SkReporters, Collect(r)
       PROVE  OnlyOpen' /\ \A d \in SkConns : NewestIsLast(d)'
    <2> DEFINE x == [skReport[r] EXCEPT !.todo = {c \in DOMAIN skHub : skHub[c]}]
    <2>1. UNCHANGED <<skConn, skVersion, skHub, skExcused>> /\ skReport[r].todo = {SkNone}
          /\ skReport' = [skReport EXCEPT ![r] = x]
        BY <1>14 DEF Collect
    <2>2. x.todo = {c \in DOMAIN skHub : skHub[c]} /\ x.made = skReport[r].made
        BY <1>0 DEF Reports
    <2> HIDE DEF x
    <2>3. skReport'[r] = x /\ \A q \in SkReporters \ {r} : skReport'[q] = skReport[q]
        BY <2>1 DEF SkInv
    <2>4. OnlyOpen'
        BY <1>0, <2>1, <2>2, <2>3 DEF OnlyOpen
    <2>5. ASSUME NEW d \in SkConns, skConn[d].at = "open", d \notin skExcused
          PROVE  MadeNewest(d)' /\ (Listens(d)' => Expects(d)')
        <3>1. UserOf(d)' = UserOf(d) /\ NewestList(d)' = NewestList(d) /\ UserOf(d) \in SkUsers
            BY <1>0, <2>1, <2>5 DEF UserOf, NewestList, ListOf
        <3>2. skReport'[r].made[UserOf(d)] = NoList
            BY <1>0, <2>1, <2>2, <2>3, <3>1 DEF ReportInv
        <3>3. Listens(d)' => Expects(d)'
            BY <2>1, <2>2, <2>3 DEF Listens, Registered, Expects
        <3>4. MadeNewest(d)
            BY <1>0, <2>5 DEF NewestIsLast
        <3> QED
            BY <2>1, <2>3, <3>1, <3>2, <3>3, <3>4 DEF MadeNewest
    <2> QED
        BY <2>1, <2>4, <2>5 DEF NewestIsLast
<1>15. ASSUME NEW r \in SkReporters, NEW c \in SkConns, MessageFor(r, c)
       PROVE  OnlyOpen' /\ \A d \in SkConns : NewestIsLast(d)'
    <2> DEFINE w == UserOf(c)
               l == ListOf(w, ~skReport[r].late)
               made == [skReport[r].made EXCEPT ![w] = l]
               x == [skReport[r] EXCEPT !.made = made]
    <2>1. /\ UNCHANGED <<skConn, skVersion, skHub>> /\ skReport' = [skReport EXCEPT ![r] = x]
          /\ skExcused' = IF skReport[r].late THEN skExcused \cup {d \in skReport[r].todo : UserOf(d) = w} ELSE skExcused
        BY <1>15 DEF MessageFor
    <2>2. skReport[r].made \in [SkUsers -> SkLists] /\ x.todo = skReport[r].todo /\ x.made = made
        BY <1>0 DEF Reports
    <2>3. /\ \A u \in SkUsers : u # w => made[u] = skReport[r].made[u]
          /\ w \in SkUsers => made[w] = l
          /\ ~skReport[r].late => l = ListOf(w, TRUE)
        BY <1>0, <2>2 DEF Reports
    <2> HIDE DEF x, made, l
    <2>4. skReport'[r] = x /\ \A q \in SkReporters \ {r} : skReport'[q] = skReport[q]
        BY <2>1 DEF SkInv
    <2>5. OnlyOpen'
        BY <1>0, <2>1, <2>2, <2>4 DEF OnlyOpen
    <2>6. ASSUME NEW d \in SkConns, skConn[d].at = "open", d \notin skExcused'
          PROVE  NewestIsLast(d)'
        <3>1. UserOf(d)' = UserOf(d) /\ NewestList(d)' = NewestList(d) /\ UserOf(d) \in SkUsers /\ d \notin skExcused
            BY <1>0, <2>1, <2>6 DEF UserOf, NewestList, ListOf
        <3>2. /\ MadeNewest(d)
              /\ Listens(d) /\ ~skConn[d].shut => Expects(d) \/ EndsWith(skConn[d], NewestList(d))
            BY <1>0, <2>6, <3>1 DEF NewestIsLast
        <3>3. d \in skReport[r].todo => made[UserOf(d)] \in {NoList, NewestList(d)}
            <4>1. CASE UserOf(d) = w
                BY <2>1, <2>3, <2>6, <3>1, <4>1 DEF NewestList
            <4>2. CASE UserOf(d) # w
                BY <2>3, <3>1, <3>2, <4>2 DEF MadeNewest
            <4> QED
                BY <4>1, <4>2
        <3>4. MadeNewest(d)'
            BY <2>1, <2>2, <2>4, <3>1, <3>2, <3>3 DEF MadeNewest
        <3>5. Expects(d) => Expects(d)'
            BY <2>1, <2>2, <2>4 DEF Expects
        <3>6. Listens(d)' <=> Listens(d)
            BY <2>1 DEF Listens, Registered
        <3> QED
            BY <2>1, <3>1, <3>2, <3>4, <3>5, <3>6 DEF NewestIsLast
    <2> QED
        BY <2>1, <2>5, <2>6 DEF NewestIsLast
<1>16. ASSUME NEW r \in SkReporters, NEW c \in SkConns, Fan(r, c)
       PROVE  OnlyOpen' /\ \A d \in SkConns : NewestIsLast(d)'
    <2> DEFINE x == [skReport[r] EXCEPT !.todo = skReport[r].todo \ {c}]
               m == Sessions(UserOf(c), skReport[r].made[UserOf(c)])
               y == [skConn[c] EXCEPT !.queue = Append(skConn[c].queue, m)]
               s == Shut(skConn[c])
    <2>1. skReport' = [skReport EXCEPT ![r] = x] /\ UNCHANGED <<skVersion, skExcused>> /\ c \in skReport[r].todo
          /\ skReport[r].made[UserOf(c)] # NoList
        BY <1>16 DEF Fan
    <2>2. x.todo = skReport[r].todo \ {c} /\ x.made = skReport[r].made
        BY <1>0 DEF Reports
    <2>3. skConn[c].at = "open" /\ UserOf(c) \in SkUsers /\ SkNone \notin skReport[r].todo /\ skConn[c] \in Conns
        BY <1>0, <2>1 DEF OnlyOpen, ReportInv
    <2>4. m \in SkMessages /\ m.sessions = skReport[r].made[UserOf(c)]
        BY <1>0, <2>3 DEF Sessions, SkMessages, Reports
    <2>5. m.sessions = NewestList(c) => EndsWith(y, NewestList(c))
        BY <2>3, <2>4, AppendEnds
    <2>6. /\ s.shut /\ \A z \in {s, y} : z.at = "open" /\ z.token = skConn[c].token
                                         /\ z.reader = skConn[c].reader /\ z.snapshot = skConn[c].snapshot
        BY <2>3 DEF Shut, Conns
    <2>7. [skConn EXCEPT ![c] = skConn[c]] = skConn
        BY DEF SkInv
    <2>8. \/ ~Listens(c) /\ UNCHANGED <<skConn, skHub>>
          \/ Delivered(skConn, c, m)
        BY <1>16 DEF Fan
    <2> HIDE DEF x, m, y, s
    <2>9. skReport'[r] = x /\ \A q \in SkReporters \ {r} : skReport'[q] = skReport[q]
        BY <2>1 DEF SkInv
    <2>10. (\A d \in SkConns \ {c} : skConn'[d] = skConn[d]) /\ (\A d \in SkConns : Listens(d)' => Listens(d))
        BY <2>7, <2>8, DeliverySpares DEF Listens, Registered
    <2>11. \/ skConn'[c] = skConn[c] /\ (~Listens(c) \/ skConn[c].shut)
           \/ skConn'[c] = s
           \/ skConn'[c] = y
        BY <2>3, <2>7, <2>8, DeliveryAppends DEF y, s
    <2>12. /\ skConn'[c].at = "open" /\ skConn'[c].token = skConn[c].token
           /\ skConn'[c].reader = skConn[c].reader /\ skConn'[c].snapshot = skConn[c].snapshot
        BY <2>3, <2>6, <2>11
    <2>13. OnlyOpen'
        <3>1. ASSUME NEW q \in SkReporters, NEW d \in skReport'[q].todo, d # SkNone
              PROVE  skConn'[d].at = "open"
            <4>1. d \in skReport[q].todo /\ d \in SkConns
                BY <1>0, <2>2, <2>9, <3>1 DEF Reports
            <4>2. skConn[d].at = "open"
                BY <1>0, <3>1, <4>1 DEF OnlyOpen
            <4> QED
                BY <2>10, <2>12, <4>1, <4>2
        <3> QED
            BY <3>1 DEF OnlyOpen
    <2>14. ASSUME NEW d \in SkConns, skConn'[d].at = "open", d \notin skExcused
           PROVE  NewestIsLast(d)'
        <3>1. UserOf(d)' = UserOf(d) /\ NewestList(d)' = NewestList(d) /\ skConn[d].at = "open"
            BY <2>1, <2>3, <2>10, <2>12, <2>14 DEF UserOf, NewestList, ListOf
        <3>2. /\ MadeNewest(d)
              /\ Listens(d) /\ ~skConn[d].shut => Expects(d) \/ EndsWith(skConn[d], NewestList(d))
            BY <1>0, <2>14, <3>1 DEF NewestIsLast
        <3>3. MadeNewest(d)'
            <4>1. /\ skConn'[d].reader = skConn[d].reader /\ skConn'[d].snapshot = skConn[d].snapshot
                BY <2>10, <2>12
            <4> QED
                BY <2>2, <2>9, <3>1, <3>2, <4>1 DEF MadeNewest
        <3>4. CASE d = c
            <4>1. m.sessions = NewestList(c)
                BY <2>1, <2>4, <3>2, <3>4 DEF MadeNewest
            <4>2. ~Listens(c)' \/ skConn'[c].shut \/ EndsWith(skConn'[c], NewestList(c))
                BY <2>5, <2>6, <2>10, <2>11, <4>1
            <4> QED
                BY <3>1, <3>3, <3>4, <4>2 DEF NewestIsLast
        <3>5. CASE d # c
            <4>1. Expects(d) => Expects(d)'
                BY <2>2, <2>3, <2>9, <2>10, <3>5 DEF Expects
            <4> QED
                BY <2>10, <3>1, <3>2, <3>3, <3>5, <4>1 DEF NewestIsLast
        <3> QED
            BY <3>4, <3>5
    <2> QED
        BY <2>1, <2>13, <2>14 DEF NewestIsLast
<1>17. CASE CloseSockets
    <2>1. UNCHANGED <<skVersion, skReport, skExcused>> /\ skHub' = <<>>
          /\ \A d \in SkConns : skConn'[d] = Shut(skConn[d]) \/ skConn'[d] = skConn[d]
        BY <1>17 DEF CloseSockets
    <2>2. \A d \in SkConns : Shut(skConn[d]).at = skConn[d].at /\ Shut(skConn[d]).token = skConn[d].token
                             /\ Shut(skConn[d]).reader = skConn[d].reader /\ Shut(skConn[d]).snapshot = skConn[d].snapshot
        BY <1>0 DEF Shut, Conns
    <2>3. ASSUME NEW d \in SkConns
          PROVE  /\ skConn'[d].at = skConn[d].at /\ skConn'[d].token = skConn[d].token
                 /\ skConn'[d].reader = skConn[d].reader /\ skConn'[d].snapshot = skConn[d].snapshot
        BY <2>1, <2>2
    <2>4. ASSUME NEW d \in SkConns
          PROVE  ~Listens(d)' /\ UserOf(d)' = UserOf(d) /\ NewestList(d)' = NewestList(d)
        <3>1. UserOf(d)' = UserOf(d) /\ NewestList(d)' = NewestList(d)
            BY <2>1, <2>3 DEF UserOf, NewestList, ListOf
        <3>2. DOMAIN skHub' = {}
            BY <2>1
        <3> QED
            BY <3>1, <3>2 DEF Listens, Registered
    <2>5. ASSUME NEW d \in SkConns
          PROVE  NewestIsLast(d)'
        BY <1>0, <2>1, <2>3, <2>4 DEF NewestIsLast, MadeNewest
    <2> QED
        BY <1>a, <2>1, <2>3, <2>5
<1>18. ASSUME NEW r \in SkReporters, BudgetEnds(r)
       PROVE  OnlyOpen' /\ \A d \in SkConns : NewestIsLast(d)'
    <2> DEFINE x == [skReport[r] EXCEPT !.late = TRUE]
    <2>1. x.todo = skReport[r].todo /\ x.made = skReport[r].made
        BY <1>0 DEF Reports
    <2>2. UNCHANGED <<skConn, skVersion, skHub, skExcused>> /\ skReport' = [skReport EXCEPT ![r] = x]
        BY <1>18 DEF BudgetEnds
    <2> HIDE DEF x
    <2>3. \A q \in SkReporters : skReport'[q].todo = skReport[q].todo /\ skReport'[q].made = skReport[q].made
        BY <2>1, <2>2 DEF SkInv
    <2>4. \A d \in SkConns : /\ UserOf(d)' = UserOf(d) /\ NewestList(d)' = NewestList(d)
                             /\ (Expects(d)' <=> Expects(d)) /\ (Listens(d)' <=> Listens(d))
        BY <2>2, <2>3 DEF UserOf, NewestList, ListOf, Expects, Listens, Registered
    <2>5. ASSUME NEW d \in SkConns
          PROVE  NewestIsLast(d)'
        BY <1>0, <2>2, <2>3, <2>4 DEF NewestIsLast, MadeNewest
    <2>6. OnlyOpen'
        BY <1>0, <2>2, <2>3 DEF OnlyOpen
    <2> QED
        BY <2>5, <2>6
<1> QED
    BY <1>1, <1>2, <1>3, <1>4, <1>5, <1>6, <1>7, <1>8, <1>9, <1>10, <1>11, <1>12, <1>13, <1>14, <1>15, <1>16, <1>17, <1>18 DEF SkNext

(* When nothing is under way a subscriber has been told of the newest report, and unless it was excused the last list
   it got is that one and whole, however subscriptions, reports, their five seconds and full channels interleave. *)
THEOREM NoReportIsMissed == SkSpec => []SubscribersMissNothing
<1>1. SkInit => NobodyForgotten /\ NewestLast
    BY DEF SkInit, NobodyForgotten, Listens, Registered, NewestLast, NewestIsLast, OnlyOpen, Away, NoReport
<1>2. SkInv /\ NobodyForgotten /\ NewestLast => SubscribersMissNothing
    <2> SUFFICES ASSUME SkInv, NobodyForgotten, NewestLast, NEW c \in SkConns, Settled(c)
                 PROVE  skConn[c].told = skVersion[UserOf(c)] /\ (c \notin skExcused => skConn[c].got = ListOf(UserOf(c), TRUE))
        BY DEF SubscribersMissNothing
    <2>1. skConn[c].sending = SkNone /\ Len(skConn[c].queue) = 0
        BY DEF SkInv, ConnInv, Settled
    <2>2. skConn[c].told = skVersion[UserOf(c)]
        BY <2>1 DEF NobodyForgotten, Settled, Owed, OwedBy, OwedFrom, Last
    <2>3. skConn[c].at = "open" /\ ~Expects(c) /\ ~Follows(skConn[c], NewestList(c), 0)
        BY <2>1 DEF Settled, Listens, Registered, SkInv, Expects, Follows
    <2>4. c \notin skExcused => EndsWith(skConn[c], NewestList(c))
        BY <2>3 DEF NewestLast, NewestIsLast, Settled
    <2> QED
        BY <2>1, <2>2, <2>3, <2>4 DEF EndsWith, NewestList
<1> QED
    BY <1>1, <1>2, SkAlways, OwedStep, NewestStep, PTL DEF SkSpec

HIDE SkAssumption

-----------------------------------------------------------------------------
(* Progress of readers and players.                                        *)


USE RpAssumption

Pages == [row : RpRows, timeline : {1, 2}, base : Generations,
          answer : {"read", "timeline", "revision", "mismatch", "conflict"}]
PlaySessions == [open : BOOLEAN, closed : BOOLEAN, listened : Nat, played : Nat, owed : Nat, lost : Nat]
PlayRequests == {Quiet} \cup [position : Nat, heard : BOOLEAN]

RpTyped ==
    /\ rpRow \in RpRows /\ rpRow.reset <= rpRow.revision
    /\ rpEdition \in [game : BOOLEAN, timeline : {1, 2}]
    /\ rpPage \in [RpPages -> Pages]
    /\ rpPlayed \in [Generations -> [RpSessions -> Nat]]
    /\ rpSession \in [RpPlayback -> PlaySessions]
    /\ rpHandler \in [RpPlayback -> [Requests -> PlayRequests]]

LEMMA NoProgressRow == NoProgress \in RpRows
    BY DEF NoProgress, RpRows, Generations

LEMMA WroteRow ==
    ASSUME RpTyped, Fresh, NEW fields, DOMAIN fields \subseteq {"position", "page", "finished"},
           "position" \in DOMAIN fields => fields["position"] \in Nat,
           "page" \in DOMAIN fields => fields["page"] \in RpPageNumbers,
           "finished" \in DOMAIN fields => fields["finished"] \in BOOLEAN
    PROVE  /\ Wrote(fields) \in RpRows
           /\ Wrote(fields).revision = rpRow.revision + 1
           /\ Wrote(fields).reset = rpRow.reset
           /\ ~Wrote(fields).deleted
<1>1. /\ DOMAIN rpRow = {"revision", "reset", "deleted", "position", "page", "finished"}
      /\ rpRow.revision \in Generations /\ rpRow.reset \in Generations /\ rpRow.deleted \in BOOLEAN
      /\ rpRow.position \in Nat /\ rpRow.page \in RpPageNumbers \cup {0} /\ rpRow.finished \in BOOLEAN
    BY DEF RpTyped, RpRows
<1>2. rpRow.revision + 1 \in Generations
    BY <1>1 DEF Generations, Fresh
<1>3. /\ IF "position" \in DOMAIN fields THEN fields["position"] \in Nat ELSE rpRow["position"] \in Nat
      /\ IF "page" \in DOMAIN fields THEN fields["page"] \in RpPageNumbers \cup {0} ELSE rpRow["page"] \in RpPageNumbers \cup {0}
      /\ IF "finished" \in DOMAIN fields THEN fields["finished"] \in BOOLEAN ELSE rpRow["finished"] \in BOOLEAN
    BY <1>1
<1> QED
    BY <1>1, <1>2, <1>3 DEF Wrote, RpRows

(* What the three kinds of request write. *)
LEMMA FieldsAreSound ==
    ASSUME NEW fields \in Fields
    PROVE  /\ DOMAIN fields \subseteq {"position", "page", "finished"}
           /\ "position" \in DOMAIN fields => fields["position"] \in Nat
           /\ "page" \in DOMAIN fields => fields["page"] \in RpPageNumbers
           /\ "finished" \in DOMAIN fields => fields["finished"] \in BOOLEAN
<1>1. CASE \E t \in RpPositions : fields = [position |-> t]
    BY <1>1 DEF RpAssumption
<1>2. CASE \E n \in RpPageNumbers : fields = [page |-> n]
    BY <1>2
<1>3. CASE fields = [finished |-> TRUE]
    BY <1>3
<1> QED
    BY <1>1, <1>2, <1>3 DEF Fields

LEMMA PositionIsSound ==
    ASSUME RpTyped, Fresh, NEW t \in Nat
    PROVE  /\ Wrote([position |-> t]) \in RpRows
           /\ Wrote([position |-> t]).revision = rpRow.revision + 1
           /\ Wrote([position |-> t]).reset = rpRow.reset
           /\ ~Wrote([position |-> t]).deleted
<1> DEFINE fields == [position |-> t]
<1>1. DOMAIN fields = {"position"} /\ fields["position"] = t
    OBVIOUS
<1> QED
    BY <1>1, WroteRow

(* What a sync or a close writes. *)
LEMMA CommitIsSound ==
    ASSUME RpTyped, NEW s \in RpPlayback, NEW kind \in Requests, SessionCommit(s, kind)
    PROVE  rpHandler[s][kind].position \in Nat /\ rpHandler[s][kind].heard \in BOOLEAN
<1>1. rpHandler[s][kind] \in PlayRequests /\ rpHandler[s][kind] # Quiet
    BY DEF SessionCommit, RpTyped
<1> QED
    BY <1>1 DEF PlayRequests

(* What a step does to the row: nothing, or a write or a reset under the next revision. *)
Wrought ==
    /\ rpRow' \in RpRows /\ rpRow'.revision = rpRow.revision + 1 /\ rpRow'.reset <= rpRow'.revision
    /\ rpRow'.deleted => rpRow'.position = 0 /\ rpRow'.page = 0 /\ ~rpRow'.finished /\ rpRow'.reset > 0

LEMMA StepsOfTheRow ==
    ASSUME RpTyped, RpNext
    PROVE  rpRow' = rpRow \/ Wrought
<1> /\ rpRow.revision \in Nat /\ rpRow.reset \in Nat /\ rpRow.reset <= rpRow.revision
    /\ Fresh => rpRow.revision + 1 \in Generations /\ rpRow.reset + 1 \in Generations
    BY DEF RpTyped, RpRows, Fresh, Generations, RpAssumption
<1>1. ASSUME NEW fields \in Fields, Put(fields) PROVE Wrought
    BY <1>1, FieldsAreSound, WroteRow DEF Put, Wrought
<1>2. ASSUME DeleteRow PROVE Wrought
    <2>1. Fresh /\ rpRow' = [revision |-> rpRow.revision + 1, reset |-> rpRow.reset + 1, deleted |-> TRUE,
                            position |-> 0, page |-> 0, finished |-> FALSE]
        BY <1>2 DEF DeleteRow, NoProgress
    <2>2. rpRow' \in RpRows
        BY <2>1 DEF RpRows
    <2> QED
        BY <2>1, <2>2 DEF Wrought
<1>3. ASSUME NEW s \in RpSessions, NEW t \in RpPositions, NEW epoch \in Generations, ReportPlaytime(s, epoch, t) PROVE Wrought
    <2>1. rpPlayed[epoch][s] \in Nat /\ t \in Nat /\ t > rpPlayed[epoch][s] /\ rpRow.position \in Nat
        BY <1>3 DEF ReportPlaytime, RpTyped, RpRows, RpAssumption
    <2>2. rpRow.position + t - rpPlayed[epoch][s] \in Nat
        BY <2>1
    <2> QED
        BY <1>3, <2>2, PositionIsSound DEF ReportPlaytime, Wrought
<1>4. ASSUME NEW s \in RpPlayback, NEW kind \in Requests, SessionCommit(s, kind) PROVE rpRow' = rpRow \/ Wrought
    <2> DEFINE fields == [position |-> rpHandler[s][kind].position, finished |-> rpHandler[s][kind].position >= RpEnd]
    <2>1. Put(fields) \/ rpRow' = rpRow
        BY <1>4 DEF SessionCommit
    <2>2. DOMAIN fields = {"position", "finished"} /\ fields["position"] \in Nat /\ fields["finished"] \in BOOLEAN
        BY <1>4, CommitIsSound
    <2> HIDE DEF fields
    <2> QED
        BY <2>1, <2>2, WroteRow DEF Put, Wrought
<1> QED
    BY <1>1, <1>2, <1>3, <1>4 DEF RpNext, NewTimeline, PlainWrite, ConditionalWrite, GetProgress, AnswerRefusal, Refused,
       SessionRequest, Play, CloseSession, GiveUp

-----------------------------------------------------------------------------
(* Who moves what.                                                         *)

PageStep(p) ==
    \/ GetProgress(p) \/ AnswerRefusal(p)
    \/ \E presents \in Presents : Refused(p, presents) \/ \E fields \in Fields : ConditionalWrite(p, fields, presents)
SessionStep(s) ==
    \/ Play(s) \/ CloseSession(s)
    \/ \E kind \in Requests : SessionCommit(s, kind) \/ GiveUp(s, kind) \/ \E t \in RpPositions : SessionRequest(s, t, kind)
OtherStep ==
    \/ DeleteRow \/ NewTimeline \/ \E fields \in Fields : PlainWrite(fields)
    \/ \E s \in RpSessions, t \in RpPositions, epoch \in Generations : ReportPlaytime(s, epoch, t)

LEMMA StepsAreOwned == RpNext <=> OtherStep \/ (\E p \in RpPages : PageStep(p)) \/ \E s \in RpPlayback : SessionStep(s)
    BY DEF RpNext, OtherStep, PageStep, SessionStep

LEMMA PageFrame ==
    ASSUME RpTyped, NEW p \in RpPages, PageStep(p)
    PROVE  /\ rpEdition' = rpEdition /\ rpPlayed' = rpPlayed /\ rpSession' = rpSession /\ rpHandler' = rpHandler
           /\ \A q \in RpPages : q # p => rpPage'[q] = rpPage[q]
<1>1. CASE GetProgress(p)
    BY <1>1 DEF GetProgress, RpTyped
<1>2. CASE AnswerRefusal(p)
    BY <1>2 DEF AnswerRefusal, RpTyped
<1>3. ASSUME NEW presents \in Presents, Refused(p, presents) PROVE UNCHANGED <<rpEdition, rpPlayed, rpSession, rpHandler>> /\
             \A q \in RpPages : q # p => rpPage'[q] = rpPage[q]
    BY <1>3 DEF Refused, RpTyped
<1>4. ASSUME NEW presents \in Presents, NEW fields \in Fields, ConditionalWrite(p, fields, presents)
      PROVE  UNCHANGED <<rpEdition, rpPlayed, rpSession, rpHandler>> /\ \A q \in RpPages : q # p => rpPage'[q] = rpPage[q]
    BY <1>4 DEF ConditionalWrite, RpTyped
<1> QED
    BY <1>1, <1>2, <1>3, <1>4 DEF PageStep

LEMMA SessionFrame ==
    ASSUME RpTyped, NEW s \in RpPlayback, SessionStep(s)
    PROVE  /\ rpEdition' = rpEdition /\ rpPlayed' = rpPlayed /\ rpPage' = rpPage
           /\ \A r \in RpPlayback : r # s => rpSession'[r] = rpSession[r] /\ rpHandler'[r] = rpHandler[r]
<1> DEFINE Frame == UNCHANGED <<rpEdition, rpPlayed, rpPage>> /\
                    \A r \in RpPlayback : r # s => rpSession'[r] = rpSession[r] /\ rpHandler'[r] = rpHandler[r]
<1>1. CASE Play(s)
    BY <1>1 DEF Play, RpTyped
<1>2. CASE CloseSession(s)
    BY <1>2 DEF CloseSession, RpTyped
<1>3. ASSUME NEW kind \in Requests, SessionCommit(s, kind) PROVE Frame
    BY <1>3 DEF SessionCommit, RpTyped
<1>4. ASSUME NEW kind \in Requests, NEW t \in RpPositions, SessionRequest(s, t, kind) PROVE Frame
    BY <1>4 DEF SessionRequest, RpTyped
<1>5. ASSUME NEW kind \in Requests, GiveUp(s, kind) PROVE Frame
    BY <1>5 DEF GiveUp, RpTyped
<1> QED
    BY <1>1, <1>2, <1>3, <1>4, <1>5 DEF SessionStep

LEMMA OtherFrame ==
    ASSUME RpTyped, OtherStep
    PROVE  rpPage' = rpPage /\ rpSession' = rpSession /\ rpHandler' = rpHandler /\ rpEdition'.timeline >= rpEdition.timeline
<1> DEFINE Frame == UNCHANGED <<rpPage, rpSession, rpHandler>>
<1> rpEdition.timeline >= rpEdition.timeline
    BY DEF RpTyped
<1>1. ASSUME NEW fields \in Fields, PlainWrite(fields) PROVE Frame /\ rpEdition' = rpEdition
    BY <1>1 DEF PlainWrite
<1>2. ASSUME NEW s \in RpSessions, NEW t \in RpPositions, NEW epoch \in Generations, ReportPlaytime(s, epoch, t)
      PROVE  Frame /\ rpEdition' = rpEdition
    BY <1>2 DEF ReportPlaytime
<1>3. CASE DeleteRow
    BY <1>3 DEF DeleteRow
<1>4. CASE NewTimeline
    BY <1>4 DEF NewTimeline, RpTyped
<1> QED
    BY <1>1, <1>2, <1>3, <1>4 DEF OtherStep

-----------------------------------------------------------------------------
(* Types.                                                                  *)

LEMMA TypedAtFirst == RpInit => RpTyped
<1> SUFFICES ASSUME RpInit PROVE RpTyped
    OBVIOUS
<1>1. 0 \in Generations /\ NoProgress.reset <= NoProgress.revision
    BY DEF Generations, RpAssumption, NoProgress
<1> QED
    BY <1>1, NoProgressRow DEF RpInit, RpTyped, Pages, PlaySessions, NoSession, PlayRequests

(* What a request takes from its client, and what it leaves behind. *)
LEMMA SendsSound ==
    ASSUME RpTyped, NEW s \in RpPlayback, NEW session \in Sends(rpSession[s])
    PROVE  /\ session \in PlaySessions
           /\ session.open = rpSession[s].open /\ session.closed = rpSession[s].closed
           /\ session.listened = rpSession[s].listened /\ session.lost = rpSession[s].lost
           /\ session.played - session.owed = rpSession[s].played - rpSession[s].owed + 1
<1> DEFINE old == rpSession[s]
<1>1. old \in PlaySessions
    BY DEF RpTyped
<1>2. CASE session = [old EXCEPT !.played = old.played + 1]
    BY <1>1, <1>2 DEF PlaySessions
<1>3. CASE session = [old EXCEPT !.owed = old.owed - 1] /\ session.owed >= 0
    BY <1>1, <1>3 DEF PlaySessions
<1> QED
    BY <1>2, <1>3 DEF Sends

LEMMA AdvancedSound ==
    ASSUME NEW session \in PlaySessions, NEW heard \in BOOLEAN, NEW kind
    PROVE  /\ Advanced(session, kind, heard) \in PlaySessions /\ RolledBack(session, heard) \in PlaySessions
           /\ Advanced(session, kind, heard).open = session.open /\ RolledBack(session, heard).open = session.open
           /\ Advanced(session, kind, heard).played = session.played /\ RolledBack(session, heard).played = session.played
           /\ Advanced(session, kind, heard).owed = session.owed
           /\ RolledBack(session, heard).owed = IF heard THEN session.owed + 1 ELSE session.owed
           /\ Advanced(session, kind, heard).listened = session.listened + 1
           /\ RolledBack(session, heard).listened = session.listened
           /\ Advanced(session, kind, heard).lost = IF heard THEN session.lost ELSE session.lost + 1
           /\ RolledBack(session, heard).lost = session.lost
           /\ RolledBack(session, heard).closed = session.closed
<1> DEFINE after == Advanced(session, kind, heard)
           back == RolledBack(session, heard)
<1>1. /\ (kind = "close") \in BOOLEAN
      /\ session.open \in BOOLEAN /\ session.closed \in BOOLEAN /\ session.listened \in Nat
      /\ session.played \in Nat /\ session.owed \in Nat /\ session.lost \in Nat
      /\ session.listened + 1 \in Nat /\ session.owed + 1 \in Nat /\ session.lost + 1 \in Nat
    BY DEF PlaySessions
<1>2. /\ after \in PlaySessions /\ after.open = session.open /\ after.played = session.played
      /\ after.owed = session.owed /\ after.listened = session.listened + 1
      /\ after.lost = IF heard THEN session.lost ELSE session.lost + 1
    BY <1>1 DEF Advanced, PlaySessions
<1>3. CASE heard
    <2>1. /\ back \in PlaySessions /\ back.open = session.open /\ back.closed = session.closed /\ back.played = session.played
          /\ back.owed = session.owed + 1 /\ back.listened = session.listened /\ back.lost = session.lost
        BY <1>1, <1>3 DEF RolledBack, PlaySessions
    <2> QED
        BY <1>2, <1>3, <2>1
<1>4. CASE ~heard
    <2>1. back = session
        BY <1>4 DEF RolledBack
    <2> QED
        BY <1>1, <1>2, <1>4, <2>1
<1> QED
    BY <1>3, <1>4

LEMMA TypedAfterwards == RpTyped /\ [RpNext]_rpVars => RpTyped'
<1> SUFFICES ASSUME RpTyped, [RpNext]_rpVars PROVE RpTyped'
    OBVIOUS
<1> rpRow.revision \in Generations /\ Generations \subseteq Nat
    BY DEF RpTyped, RpRows, Generations, RpAssumption
<1>1. CASE UNCHANGED rpVars
    BY <1>1 DEF rpVars, RpTyped
<1>2. ASSUME RpNext PROVE rpRow' \in RpRows /\ rpRow'.reset <= rpRow'.revision /\ rpRow'.revision \in Generations
    BY <1>2, StepsOfTheRow DEF Wrought, RpTyped, RpRows
<1>3. ASSUME NEW fields \in Fields, PlainWrite(fields), RpNext PROVE RpTyped'
    BY <1>2, <1>3 DEF PlainWrite, RpTyped
<1>4. CASE DeleteRow /\ RpNext
    BY <1>2, <1>4 DEF DeleteRow, RpTyped
<1>5. CASE NewTimeline
    BY <1>5 DEF NewTimeline, RpTyped
<1>6. ASSUME NEW p \in RpPages, GetProgress(p) PROVE RpTyped'
    BY <1>6 DEF GetProgress, RpTyped, Pages
<1>7. ASSUME NEW p \in RpPages, NEW fields \in Fields, NEW presents \in Presents, ConditionalWrite(p, fields, presents), RpNext
      PROVE  RpTyped'
    <2>1. CASE rpPage' = rpPage
        BY <1>2, <1>7, <2>1 DEF ConditionalWrite, RpTyped
    <2>2. CASE rpPage' = [rpPage EXCEPT ![p].row = rpRow', ![p].base = rpRow'.revision]
        <3>1. rpPage[p] \in Pages
            BY DEF RpTyped
        <3> DEFINE page == [rpPage[p] EXCEPT !.row = rpRow', !.base = rpRow'.revision]
        <3>2. page \in Pages
            BY <1>2, <1>7, <3>1 DEF Pages
        <3>3. rpPage' = [rpPage EXCEPT ![p] = page]
            BY <2>2
        <3> HIDE DEF page
        <3>4. rpPage' \in [RpPages -> Pages]
            BY <3>2, <3>3 DEF RpTyped
        <3> QED
            BY <1>2, <1>7, <3>4 DEF ConditionalWrite, RpTyped
    <2> QED
        BY <1>7, <2>1, <2>2 DEF ConditionalWrite
<1>8. ASSUME NEW p \in RpPages, NEW presents \in Presents, Refused(p, presents) PROVE RpTyped'
    BY <1>8 DEF Refused, RpTyped, Pages
<1>9. ASSUME NEW p \in RpPages, AnswerRefusal(p) PROVE RpTyped'
    <2> DEFINE page == IF rpPage[p].answer = "timeline" /\ rpPage[p].timeline # rpEdition.timeline
                       THEN [rpPage[p] EXCEPT !.answer = "mismatch", !.timeline = rpEdition.timeline]
                       ELSE [rpPage[p] EXCEPT !.answer = IF rpPage[p].answer = "timeline" THEN "revision" ELSE "conflict",
                                              !.row = rpRow]
    <2>0. rpPage' = [rpPage EXCEPT ![p] = page]
        BY <1>9 DEF AnswerRefusal
    <2>2. page \in Pages
        BY DEF RpTyped, Pages
    <2> HIDE DEF page
    <2>1. rpPage' \in [RpPages -> Pages]
        BY <2>0, <2>2 DEF RpTyped
    <2> QED
        BY <1>9, <2>1 DEF AnswerRefusal, RpTyped
<1>10. ASSUME NEW s \in RpSessions, NEW t \in RpPositions, NEW epoch \in Generations, ReportPlaytime(s, epoch, t), RpNext
       PROVE  RpTyped'
    <2>1. rpPlayed' \in [Generations -> [RpSessions -> Nat]]
        BY <1>10 DEF ReportPlaytime, RpTyped, RpAssumption
    <2> QED
        BY <1>2, <1>10, <2>1 DEF ReportPlaytime, RpTyped
<1>11. ASSUME NEW s \in RpPlayback, Play(s) PROVE RpTyped'
    BY <1>11 DEF Play, RpTyped, PlaySessions
<1>12. ASSUME NEW s \in RpPlayback, NEW t \in RpPositions, NEW kind \in Requests, SessionRequest(s, t, kind) PROVE RpTyped'
    <2>1. PICK session \in Sends(rpSession[s]) : rpSession' = [rpSession EXCEPT ![s] = session]
        BY <1>12 DEF SessionRequest
    <2>2. session \in PlaySessions
        BY SendsSound
    <2>3. rpSession' \in [RpPlayback -> PlaySessions]
        BY <2>1, <2>2 DEF RpTyped
    <2>4. [position |-> t, heard |-> TRUE] \in PlayRequests
        BY DEF PlayRequests, RpAssumption
    <2>5. rpHandler' \in [RpPlayback -> [Requests -> PlayRequests]]
        BY <1>12, <2>4 DEF SessionRequest, RpTyped
    <2> QED
        BY <1>12, <2>3, <2>5 DEF SessionRequest, RpTyped
<1>13. ASSUME NEW s \in RpPlayback, NEW kind \in Requests, SessionCommit(s, kind), RpNext PROVE RpTyped'
    <2>1. rpSession' \in [RpPlayback -> PlaySessions]
        <3> DEFINE heard == rpHandler[s][kind].heard
        <3>1. heard \in BOOLEAN /\ rpSession[s] \in PlaySessions
            BY <1>13, CommitIsSound DEF RpTyped
        <3>2. Advanced(rpSession[s], kind, heard) \in PlaySessions /\ RolledBack(rpSession[s], heard) \in PlaySessions
            BY <3>1, AdvancedSound
        <3>3. \/ rpSession' = rpSession
              \/ rpSession' = [rpSession EXCEPT ![s] = Advanced(rpSession[s], kind, heard)]
              \/ rpSession' = [rpSession EXCEPT ![s] = RolledBack(rpSession[s], heard)]
            BY <1>13 DEF SessionCommit
        <3> QED
            BY <3>2, <3>3 DEF RpTyped
    <2>2. rpHandler' \in [RpPlayback -> [Requests -> PlayRequests]]
        BY <1>13 DEF SessionCommit, RpTyped, PlayRequests
    <2> QED
        BY <1>2, <1>13, <2>1, <2>2 DEF SessionCommit, RpTyped
<1>14. ASSUME NEW s \in RpPlayback, CloseSession(s) PROVE RpTyped'
    <2>1. PICK session \in Sends(rpSession[s]) : rpSession' = [rpSession EXCEPT ![s] = Advanced(session, "close", TRUE)]
        BY <1>14 DEF CloseSession
    <2>2. Advanced(session, "close", TRUE) \in PlaySessions
        BY SendsSound, AdvancedSound
    <2>3. rpSession' \in [RpPlayback -> PlaySessions]
        BY <2>1, <2>2 DEF RpTyped
    <2> QED
        BY <1>14, <2>3 DEF CloseSession, RpTyped
<1>15. ASSUME NEW s \in RpPlayback, NEW kind \in Requests, GiveUp(s, kind) PROVE RpTyped'
    <2> DEFINE session == [rpSession[s] EXCEPT !.owed = rpSession[s].owed + 1]
               request == [rpHandler[s][kind] EXCEPT !.heard = FALSE]
    <2>1. rpSession' = [rpSession EXCEPT ![s] = session] /\ rpHandler' = [rpHandler EXCEPT ![s] = [rpHandler[s] EXCEPT ![kind] = request]]
        BY <1>15 DEF GiveUp, RpTyped
    <2>2. session \in PlaySessions
        BY DEF RpTyped, PlaySessions
    <2>3. request \in PlayRequests
        <3>1. rpHandler[s][kind] \in PlayRequests /\ rpHandler[s][kind] # Quiet
            BY <1>15 DEF GiveUp, RpTyped, Quiet
        <3> QED
            BY <3>1 DEF PlayRequests
    <2> HIDE DEF session, request
    <2>4. rpSession' \in [RpPlayback -> PlaySessions] /\ rpHandler' \in [RpPlayback -> [Requests -> PlayRequests]]
        BY <2>1, <2>2, <2>3 DEF RpTyped
    <2> QED
        BY <1>15, <2>4 DEF GiveUp, RpTyped
<1> QED
    BY <1>1, <1>3, <1>4, <1>5, <1>6, <1>7, <1>8, <1>9, <1>10, <1>11, <1>12, <1>13, <1>14, <1>15 DEF RpNext

(* Revisions, reset generations and everything else keep their types at any number of clients; the tombstone of a reset
   holds nothing of what was deleted (DeleteProgress). *)
THEOREM RpTypeCorrect == RpSpec => []RpTypeOK
<1> DEFINE Cleared == rpRow.deleted => rpRow.position = 0 /\ rpRow.page = 0 /\ ~rpRow.finished /\ rpRow.reset > 0
<1>1. RpInit => RpTyped /\ Cleared
    BY TypedAtFirst DEF RpInit, NoProgress
<1>2. RpTyped /\ Cleared /\ [RpNext]_rpVars => RpTyped' /\ Cleared'
    BY TypedAfterwards, StepsOfTheRow DEF Wrought, rpVars
<1>3. RpTyped /\ Cleared => RpTypeOK
    BY DEF RpTyped, RpTypeOK, Pages, PlaySessions
<1> QED
    BY <1>1, <1>2, <1>3, PTL DEF RpSpec

-----------------------------------------------------------------------------
(* What the clients were told.                                             *)

(* A client that is refused over the timeline read an older one, or is behind in revisions too; one that is refused over
   its revision is behind; and what it is answered is the row of that moment. *)
PageAgrees(p) ==
    LET page == rpPage[p] IN
    /\ page.row.revision <= rpRow.revision
    /\ page.row.revision = rpRow.revision => page.row = rpRow
    /\ page.timeline <= rpEdition.timeline
    /\ page.answer \in {"read", "timeline"} => page.base = page.row.revision
    /\ page.answer = "timeline" => page.timeline # rpEdition.timeline \/ rpRow.revision > page.base
    /\ page.answer = "revision" => rpRow.revision > page.base
    /\ page.answer = "conflict" => page.row.revision > page.base

PagesAgree == \A p \in RpPages : PageAgrees(p)

LEMMA OtherPages ==
    ASSUME RpTyped, RpTyped', PagesAgree, NEW p \in RpPages, rpPage'[p] = rpPage[p],
           rpRow' = rpRow \/ Wrought, rpEdition'.timeline >= rpEdition.timeline
    PROVE  PageAgrees(p)'
<1> DEFINE page == rpPage[p]
<1>1. /\ PageAgrees(p) /\ page = rpPage[p]' /\ page \in Pages
      /\ rpRow.revision \in Nat /\ page.row.revision \in Nat /\ page.base \in Nat
      /\ rpEdition.timeline \in {1, 2} /\ rpEdition'.timeline \in {1, 2} /\ page.timeline \in {1, 2}
    BY DEF RpTyped, PagesAgree, Pages, RpRows, Generations, RpAssumption
<1>2. rpRow' = rpRow \/ rpRow'.revision = rpRow.revision + 1
    BY DEF Wrought
<1> QED
    BY <1>1, <1>2 DEF PageAgrees

LEMMA PagesAgreeAfterwards == RpTyped /\ RpTyped' /\ PagesAgree /\ [RpNext]_rpVars => PagesAgree'
<1> SUFFICES ASSUME RpTyped, RpTyped', PagesAgree, [RpNext]_rpVars, NEW p \in RpPages PROVE PageAgrees(p)'
    BY DEF PagesAgree
<1> DEFINE page == rpPage[p]
<1>1. rpRow' = rpRow \/ Wrought
    BY StepsOfTheRow DEF rpVars
<1>2. rpEdition'.timeline >= rpEdition.timeline
    BY StepsAreOwned, OtherFrame, PageFrame, SessionFrame DEF rpVars, RpTyped
<1>3. /\ PageAgrees(p) /\ page \in Pages
      /\ rpRow.revision \in Nat /\ page.row.revision \in Nat /\ page.base \in Nat
      /\ rpEdition.timeline \in {1, 2} /\ rpEdition'.timeline \in {1, 2} /\ page.timeline \in {1, 2}
    BY DEF RpTyped, PagesAgree, Pages, RpRows, Generations, RpAssumption
<1>4. CASE rpPage'[p] = rpPage[p]
    BY <1>1, <1>2, <1>4, OtherPages
<1>5. CASE GetProgress(p)
    <2>1. rpPage'[p] = [row |-> rpRow, timeline |-> rpEdition.timeline, answer |-> "read", base |-> rpRow.revision]
        BY <1>5 DEF GetProgress, RpTyped
    <2> QED
        BY <1>3, <1>5, <2>1 DEF GetProgress, PageAgrees
<1>6. ASSUME NEW fields \in Fields, NEW presents \in Presents, ConditionalWrite(p, fields, presents), rpPage'[p] # rpPage[p]
      PROVE  PageAgrees(p)'
    <2>1. rpPage'[p] = [page EXCEPT !.row = rpRow', !.base = rpRow'.revision] /\ rpEdition' = rpEdition /\ page.answer = "read"
        BY <1>6 DEF ConditionalWrite, RpTyped
    <2>2. rpRow'.revision \in Nat
        BY DEF RpTyped, RpRows, Generations, RpAssumption
    <2> QED
        BY <1>3, <2>1, <2>2 DEF PageAgrees, Pages
<1>7. ASSUME NEW presents \in Presents, Refused(p, presents) PROVE PageAgrees(p)'
    <2>1. /\ rpPage'[p] = [page EXCEPT !.answer = IF "timeline" \in presents THEN "timeline" ELSE "revision"]
          /\ page.answer = "read" /\ ~Matches(p, presents) /\ rpRow' = rpRow /\ rpEdition' = rpEdition
        BY <1>7 DEF Refused, RpTyped
    <2>2. ("timeline" \in presents /\ page.timeline # rpEdition.timeline) \/ rpRow.revision > page.row.revision
        BY <1>3, <2>1 DEF Matches, PageAgrees
    <2> QED
        BY <1>3, <2>1, <2>2 DEF PageAgrees, Pages
<1>8. CASE AnswerRefusal(p)
    <2>1. rpRow' = rpRow /\ rpEdition' = rpEdition
        BY <1>8 DEF AnswerRefusal
    <2> DEFINE new == rpPage'[p]
    <2>2. new = IF page.answer = "timeline" /\ page.timeline # rpEdition.timeline
                THEN [page EXCEPT !.answer = "mismatch", !.timeline = rpEdition.timeline]
                ELSE [page EXCEPT !.answer = IF page.answer = "timeline" THEN "revision" ELSE "conflict", !.row = rpRow]
        BY <1>8 DEF AnswerRefusal, RpTyped
    <2>3. new.base = page.base /\ page.answer \in {"timeline", "revision"}
        BY <1>3, <1>8, <2>2 DEF Pages, AnswerRefusal
    <2> HIDE DEF new
    <2>4. CASE page.answer = "timeline" /\ page.timeline # rpEdition.timeline
        <3>1. new.answer = "mismatch" /\ new.timeline = rpEdition.timeline /\ new.row = page.row
            BY <1>3, <2>2, <2>4 DEF Pages
        <3> QED
            BY <1>3, <2>1, <3>1 DEF PageAgrees, new
    <2>5. CASE ~(page.answer = "timeline" /\ page.timeline # rpEdition.timeline)
        <3>1. new.answer = (IF page.answer = "timeline" THEN "revision" ELSE "conflict") /\ new.row = rpRow /\ new.timeline = page.timeline
            BY <1>3, <2>2, <2>5 DEF Pages
        <3>2. rpRow.revision > page.base
            BY <1>3, <2>3, <2>5 DEF PageAgrees
        <3> QED
            BY <1>3, <2>1, <2>3, <3>1, <3>2 DEF PageAgrees, new
    <2> QED
        BY <2>4, <2>5
<1>9. CASE RpNext
    BY <1>4, <1>5, <1>6, <1>7, <1>8, <1>9, StepsAreOwned, OtherFrame, PageFrame, SessionFrame DEF PageStep
<1> QED
    BY <1>4, <1>9 DEF rpVars

LEMMA PagesAgreeAlways == RpSpec => [](RpTyped /\ PagesAgree)
<1>1. RpInit => PagesAgree
    <2> SUFFICES ASSUME RpInit, NEW p \in RpPages PROVE PageAgrees(p)
        BY DEF PagesAgree
    <2>1. /\ rpPage[p] = [row |-> NoProgress, timeline |-> 1, answer |-> "read", base |-> 0]
          /\ rpRow = NoProgress /\ rpEdition.timeline = 1 /\ NoProgress.revision = 0
        BY DEF RpInit, NoProgress
    <2> QED
        BY <2>1 DEF PageAgrees
<1> QED
    BY <1>1, TypedAtFirst, TypedAfterwards, PagesAgreeAfterwards, PTL DEF RpSpec

(* A revision never names two rows, whatever resets, games, sessions and other clients write in between. *)
THEOREM RevisionsNameRows == RpSpec => []RevisionNamesRow
<1>1. PagesAgree => RevisionNamesRow
    BY DEF PagesAgree, PageAgrees, RevisionNamesRow
<1> QED
    BY <1>1, PagesAgreeAlways, PTL

(* A refusal is looked up after the statement failed, and still shows the client a row newer than the one it sent. *)
THEOREM RefusalsShowNewer == RpSpec => []ConflictsShowNewer
<1>1. PagesAgree => ConflictsShowNewer
    BY DEF PagesAgree, PageAgrees, ConflictsShowNewer
<1> QED
    BY <1>1, PagesAgreeAlways, PTL

-----------------------------------------------------------------------------
(* Playback sessions.                                                      *)

(* The requests between their checks and their transactions, and those of them whose client has given up. *)
Waits(request) == IF request = Quiet THEN 0 ELSE 1
GivenUp(request) == IF request = Quiet \/ request.heard THEN 0 ELSE 1
Pending(s) == Waits(rpHandler[s]["close"]) + Waits(rpHandler[s]["sync"])
Unheard(s) == GivenUp(rpHandler[s]["close"]) + GivenUp(rpHandler[s]["sync"])

(* Every second reported, in flight or to be reported again was played, or was counted for, or is on its way for, a client
   that gave up. *)
Balance(session, pending, unheard) == session.listened + pending + session.owed <= session.played + session.lost + unheard

SessionAgrees(s) ==
    /\ rpSession[s].closed => rpSession[s].open
    /\ \A kind \in Requests : rpHandler[s][kind] # Quiet => rpSession[s].open
    /\ Balance(rpSession[s], Pending(s), Unheard(s))

SessionsAgree == \A s \in RpPlayback : SessionAgrees(s)

(* One request changes: the counts move by what it moves. *)
LEMMA CountsMove ==
    ASSUME RpTyped, NEW s \in RpPlayback, NEW kind \in Requests, NEW request \in PlayRequests,
           rpHandler'[s] = [rpHandler[s] EXCEPT ![kind] = request]
    PROVE  /\ Pending(s) \in Nat /\ Unheard(s) \in Nat
           /\ Pending(s)' = Pending(s) - Waits(rpHandler[s][kind]) + Waits(request)
           /\ Unheard(s)' = Unheard(s) - GivenUp(rpHandler[s][kind]) + GivenUp(request)
           /\ \A k \in Requests : k # kind => rpHandler'[s][k] = rpHandler[s][k]
           /\ rpHandler'[s][kind] = request
<1>1. rpHandler[s] \in [Requests -> PlayRequests]
    BY DEF RpTyped
<1>2. \A x : Waits(x) \in {0, 1} /\ GivenUp(x) \in {0, 1}
    BY DEF Waits, GivenUp
<1>3. CASE kind = "close"
    <2>1. rpHandler'[s]["close"] = request /\ rpHandler'[s]["sync"] = rpHandler[s]["sync"]
        BY <1>1, <1>3 DEF Requests
    <2> QED
        BY <1>2, <1>3, <2>1 DEF Pending, Unheard, Requests
<1>4. CASE kind = "sync"
    <2>1. rpHandler'[s]["sync"] = request /\ rpHandler'[s]["close"] = rpHandler[s]["close"]
        BY <1>1, <1>4 DEF Requests
    <2> QED
        BY <1>2, <1>4, <2>1 DEF Pending, Unheard, Requests
<1> QED
    BY <1>3, <1>4 DEF Requests

LEMMA SessionsAgreeAfterwards == RpTyped /\ SessionsAgree /\ [RpNext]_rpVars => SessionsAgree'
<1> SUFFICES ASSUME RpTyped, SessionsAgree, [RpNext]_rpVars, NEW s \in RpPlayback PROVE SessionAgrees(s)'
    BY DEF SessionsAgree
<1> DEFINE old == rpSession[s]
           new == rpSession'[s]
<1>1. /\ SessionAgrees(s) /\ old \in PlaySessions /\ rpHandler[s] \in [Requests -> PlayRequests]
      /\ old.listened \in Nat /\ old.played \in Nat /\ old.owed \in Nat /\ old.lost \in Nat
    BY DEF RpTyped, SessionsAgree, PlaySessions
<1>2. CASE rpSession'[s] = rpSession[s] /\ rpHandler'[s] = rpHandler[s]
    BY <1>1, <1>2 DEF SessionAgrees, Pending, Unheard
<1>3. CASE Play(s)
    <2>1. rpSession'[s] = [rpSession[s] EXCEPT !.open = TRUE] /\ rpHandler'[s] = rpHandler[s]
        BY <1>3 DEF Play, RpTyped
    <2> QED
        BY <1>1, <2>1 DEF SessionAgrees, Pending, Unheard, PlaySessions, Balance
<1>4. ASSUME NEW t \in RpPositions, NEW kind \in Requests, SessionRequest(s, t, kind) PROVE SessionAgrees(s)'
    <2> DEFINE request == [position |-> t, heard |-> TRUE]
    <2>1. /\ rpHandler'[s] = [rpHandler[s] EXCEPT ![kind] = request] /\ new \in Sends(old)
          /\ old.open /\ rpHandler[s][kind] = Quiet
        BY <1>4 DEF SessionRequest, RpTyped
    <2>2. request \in PlayRequests /\ request # Quiet
        BY DEF PlayRequests, Quiet, RpAssumption
    <2>3. Waits(request) = 1 /\ GivenUp(request) = 0 /\ Waits(rpHandler[s][kind]) = 0 /\ GivenUp(rpHandler[s][kind]) = 0
        BY <2>1, <2>2 DEF Waits, GivenUp
    <2> HIDE DEF request
    <2>4. Pending(s) \in Nat /\ Unheard(s) \in Nat /\ Pending(s)' = Pending(s) + 1 /\ Unheard(s)' = Unheard(s)
        BY <2>1, <2>2, <2>3, CountsMove
    <2>5. /\ new.open = old.open /\ new.listened = old.listened /\ new.lost = old.lost
          /\ new.played - new.owed = old.played - old.owed + 1 /\ new.played \in Nat /\ new.owed \in Nat
        BY <2>1, SendsSound DEF PlaySessions
    <2> HIDE DEF old, new
    <2>6. Balance(old, Pending(s), Unheard(s)) => Balance(new, Pending(s)', Unheard(s)')
        BY <1>1, <2>4, <2>5 DEF Balance
    <2> QED
        BY <1>1, <2>1, <2>5, <2>6 DEF SessionAgrees, old, new
<1>5. ASSUME NEW kind \in Requests, SessionCommit(s, kind) PROVE SessionAgrees(s)'
    <2> DEFINE heard == rpHandler[s][kind].heard
    <2>1. rpHandler'[s] = [rpHandler[s] EXCEPT ![kind] = Quiet] /\ heard \in BOOLEAN /\ rpHandler[s][kind] # Quiet
        BY <1>5, CommitIsSound DEF SessionCommit, RpTyped
    <2>2. /\ Waits(rpHandler[s][kind]) = 1 /\ GivenUp(rpHandler[s][kind]) = (IF heard THEN 0 ELSE 1)
          /\ Waits(Quiet) = 0 /\ GivenUp(Quiet) = 0 /\ Quiet \in PlayRequests
        BY <2>1 DEF Waits, GivenUp, PlayRequests
    <2>3. /\ Pending(s) \in Nat /\ Unheard(s) \in Nat /\ Pending(s)' = Pending(s) - 1
          /\ Unheard(s)' = Unheard(s) - (IF heard THEN 0 ELSE 1)
        BY <2>1, <2>2, CountsMove
    <2>4. new = old \/ new = Advanced(old, kind, heard) \/ new = RolledBack(old, heard)
        BY <1>5 DEF SessionCommit, RpTyped
    <2>5. /\ new.open = old.open /\ new.played = old.played
          /\ \/ new.owed = old.owed /\ new.lost = old.lost /\ new.listened = old.listened
             \/ new.owed = old.owed /\ new.lost = old.lost + (IF heard THEN 0 ELSE 1) /\ new.listened = old.listened + 1
             \/ new.owed = old.owed + (IF heard THEN 1 ELSE 0) /\ new.lost = old.lost /\ new.listened = old.listened
        BY <1>1, <2>1, <2>4, AdvancedSound
    <2>6. old.open
        BY <1>1, <2>1 DEF SessionAgrees
    <2> HIDE DEF heard, old, new
    <2>7. Balance(old, Pending(s), Unheard(s)) => Balance(new, Pending(s)', Unheard(s)')
        BY <1>1, <2>1, <2>3, <2>5 DEF Balance
    <2> QED
        BY <1>1, <2>5, <2>6, <2>7 DEF SessionAgrees, old, new
<1>6. CASE CloseSession(s)
    <2>1. rpHandler'[s] = rpHandler[s] /\ old.open
        BY <1>6 DEF CloseSession
    <2>2. PICK session \in Sends(old) : new = Advanced(session, "close", TRUE)
        BY <1>6 DEF CloseSession, RpTyped
    <2>3. /\ new.open = old.open /\ new.listened = old.listened + 1 /\ new.lost = old.lost
          /\ new.played - new.owed = old.played - old.owed + 1 /\ new.played \in Nat /\ new.owed \in Nat
        <3>1. /\ session \in PlaySessions /\ session.open = old.open /\ session.listened = old.listened
              /\ session.lost = old.lost /\ session.played - session.owed = old.played - old.owed + 1
            BY <2>2, SendsSound
        <3> HIDE DEF old, new
        <3>2. session.lost \in Nat /\ session.listened \in Nat /\ session.played \in Nat /\ session.owed \in Nat
            BY <3>1 DEF PlaySessions
        <3>3. /\ new.open = session.open /\ new.listened = session.listened + 1 /\ new.lost = session.lost
              /\ new.played = session.played /\ new.owed = session.owed
            BY <2>2, <3>1 DEF Advanced, PlaySessions
        <3> QED
            BY <3>1, <3>2, <3>3
    <2>4. Pending(s)' = Pending(s) /\ Pending(s) \in Nat /\ Unheard(s)' = Unheard(s) /\ Unheard(s) \in Nat
        BY <2>1 DEF Pending, Unheard, Waits, GivenUp
    <2> HIDE DEF old, new
    <2>5. Balance(old, Pending(s), Unheard(s)) => Balance(new, Pending(s)', Unheard(s)')
        BY <1>1, <2>3, <2>4 DEF Balance
    <2> QED
        BY <1>1, <2>1, <2>3, <2>5 DEF SessionAgrees, old, new
<1>7. ASSUME NEW kind \in Requests, GiveUp(s, kind) PROVE SessionAgrees(s)'
    <2> DEFINE request == [rpHandler[s][kind] EXCEPT !.heard = FALSE]
    <2>1. /\ rpHandler'[s] = [rpHandler[s] EXCEPT ![kind] = request] /\ rpHandler[s][kind].heard
          /\ new = [old EXCEPT !.owed = old.owed + 1]
        BY <1>7 DEF GiveUp, RpTyped
    <2>2. rpHandler[s][kind] # Quiet
        BY <2>1 DEF Quiet
    <2>3. request \in [position : Nat, heard : BOOLEAN] /\ request # Quiet /\ ~request.heard
        <3>1. rpHandler[s][kind] \in [position : Nat, heard : BOOLEAN]
            BY <1>1, <2>2 DEF PlayRequests
        <3>2. request \in [position : Nat, heard : BOOLEAN] /\ ~request.heard /\ request.position \in Nat
            BY <3>1
        <3>3. Quiet.position \notin Nat
            BY DEF Quiet
        <3> HIDE DEF request
        <3> QED
            BY <3>2, <3>3
    <2>4. /\ Waits(rpHandler[s][kind]) = 1 /\ GivenUp(rpHandler[s][kind]) = 0 /\ Waits(request) = 1 /\ GivenUp(request) = 1
          /\ request \in PlayRequests
        BY <2>1, <2>2, <2>3 DEF Waits, GivenUp, PlayRequests
    <2> HIDE DEF request
    <2>5. Pending(s) \in Nat /\ Unheard(s) \in Nat /\ Pending(s)' = Pending(s) /\ Unheard(s)' = Unheard(s) + 1
        BY <2>1, <2>4, CountsMove
    <2>6. new.open = old.open /\ new.listened = old.listened /\ new.lost = old.lost /\ new.played = old.played
          /\ new.owed = old.owed + 1 /\ new.closed = old.closed
        BY <1>1, <2>1 DEF PlaySessions
    <2>7. old.open
        BY <1>1, <2>2 DEF SessionAgrees
    <2> HIDE DEF old, new
    <2>8. Balance(old, Pending(s), Unheard(s)) => Balance(new, Pending(s)', Unheard(s)')
        BY <1>1, <2>5, <2>6 DEF Balance
    <2> QED
        BY <1>1, <2>6, <2>7, <2>8 DEF SessionAgrees, old, new
<1>8. CASE RpNext
    BY <1>2, <1>3, <1>4, <1>5, <1>6, <1>7, <1>8, StepsAreOwned, OtherFrame, PageFrame, SessionFrame DEF SessionStep
<1> QED
    BY <1>2, <1>8 DEF rpVars

LEMMA SessionsAgreeAlways == RpSpec => [](RpTyped /\ SessionsAgree)
<1>1. RpInit => SessionsAgree
    <2> SUFFICES ASSUME RpInit, NEW s \in RpPlayback PROVE SessionAgrees(s)
        BY DEF SessionsAgree
    <2>1. /\ rpSession[s] = NoSession
          /\ \A kind \in Requests : rpHandler[s][kind] = Quiet
        BY DEF RpInit
    <2>2. Pending(s) = 0 /\ Unheard(s) = 0
        BY <2>1 DEF Pending, Unheard, Waits, GivenUp, Requests
    <2> QED
        BY <2>1, <2>2 DEF SessionAgrees, Balance, NoSession
<1> QED
    BY <1>1, TypedAtFirst, TypedAfterwards, SessionsAgreeAfterwards, PTL DEF RpSpec

(* The seconds of a playback session are counted twice only where the answer to a request that was counted was lost:
   every other repetition, of a request that failed or raced a close, adds nothing. *)
THEOREM SecondsCountOnce == RpSpec => []OnlyLostAnswersRepeat
<1>1. RpTyped /\ SessionsAgree => OnlyLostAnswersRepeat
    <2> SUFFICES ASSUME RpTyped, NEW s \in RpPlayback, SessionAgrees(s)
                 PROVE  rpSession[s].listened <= rpSession[s].played + rpSession[s].lost
        BY DEF SessionsAgree, OnlyLostAnswersRepeat
    <2>1. /\ rpSession[s].listened \in Nat /\ rpSession[s].played \in Nat /\ rpSession[s].owed \in Nat
          /\ rpSession[s].lost \in Nat
        BY DEF RpTyped, PlaySessions
    <2>2. Pending(s) \in Nat /\ Unheard(s) \in Nat /\ Unheard(s) <= Pending(s)
        BY DEF Pending, Unheard, Waits, GivenUp
    <2> QED
        BY <2>1, <2>2 DEF SessionAgrees, Balance
<1> QED
    BY <1>1, SessionsAgreeAlways, PTL

-----------------------------------------------------------------------------
(* No conditional write overwrites a row its client has not seen, none that names the timeline crosses a rescan, and a
   closed session moves neither itself nor the progress. *)
THEOREM NoUpdateIsLost == RpSpec => NoLostUpdate
<1> DEFINE Seen == rpRow' # rpRow => \A p \in RpPages, fields \in Fields, presents \in Presents :
                       ConditionalWrite(p, fields, presents) =>
                           rpPage[p].row = rpRow /\ ("timeline" \in presents => rpPage[p].timeline = rpEdition.timeline)
           Closed == \A s \in RpPlayback : rpSession[s].closed =>
                       /\ rpSession'[s].closed /\ rpSession'[s].listened = rpSession[s].listened
                       /\ \A kind \in Requests : SessionCommit(s, kind) => rpRow' = rpRow
<1>1. RpTyped /\ PagesAgree /\ [RpNext]_rpVars => Seen
    BY DEF ConditionalWrite, Matches, PagesAgree, PageAgrees
<1>2. RpTyped /\ SessionsAgree /\ [RpNext]_rpVars => Closed
    <2> SUFFICES ASSUME RpTyped, SessionsAgree, [RpNext]_rpVars, NEW s \in RpPlayback, rpSession[s].closed
                 PROVE  /\ rpSession'[s].closed /\ rpSession'[s].listened = rpSession[s].listened
                        /\ \A kind \in Requests : SessionCommit(s, kind) => rpRow' = rpRow
        OBVIOUS
    <2>1. rpSession[s].open /\ rpSession[s] \in PlaySessions
        BY DEF SessionsAgree, SessionAgrees, RpTyped
    <2>2. ASSUME NEW kind \in Requests, GiveUp(s, kind)
          PROVE  rpSession'[s].closed /\ rpSession'[s].listened = rpSession[s].listened
        BY <2>1, <2>2 DEF GiveUp, RpTyped, PlaySessions
    <2>3. ASSUME SessionStep(s) PROVE rpSession'[s].closed /\ rpSession'[s].listened = rpSession[s].listened
        BY <2>1, <2>2, <2>3 DEF SessionStep, Play, CloseSession, SessionCommit, SessionRequest
    <2>4. rpSession'[s].closed /\ rpSession'[s].listened = rpSession[s].listened
        BY <2>3, StepsAreOwned, OtherFrame, PageFrame, SessionFrame DEF rpVars
    <2> QED
        BY <2>4 DEF SessionCommit
<1>3. RpTyped /\ PagesAgree /\ SessionsAgree /\ [RpNext]_rpVars => [Seen /\ Closed]_rpVars
    BY <1>1, <1>2
<1> QED
    BY <1>3, PagesAgreeAlways, SessionsAgreeAlways, PTL DEF RpSpec, NoLostUpdate, Seen, Closed

-----------------------------------------------------------------------------
(* Playtime.                                                               *)

(* The total agrees with what was reported, and nothing was reported yet for a reset generation to come. *)
PlaytimeAgrees ==
    /\ rpAbsolute \in Int
    /\ PlaytimeCountsOnce
    /\ \A g \in Generations : g > rpRow.reset => \A s \in RpSessions : rpPlayed[g][s] = 0

LEMMA ReportedType ==
    ASSUME RpTyped, NEW g \in Generations
    PROVE  Reported(g) \in Int
<1>1. \A s \in RpSessions : rpPlayed[g][s] \in Int
    BY DEF RpTyped
<1>2. IsFiniteSet(RpSessions)
    BY RpAssumption
<1> QED
    BY <1>1, <1>2, SumType DEF Reported

(* What a conditional, a plain or a session's write does to the total. *)
LEMMA PutPlaytime ==
    ASSUME RpTyped, PlaytimeAgrees, NEW fields, Put(fields),
           "position" \in DOMAIN fields => fields["position"] \in Nat,
           rpPlayed' = rpPlayed, rpEdition' = rpEdition
    PROVE  PlaytimeAgrees'
<1>1. rpRow.reset \in Generations /\ rpRow.position \in Nat /\ rpEdition.game \in BOOLEAN
    BY DEF RpTyped, RpRows
<1>2. /\ rpRow'.reset = rpRow.reset
      /\ rpRow'.position = IF "position" \in DOMAIN fields THEN fields["position"] ELSE rpRow.position
    BY DEF Put, Wrote
<1>3. rpRow'.position \in Nat
    BY <1>1, <1>2
<1>4. Reported(rpRow.reset) \in Int /\ \A g : Reported(g)' = Reported(g)
    BY <1>1, ReportedType DEF Reported
<1>5. rpAbsolute' = IF "position" \in DOMAIN fields
                    THEN rpRow'.position - (IF rpEdition.game THEN Reported(rpRow.reset) ELSE 0)
                    ELSE rpAbsolute
    BY <1>2 DEF Put, Absolute
<1>6. rpAbsolute' \in Int
    BY <1>3, <1>4, <1>5 DEF PlaytimeAgrees
<1>7. rpEdition.game => rpRow'.position = rpAbsolute' + Reported(rpRow.reset)
    BY <1>2, <1>3, <1>4, <1>5, <1>6 DEF PlaytimeAgrees, PlaytimeCountsOnce
<1>8. PlaytimeCountsOnce'
    BY <1>2, <1>4, <1>7 DEF PlaytimeCountsOnce
<1> QED
    BY <1>2, <1>6, <1>8 DEF PlaytimeAgrees

(* A report moves the total by what it adds to its session. *)
LEMMA ReportPlaytimeAgrees ==
    ASSUME RpTyped, PlaytimeAgrees,
           NEW s \in RpSessions, NEW t \in RpPositions, NEW epoch \in Generations, ReportPlaytime(s, epoch, t)
    PROVE  PlaytimeAgrees'
<1>1. /\ rpRow.reset = epoch /\ rpAbsolute' = rpAbsolute /\ rpEdition' = rpEdition /\ rpEdition.game
      /\ rpPlayed' = [rpPlayed EXCEPT ![epoch][s] = t]
      /\ rpRow'.reset = rpRow.reset
      /\ rpRow'.position = rpRow.position + t - rpPlayed[epoch][s]
    BY DEF ReportPlaytime, Wrote
<1>2. rpRow.position \in Nat /\ t \in Nat /\ rpPlayed \in [Generations -> [RpSessions -> Nat]]
    BY DEF RpTyped, RpRows, RpAssumption
<1>3. /\ \A r \in RpSessions : rpPlayed[epoch][r] \in Nat /\ rpPlayed'[epoch][r] \in Int
      /\ \A r \in RpSessions \ {s} : rpPlayed'[epoch][r] = rpPlayed[epoch][r]
      /\ rpPlayed'[epoch][s] = t
      /\ \A g \in Generations \ {epoch} : rpPlayed'[g] = rpPlayed[g]
    BY <1>1, <1>2
<1>4. SumFunctionOnSet(rpPlayed'[epoch], RpSessions) =
         SumFunctionOnSet(rpPlayed[epoch], RpSessions) + t - rpPlayed[epoch][s]
    BY <1>3, SumChange DEF RpAssumption
<1>5. Reported(epoch) \in Int /\ Reported(epoch)' = Reported(epoch) + t - rpPlayed[epoch][s]
    BY <1>4, ReportedType DEF Reported
<1>6. PlaytimeCountsOnce'
    <2>1. rpRow.position = rpAbsolute + Reported(epoch)
        BY <1>1 DEF PlaytimeAgrees, PlaytimeCountsOnce
    <2>2. rpRow'.position = rpAbsolute' + Reported(epoch)'
        BY <1>1, <1>2, <1>3, <1>5, <2>1 DEF PlaytimeAgrees
    <2>3. Reported(rpRow.reset)' = Reported(epoch)'
        BY <1>1
    <2> QED
        BY <2>2, <2>3 DEF PlaytimeCountsOnce
<1>7. ASSUME NEW g \in Generations, g > rpRow'.reset PROVE \A r \in RpSessions : rpPlayed'[g][r] = 0
    BY <1>1, <1>3, <1>7 DEF PlaytimeAgrees, Generations
<1> QED
    BY <1>1, <1>6, <1>7 DEF PlaytimeAgrees

(* A reset begins a generation nothing was reported for. *)
LEMMA DeletePlaytime ==
    ASSUME RpTyped, PlaytimeAgrees, DeleteRow
    PROVE  PlaytimeAgrees'
<1>1. /\ rpRow'.reset = rpRow.reset + 1 /\ rpRow'.position = 0 /\ rpAbsolute' = 0
      /\ rpPlayed' = rpPlayed /\ rpEdition' = rpEdition /\ Fresh
    BY DEF DeleteRow, NoProgress
<1>2. rpRow.reset + 1 \in Generations /\ rpRow.reset \in Nat /\ rpRow.reset + 1 > rpRow.reset
    BY <1>1 DEF RpTyped, RpRows, Generations, Fresh, RpAssumption
<1>3. \A s \in RpSessions : rpPlayed[rpRow.reset + 1][s] = 0
    BY <1>2 DEF PlaytimeAgrees
<1>4. SumFunctionOnSet(rpPlayed[rpRow.reset + 1], RpSessions) = 0
    BY <1>3, SumZero DEF RpAssumption
<1>5. Reported(rpRow.reset)' = 0
    BY <1>1, <1>4 DEF Reported
<1>6. PlaytimeCountsOnce'
    BY <1>1, <1>5 DEF PlaytimeCountsOnce
<1>7. \A g \in Generations : g > rpRow'.reset => g > rpRow.reset
    BY <1>1, <1>2 DEF Generations
<1> QED
    BY <1>1, <1>6, <1>7 DEF PlaytimeAgrees

LEMMA PlaytimeAgreesAfterwards == RpTyped /\ PlaytimeAgrees /\ [RpNext]_rpVars => PlaytimeAgrees'
<1> SUFFICES ASSUME RpTyped, PlaytimeAgrees, [RpNext]_rpVars PROVE PlaytimeAgrees'
    OBVIOUS
<1>1. ASSUME NEW fields \in Fields, Put(fields), rpPlayed' = rpPlayed, rpEdition' = rpEdition PROVE PlaytimeAgrees'
    BY <1>1, FieldsAreSound, PutPlaytime
<1>2. CASE UNCHANGED <<rpRow, rpPlayed, rpAbsolute>> /\ rpEdition'.game = rpEdition.game
    BY <1>2 DEF PlaytimeAgrees, PlaytimeCountsOnce, Reported
<1>3. ASSUME NewTimeline PROVE PlaytimeAgrees'
    <2>1. rpEdition'.game = rpEdition.game
        BY <1>3 DEF NewTimeline, RpTyped
    <2> QED
        BY <1>2, <1>3, <2>1 DEF NewTimeline
<1>4. ASSUME NEW s \in RpPlayback, NEW kind \in Requests, SessionCommit(s, kind) PROVE PlaytimeAgrees'
    <2> DEFINE fields == [position |-> rpHandler[s][kind].position, finished |-> rpHandler[s][kind].position >= RpEnd]
    <2>1. UNCHANGED <<rpEdition, rpPlayed>> /\ fields["position"] \in Nat
        BY <1>4, CommitIsSound DEF SessionCommit
    <2>2. Put(fields) \/ UNCHANGED <<rpRow, rpAbsolute>>
        BY <1>4 DEF SessionCommit
    <2> HIDE DEF fields
    <2> QED
        BY <1>2, <2>1, <2>2, PutPlaytime
<1>5. ASSUME NEW fields \in Fields, PlainWrite(fields) PROVE PlaytimeAgrees'
    BY <1>1, <1>5 DEF PlainWrite
<1>6. ASSUME NEW p \in RpPages, NEW fields \in Fields, NEW presents \in Presents, ConditionalWrite(p, fields, presents)
      PROVE  PlaytimeAgrees'
    BY <1>1, <1>6 DEF ConditionalWrite
<1>7. CASE UNCHANGED rpVars
    BY <1>2, <1>7 DEF rpVars
<1> QED
    BY <1>2, <1>3, <1>4, <1>5, <1>6, <1>7, DeletePlaytime, ReportPlaytimeAgrees
    DEF RpNext, GetProgress, AnswerRefusal, Refused, SessionRequest, Play, CloseSession, GiveUp

(* What clients were told of the row, and the seconds counted in it, agree with it: the total of a game is what its
   sessions reported since it was last set or reset, each report counted once, and a playback session exceeds what was
   played only by what was counted for lost answers. *)
THEOREM ProgressAlwaysAgrees == RpSpec => []ProgressAgrees
<1>1. RpInit => PlaytimeAgrees
    <2> SUFFICES ASSUME RpInit PROVE PlaytimeAgrees
        OBVIOUS
    <2>1. rpRow.reset = 0 /\ rpRow.position = 0 /\ rpAbsolute = 0 /\ 0 \in Generations
        BY DEF RpInit, NoProgress, Generations, RpAssumption
    <2>2. \A g \in Generations, s \in RpSessions : rpPlayed[g][s] = 0
        BY DEF RpInit
    <2>3. Reported(0) = 0
        BY <2>1, <2>2, SumZero DEF Reported, RpAssumption
    <2> QED
        BY <2>1, <2>2, <2>3 DEF PlaytimeAgrees, PlaytimeCountsOnce
<1>2. RpSpec => []PlaytimeAgrees
    BY <1>1, TypedAtFirst, TypedAfterwards, PlaytimeAgreesAfterwards, PTL DEF RpSpec
<1>3. PlaytimeAgrees => PlaytimeCountsOnce
    BY DEF PlaytimeAgrees
<1>4. RevisionNamesRow /\ ConflictsShowNewer /\ PlaytimeCountsOnce /\ OnlyLostAnswersRepeat => ProgressAgrees
    BY DEF ProgressAgrees
<1> QED
    BY <1>2, <1>3, <1>4, RevisionsNameRows, RefusalsShowNewer, SecondsCountOnce, PTL

================================================================================
