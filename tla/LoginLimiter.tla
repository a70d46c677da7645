---------------------------- MODULE LoginLimiter ----------------------------
(***************************************************************************)
(* The limiter that every login shares (auth/limiter.go), under concurrent *)
(* attempts through the core API, the Jellyfin, Audiobookshelf and OPDS    *)
(* faces, and the Subsonic face, which consults it in another order.  Of a *)
(* list of times the limiter asks how many are recent and never in which   *)
(* order they came: here it is the number of them at each time.            *)
(***************************************************************************)
EXTENDS Integers, FiniteSets, Functions

CONSTANTS LlIps, LlAccounts, LlKnown,   \* addresses, names tried, names that exist
          LlCallers,                    \* requests in flight
          LlThreshold, LlIpThreshold, LlWindow, LlLockout, LlMaxEntries,
          LlSlots,                      \* places for password hashes (auth.go kdfSlots)
          LlMaxTime, LlMaxAttempts      \* bounds on the clock and on the attempts

ASSUME LlAssumption ==
    /\ {LlThreshold, LlIpThreshold, LlWindow, LlMaxEntries, LlSlots} \subseteq Nat \ {0}
    /\ LlLockout \in Nat /\ LlLockout >= LlWindow
    /\ LlMaxTime \in Nat \ {0}
    /\ IsFiniteSet(LlCallers) /\ LlCallers # {}
    /\ LlKnown \subseteq LlAccounts
    /\ LlIps \cap (LlIps \X LlAccounts) = {}   \* ipKeyPrefix keeps the keys apart

VARIABLES llEntries,   \* Limiter.entries
          llNow,
          llCaller,    \* of each request: where it is, its address and name, which key is asked after the address's, and
                       \* what proves the password: a hash, a Subsonic token or a cached OPDS proof
          llWrong,     \* times of the wrong guesses verified since the entry of a key was last dropped (history)
          llAttempts

llVars == <<llEntries, llNow, llCaller, llWrong, llAttempts>>

Principal(ip, account) == <<ip, account>>
LimitKeys == LlIps \cup (LlIps \X LlAccounts)
LlTimes == 0..LlMaxTime
NoTimes == [t \in LlTimes |-> 0]
HowMany(times) == SumFunctionOnSet(times, LlTimes)
NoEntry == [failures |-> NoTimes, until |-> 0, seen |-> 0, there |-> FALSE]
LlOut == [at |-> "out", ip |-> CHOOSE i \in LlIps : TRUE, account |-> CHOOSE a \in LlAccounts : TRUE,
          gate |-> "allow", proof |-> "hash"]

LlInit ==
    /\ llEntries = [k \in LimitKeys |-> NoEntry]
    /\ llNow = 1
    /\ llCaller = [c \in LlCallers |-> LlOut]
    /\ llWrong = [k \in LimitKeys |-> NoTimes]
    /\ llAttempts = 0

ThresholdFor(k) == IF k \in LlIps THEN LlIpThreshold ELSE LlThreshold
Since(times, now) == [t \in LlTimes |-> IF now - t < LlWindow THEN times[t] ELSE 0]
Recent(times) == Since(times, llNow)
Another(times) == [Recent(times) EXCEPT ![llNow] = @ + 1]
LockedKey(k) == llEntries[k].until > llNow
Pruned(e) == [e EXCEPT !.failures = Recent(@)]
Proceed(c, at) == llCaller' = [llCaller EXCEPT ![c] = IF at = "out" THEN LlOut ELSE [@ EXCEPT !.at = at]]
KeyOf_MutantAccount(c, who) == Principal(llCaller[c].ip, llCaller[c].account)
KeyOf(c, who) == IF who = "ip" THEN llCaller[c].ip ELSE Principal(llCaller[c].ip, llCaller[c].account)

-----------------------------------------------------------------------------
(* The limiter's operations, each under its mutex.                         *)

Allowed(k) == [llEntries EXCEPT ![k] = IF @.there /\ ~LockedKey(k) /\ Recent(@.failures) = NoTimes THEN NoEntry
                                       ELSE IF @.there /\ ~LockedKey(k) THEN Pruned(@) ELSE @]

(* evictLocked: what holds nothing goes; then the least recently seen.     *)
Evicted ==
    LET kept == [k \in LimitKeys |-> IF ~LockedKey(k) THEN Pruned(llEntries[k]) ELSE llEntries[k]]
        live == {k \in LimitKeys : llEntries[k].there /\ (LockedKey(k) \/ kept[k].failures # NoTimes)}
        drops == {{}} \cup {{k} : k \in live}
    IN {[k \in LimitKeys |-> IF k \in live \ drop THEN kept[k] ELSE NoEntry] :
           drop \in {d \in drops : /\ (d = {}) = (Cardinality(live) < LlMaxEntries)
                                   /\ \A k \in d, j \in live : kept[k].seen <= kept[j].seen}}

Struck(entries, k) ==
    IF LockedKey(k) THEN entries
    ELSE [entries EXCEPT ![k] =
        LET failures == Another(@.failures) IN
        IF HowMany(failures) >= ThresholdFor(k)
        THEN [there |-> TRUE, seen |-> llNow, failures |-> NoTimes, until |-> llNow + LlLockout]
        ELSE [there |-> TRUE, seen |-> llNow, failures |-> failures, until |-> @.until]]

Failure(k) ==
    \/ llEntries[k].there /\ llEntries' = Struck(llEntries, k) /\ UNCHANGED llWrong
    \/ /\ ~llEntries[k].there
       /\ \E entries \in Evicted :
             /\ llEntries' = Struck(entries, k)
             /\ llWrong' = [j \in LimitKeys |-> IF j = k \/ entries[j].there \/ ~llEntries[j].there THEN llWrong[j] ELSE NoTimes]

Success(k) == llEntries' = [llEntries EXCEPT ![k] = NoEntry] /\ llWrong' = [llWrong EXCEPT ![k] = NoTimes]

SuccessIP(ip) == llEntries' = [llEntries EXCEPT ![ip] = IF @.there THEN [@ EXCEPT !.seen = llNow] ELSE @]

-----------------------------------------------------------------------------
(* An attempt.                                                             *)

Attempt(c, ip, account, gate, proof) ==
    /\ llCaller[c].at = "out" /\ llAttempts < LlMaxAttempts /\ llAttempts' = llAttempts + 1
    /\ llCaller' = [llCaller EXCEPT ![c] =
          [at |-> "allowIp", ip |-> ip, account |-> account, gate |-> gate, proof |-> proof]]
    /\ UNCHANGED <<llEntries, llNow, llWrong>>

Login(c, ip, account) == Attempt(c, ip, account, "allow", "hash")
JellyfinAuthenticate(c, ip, account) == Attempt(c, ip, account, "allow", "hash")
AbsLogin(c, ip, account) == Attempt(c, ip, account, "allow", "hash")

(* A proof that was right a moment ago needs no hash.                      *)
OpdsAuth(c, ip, account) ==
    \/ Attempt(c, ip, account, "allow", "hash")
    \/ account \in LlKnown /\ Attempt(c, ip, account, "allow", "cached")

(* The name is looked up first: an unknown one is not held against its own key; a token needs no hash. *)
SubsonicAuthenticate(c, ip, account) ==
    \/ account \notin LlKnown /\ Attempt(c, ip, account, "password", "hash")
    \/ account \in LlKnown /\ \E proof \in {"hash", "token"} : Attempt(c, ip, account, "allow", proof)

AllowIP(c) ==
    LET k == llCaller[c].ip IN
    /\ llCaller[c].at = "allowIp"
    /\ llEntries' = Allowed(k)
    /\ Proceed(c, IF LockedKey(k) THEN "out" ELSE llCaller[c].gate)
    /\ UNCHANGED <<llNow, llWrong, llAttempts>>

Allow(c) ==
    LET k == KeyOf(c, "principal") IN
    /\ llCaller[c].at = "allow"
    /\ llEntries' = Allowed(k)
    /\ Proceed(c, IF LockedKey(k) THEN "out" ELSE "password")
    /\ UNCHANGED <<llNow, llWrong, llAttempts>>

(* VerifyRequest refuses when its two places are taken.                    *)
VerifyRequest(c) ==
    /\ llCaller[c].at = "password" /\ llCaller[c].proof = "hash"
    /\ \/ Cardinality({d \in LlCallers : llCaller[d].at = "hash"}) < LlSlots /\ Proceed(c, "hash")
       \/ Cardinality({d \in LlCallers : llCaller[d].at = "hash"}) >= LlSlots /\ Proceed(c, "out")
    /\ UNCHANGED <<llEntries, llNow, llWrong, llAttempts>>

Proved(c, proofs) == llCaller[c].at = "hash" \/ (llCaller[c].at = "password" /\ llCaller[c].proof \in proofs)

Wrong(c) ==
    /\ Proved(c, {"token"})
    /\ llWrong' = [llWrong EXCEPT ![llCaller[c].ip] = Another(@),
                                  ![Principal(llCaller[c].ip, llCaller[c].account)] = Another(@)]
    /\ Proceed(c, "failIp")
    /\ UNCHANGED <<llEntries, llNow, llAttempts>>

Right(c) ==
    /\ llCaller[c].account \in LlKnown
    /\ Proved(c, {"token", "cached"})
    /\ Proceed(c, "success")
    /\ UNCHANGED <<llEntries, llNow, llWrong, llAttempts>>

Record(c) ==
    /\ \/ llCaller[c].at = "failIp" /\ Failure(KeyOf(c, "ip")) /\ Proceed(c, "fail")
       \/ llCaller[c].at = "fail" /\ Failure(KeyOf(c, "principal")) /\ Proceed(c, "out")
       \/ llCaller[c].at = "success" /\ Success(KeyOf(c, "principal")) /\ Proceed(c, "successIp")
       \/ llCaller[c].at = "successIp" /\ SuccessIP(llCaller[c].ip) /\ Proceed(c, "out") /\ UNCHANGED llWrong
    /\ UNCHANGED <<llNow, llAttempts>>

Tick ==
    /\ llNow < LlMaxTime /\ llNow' = llNow + 1
    /\ llWrong' = [k \in LimitKeys |-> Since(llWrong[k], llNow')]
    /\ UNCHANGED <<llEntries, llCaller, llAttempts>>

LlNext ==
    \/ \E c \in LlCallers :
          \/ \E ip \in LlIps, account \in LlAccounts :
                \/ Login(c, ip, account) \/ JellyfinAuthenticate(c, ip, account) \/ AbsLogin(c, ip, account)
                \/ OpdsAuth(c, ip, account) \/ SubsonicAuthenticate(c, ip, account)
          \/ AllowIP(c) \/ Allow(c) \/ VerifyRequest(c) \/ Wrong(c) \/ Right(c) \/ Record(c)
    \/ Tick

LlSpec == LlInit /\ [][LlNext]_llVars

-----------------------------------------------------------------------------
(* Properties.                                                             *)

(* The table never exceeds its bound, whatever addresses and names are tried, and no lock outlasts the lockout. *)
LlTypeOK ==
    /\ Cardinality({k \in LimitKeys : llEntries[k].there}) <= LlMaxEntries
    /\ \A k \in LimitKeys : llEntries[k].until <= llNow + LlLockout /\ HowMany(llEntries[k].failures) < ThresholdFor(k)

(* While the entry of a key is kept, no more wrong guesses are verified against it in a window than its threshold and,
   twice, the other requests that were allowed before it was reached: once for the lock that ends in the window, under
   which they are not counted, and once for the next. The success of another account does not matter, nor, for an
   address, any success at all (core.go:184, subsonic.go:136-142). A name that does not exist is not counted. *)
GuessesBounded == \A k \in LlIps \cup (LlIps \X LlKnown) :
    HowMany(llWrong[k]) <= ThresholdFor(k) + 2 * (Cardinality(LlCallers) - 1)

=============================================================================
