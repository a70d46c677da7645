------------------------------ MODULE Trickplay ------------------------------
(***************************************************************************)
(* Preview sheets made on demand (trickplay/trickplay.go) under a pool of  *)
(* disk space (DiskPool, resourcebudget/budget.go): callers of one set     *)
(* share a generation, two sets are made at a time, the output of ffmpeg   *)
(* is watched, and a set counts once its COMPLETE marker is there.         *)
(***************************************************************************)
EXTENDS Integers, FiniteSets, Functions

CONSTANTS TpSets,        \* pairs of item and width
          TpCallers,
          TpNone,
          TpSize,        \* how many units of disk a whole set needs
          TpPer,         \* LIBTECA_TRICKPLAY_JOB_BYTES, 0: no limit of its own
          TpTotal,       \* LIBTECA_TRICKPLAY_TOTAL_BYTES, 0: none
          TpMaxCalls, TpMaxCrashes

ASSUME TpAssumption ==
    /\ TpSize \in [TpSets -> Nat] /\ {TpPer, TpTotal, TpMaxCalls, TpMaxCrashes} \subseteq Nat
    /\ TpNone \notin TpSets \cup TpCallers
    /\ IsFiniteSet(TpSets) /\ IsFiniteSet(TpCallers)

VARIABLES tpDisk,       \* bytes in every set's directory
          tpMarked,     \* sets with the COMPLETE marker
          tpGen,        \* Generator.gen: the caller that generates a set, or none
          tpCaller,     \* [at, set, lead, limit, used, left, result]
          tpMutex,      \* who measures: the holder of DiskPool.mu
          tpReserved, tpLeases,
          tpCalls, tpCrashes

tpPool == <<tpMutex, tpReserved, tpLeases>>
tpFiles == <<tpDisk, tpMarked>>
tpVars == <<tpFiles, tpGen, tpCaller, tpPool, tpCalls, tpCrashes>>

TpSlots == 2
TpOut == [at |-> "out", set |-> TpNone, lead |-> TpNone, used |-> 0, left |-> {}, result |-> "none"]
TpLimit == IF TpPer = 0 /\ TpTotal > 0 THEN TpTotal ELSE TpPer
InTileSlot(c) == tpCaller[c].at \in {"recover", "reserve", "measure", "run", "release"}

TpInit ==
    /\ tpDisk = [s \in TpSets |-> 0] /\ tpMarked = {}
    /\ tpGen = [s \in TpSets |-> TpNone]
    /\ tpCaller = [c \in TpCallers |-> TpOut]
    /\ tpMutex = TpNone /\ tpReserved = 0 /\ tpLeases = {}
    /\ tpCalls = 0 /\ tpCrashes = 0

(* complete: not the sheets, which ffmpeg may still be writing.            *)
Complete_MutantSheets(s) == tpDisk[s] > 0
Complete(s) == s \in tpMarked

TpTo(c, at) == tpCaller' = [tpCaller EXCEPT ![c].at = at]
(* generate returns: its outcome goes to the leader and to everyone who waits for it. *)
AnswerTiles(c, result) ==
    /\ tpCaller' = [d \in TpCallers |->
          IF d = c THEN [tpCaller[c] EXCEPT !.at = "withdraw", !.result = result]
          ELSE IF tpCaller[d].lead = c /\ tpCaller[d].at = "wait"
          THEN [TpOut EXCEPT !.result = result, !.set = tpCaller[c].set] ELSE tpCaller[d]]

(* Tile: what is complete is served, else the call joins or leads.         *)
Tile(c, s) ==
    /\ tpCaller[c].at = "out" /\ tpCalls < TpMaxCalls /\ tpCalls' = tpCalls + 1
    /\ tpCaller' = [tpCaller EXCEPT ![c] =
          IF Complete(s) THEN [TpOut EXCEPT !.set = s, !.result = "served"]
          ELSE [TpOut EXCEPT !.at = "ensure", !.set = s]]
    /\ UNCHANGED <<tpFiles, tpGen, tpPool, tpCrashes>>

(* ensure: a generation that has returned is joined until it is withdrawn. *)
EnsureTiles(c) ==
    LET s == tpCaller[c].set
        lead == tpGen[s] IN
    /\ tpCaller[c].at = "ensure"
    /\ \/ /\ lead = TpNone
          /\ tpGen' = [tpGen EXCEPT ![s] = c]
          /\ TpTo(c, "lock")
       \/ /\ lead # TpNone /\ UNCHANGED tpGen
          /\ tpCaller' = [tpCaller EXCEPT ![c] =
                IF tpCaller[lead].at = "withdraw" THEN [TpOut EXCEPT !.set = s, !.result = tpCaller[lead].result]
                ELSE [@ EXCEPT !.at = "wait", !.lead = lead]]
    /\ UNCHANGED <<tpFiles, tpPool, tpCalls, tpCrashes>>

(* generate up to its slot: complete meanwhile, no slot free, or go on.    *)
GenerateTiles(c) ==
    LET s == tpCaller[c].set IN
    /\ tpCaller[c].at = "lock"
    /\ \/ Complete(s) /\ AnswerTiles(c, "served")
       \/ ~Complete(s) /\ Cardinality({d \in TpCallers : InTileSlot(d)}) >= TpSlots /\ AnswerTiles(c, "busy")
       \/ ~Complete(s) /\ Cardinality({d \in TpCallers : InTileSlot(d)}) < TpSlots /\ TpTo(c, "recover")
    /\ UNCHANGED <<tpFiles, tpGen, tpPool, tpCalls, tpCrashes>>

(* recoverIncomplete: what a killed server left without a marker goes.     *)
RecoverIncomplete(c) ==
    /\ tpCaller[c].at = "recover" /\ TpTo(c, "reserve")
    /\ tpDisk' = [tpDisk EXCEPT ![tpCaller[c].set] = 0]
    /\ UNCHANGED <<tpMarked, tpGen, tpPool, tpCalls, tpCrashes>>

-----------------------------------------------------------------------------
(* DiskPool.Acquire: the whole tree is measured, then the directories of   *)
(* the leases, one after the other, while they grow.                       *)

TreeSize_MutantLeased == SumFunctionOnSet(tpDisk, tpLeases)
TreeSize == SumFunctionOnSet(tpDisk, TpSets)
TpCapped == [s \in TpSets |-> IF tpDisk[s] > TpLimit THEN TpLimit ELSE tpDisk[s]]

AcquireLease(c) ==
    /\ tpCaller[c].at = "reserve" /\ tpMutex = TpNone
    /\ tpMutex' = c
    /\ tpCaller' = [tpCaller EXCEPT ![c].at = "measure", ![c].used = TreeSize, ![c].left = tpLeases]
    /\ UNCHANGED <<tpFiles, tpGen, tpReserved, tpLeases, tpCalls, tpCrashes>>

MeasureLease(c) ==
    /\ tpCaller[c].at = "measure"
    /\ \E s \in tpCaller[c].left :
          tpCaller' = [tpCaller EXCEPT ![c].left = @ \ {s}, ![c].used = @ - TpCapped[s]]
    /\ UNCHANGED <<tpFiles, tpGen, tpPool, tpCalls, tpCrashes>>

TpFits(used) == used <= TpTotal /\ tpReserved <= TpTotal - used /\ TpLimit <= TpTotal - used - tpReserved

AdmitLease(c) ==
    LET used == IF tpCaller[c].used < 0 THEN 0 ELSE tpCaller[c].used IN
    /\ tpCaller[c].at = "measure" /\ tpCaller[c].left = {}
    /\ tpMutex' = TpNone
    /\ \/ /\ TpTotal = 0 \/ TpFits(used)
          /\ tpReserved' = tpReserved + TpLimit /\ tpLeases' = tpLeases \cup {tpCaller[c].set}
          /\ TpTo(c, "run")
       \/ /\ TpTotal # 0 /\ ~TpFits(used)
          /\ AnswerTiles(c, "limit") /\ UNCHANGED <<tpReserved, tpLeases>>
    /\ UNCHANGED <<tpFiles, tpGen, tpCalls, tpCrashes>>

-----------------------------------------------------------------------------
(* ffmpeg writes; Monitor looks every ten milliseconds and once at the end. *)

SheetGrows(c) ==
    LET s == tpCaller[c].set IN
    /\ tpCaller[c].at = "run" /\ tpDisk[s] < TpSize[s] /\ (TpLimit > 0 => tpDisk[s] <= TpLimit)
    /\ tpDisk' = [tpDisk EXCEPT ![s] = @ + 1]
    /\ UNCHANGED <<tpMarked, tpGen, tpCaller, tpPool, tpCalls, tpCrashes>>

Settle(c, result) == tpCaller' = [tpCaller EXCEPT ![c].at = "release", ![c].result = result]

(* ffmpeg and the last look of the monitor are content: the marker.        *)
MarkComplete(c) ==
    LET s == tpCaller[c].set IN
    /\ tpCaller[c].at = "run" /\ tpDisk[s] = TpSize[s] /\ (TpLimit > 0 => tpDisk[s] <= TpLimit)
    /\ tpMarked' = tpMarked \cup {s}
    /\ Settle(c, "served")
    /\ UNCHANGED <<tpDisk, tpGen, tpPool, tpCalls, tpCrashes>>

(* ffmpeg fails, the monitor or the leader's request stops it, or the      *)
(* marker cannot be written: the output goes.                              *)
GenerateFails(c) ==
    /\ tpCaller[c].at = "run"
    /\ tpDisk' = [tpDisk EXCEPT ![tpCaller[c].set] = 0]
    /\ Settle(c, "failed")
    /\ UNCHANGED <<tpMarked, tpGen, tpPool, tpCalls, tpCrashes>>

(* lease.Release, deferred: it waits for whoever measures.                 *)
ReleaseLease(c) ==
    /\ tpCaller[c].at = "release" /\ tpMutex = TpNone
    /\ tpReserved' = tpReserved - TpLimit /\ tpLeases' = tpLeases \ {tpCaller[c].set}
    /\ AnswerTiles(c, tpCaller[c].result)
    /\ UNCHANGED <<tpFiles, tpGen, tpMutex, tpCalls, tpCrashes>>

WithdrawTiles(c) ==
    /\ tpCaller[c].at = "withdraw"
    /\ tpGen' = [s \in TpSets |-> IF tpGen[s] = c THEN TpNone ELSE tpGen[s]]
    /\ tpCaller' = [tpCaller EXCEPT ![c] = [TpOut EXCEPT !.set = tpCaller[c].set, !.result = tpCaller[c].result]]
    /\ UNCHANGED <<tpFiles, tpPool, tpCalls, tpCrashes>>

(* A caller that only waits goes away.                                     *)
StopWaitingForTiles(c) ==
    /\ tpCaller[c].at = "wait"
    /\ tpCaller' = [tpCaller EXCEPT ![c] = TpOut]
    /\ UNCHANGED <<tpFiles, tpGen, tpPool, tpCalls, tpCrashes>>

TpCrash ==
    /\ tpCrashes < TpMaxCrashes /\ tpCrashes' = tpCrashes + 1
    /\ tpGen' = [s \in TpSets |-> TpNone]
    /\ tpCaller' = [c \in TpCallers |-> TpOut]
    /\ tpMutex' = TpNone /\ tpReserved' = 0 /\ tpLeases' = {}
    /\ UNCHANGED <<tpFiles, tpCalls>>

TpNext ==
    \/ \E c \in TpCallers : \/ \E s \in TpSets : Tile(c, s)
                            \/ EnsureTiles(c) \/ GenerateTiles(c) \/ RecoverIncomplete(c)
                            \/ AcquireLease(c) \/ MeasureLease(c) \/ AdmitLease(c)
                            \/ SheetGrows(c) \/ MarkComplete(c) \/ GenerateFails(c) \/ ReleaseLease(c) \/ WithdrawTiles(c) \/ StopWaitingForTiles(c)
    \/ TpCrash

TpSpec == TpInit /\ [][TpNext]_tpVars

-----------------------------------------------------------------------------
(* Properties.                                                             *)

(* Every variable keeps its type, and the pool's sum is that of its leases. *)
TpTypeOK ==
    /\ tpDisk \in [TpSets -> Nat] /\ tpMarked \subseteq TpSets
    /\ tpGen \in [TpSets -> TpCallers \cup {TpNone}] /\ tpMutex \in TpCallers \cup {TpNone}
    /\ tpReserved = TpLimit * Cardinality(tpLeases)

(* A set that is served is whole: nobody sees part of one, not after a     *)
(* failed generation, a crash or a second generation (trickplay.go:129,    *)
(* 315).                                                                   *)
ServedIsWhole ==
    /\ \A s \in tpMarked : tpDisk[s] = TpSize[s]
    /\ \A c \in TpCallers : tpCaller[c].result = "served" => tpCaller[c].set \in tpMarked

(* One generation per set writes its directory, and never two callers lead *)
(* the same set (trickplay.go:188-213).                                    *)
OneGenerationPerSet ==
    /\ \A c, d \in TpCallers : c # d /\ InTileSlot(c) /\ InTileSlot(d) => tpCaller[c].set # tpCaller[d].set
    /\ \A c \in TpCallers : tpCaller[c].at = "run" => tpCaller[c].set \in tpLeases

(* Both of it, for the runs: sets are made by one caller at a time and     *)
(* served by nobody before they are whole.                                 *)
SetsAreWhole == ServedIsWhole /\ OneGenerationPerSet

(* What lies on disk outside the leases and what the leases may still       *)
(* write exceed the total by at most one job for each other slot: a lease   *)
(* is measured after the tree, so that what it grew in between hides as     *)
(* much of the finished sets (budget.go:195-214).                           *)
SpaceIsBounded == TpTotal > 0 =>
    SumFunctionOnSet(TpCapped, TpSets \ tpLeases) + tpReserved <= TpTotal + TpLimit * (TpSlots - 1)
=============================================================================
