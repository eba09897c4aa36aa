---------------------------- MODULE RedisRuntime ----------------------------
(***************************************************************************)
(* The Redis-backed runtime state of the account pool                      *)
(* (internal/pool/runtime_state.go): one lease key per reservation, one    *)
(* in-flight counter key per account and one per account and model, one    *)
(* cooldown key per account and one per account and model.                 *)
(*                                                                         *)
(* Every Lua script is one atomic action.  A key with a TTL is modelled by *)
(* its remaining life in ticks; 0 means that the key does not exist.  The  *)
(* callers are the requests of any number of proxy processes: a request    *)
(* holds the reservation it was granted until it releases it, the release  *)
(* is lost, or its process dies; a renewal goroutine extends the lease     *)
(* meanwhile and may run once more after the request let go.               *)
(***************************************************************************)
EXTENDS Integers, FiniteSets, FiniteSetsExt

CONSTANTS
    Creds,          \* accounts
    Models,         \* model names
    NoModel,        \* the empty model string
    Reservations,   \* reservation ids; an id forgotten by all stands for a fresh uuid
    MaxInFlight,    \* [Creds -> Nat], 0 = unlimited
    LeaseTTL,       \* ticks a lease and the counters live after a reserve or extend
    CooldownTTL     \* bound: longest cooldown, in ticks

ASSUME RuntimeAssumption ==
    /\ IsFiniteSet(Reservations)
    /\ MaxInFlight \in [Creds -> Nat]
    /\ LeaseTTL \in Nat \ {0}
    /\ CooldownTTL \in Nat
    /\ NoModel \notin Models

\* For the sums over models.
ASSUME ModelsAssumption == IsFiniteSet(Models)

ModelArg == Models \cup {NoModel}

VARIABLES
    lease,       \* remaining life of reservation:<id>
    credOf,      \* the account a reservation was made for
    modelOf,     \* the model a reservation was made for
    held,        \* reservations some live request holds
    renewing,    \* reservations whose renewal goroutine runs
    count,       \* inflight:<cred>
    countTTL,
    modelCount,  \* inflight:<cred>:model:<model>
    modelTTL,
    cooldown     \* cooldown:<cred> (at NoModel) and cooldown:<cred>:model:<model>

leaseVars == <<lease, credOf, modelOf>>
counterVars == <<count, countTTL, modelCount, modelTTL>>
vars == <<leaseVars, held, renewing, counterVars, cooldown>>

Live(r) == lease[r] > 0
LiveOn(c) == {r \in Reservations : Live(r) /\ credOf[r] = c}
LiveOnModel(c, m) == {r \in LiveOn(c) : modelOf[r] = m}

NoKeys == [m \in Models |-> 0]

Init ==
    /\ lease = [r \in Reservations |-> 0]
    /\ credOf \in [Reservations -> Creds]
    /\ modelOf = [r \in Reservations |-> NoModel]
    /\ held = {}
    /\ renewing = {}
    /\ count = [c \in Creds |-> 0]
    /\ countTTL = [c \in Creds |-> 0]
    /\ modelCount = [c \in Creds |-> NoKeys]
    /\ modelTTL = [c \in Creds |-> NoKeys]
    /\ cooldown = [c \in Creds |-> [m \in ModelArg |-> 0]]
-----------------------------------------------------------------------------
(***************************************************************************)
(* reserveScript                                                           *)
(***************************************************************************)

\* An id nobody knows any more: no key, no holder, no goroutine.
Fresh(r) == ~Live(r) /\ r \notin held /\ r \notin renewing

\* Mutant: the limit is checked with > instead of >=.
AdmitsOneMore(c, m) ==
    /\ cooldown[c][NoModel] = 0
    /\ cooldown[c][m] = 0
    /\ MaxInFlight[c] > 0 => count[c] <= MaxInFlight[c]

\* The three early returns of the script.  cooldown[c][NoModel] is the
\* account's key, so a request without a model looks at one key only.
Admits(c, m) ==
    /\ cooldown[c][NoModel] = 0
    /\ cooldown[c][m] = 0
    /\ MaxInFlight[c] > 0 => count[c] < MaxInFlight[c]

\* Mutant: the account's counter gets no TTL (Redis: TTL -1).
ReserveNoExpire(r, c, m) ==
    /\ Admits(c, m)
    /\ count' = [count EXCEPT ![c] = @ + 1]
    /\ countTTL' = [countTTL EXCEPT ![c] = -1]
    /\ lease' = [lease EXCEPT ![r] = LeaseTTL]
    /\ credOf' = [credOf EXCEPT ![r] = c]
    /\ modelOf' = [modelOf EXCEPT ![r] = m]
    /\ UNCHANGED <<modelCount, modelTTL>>

ReserveScript(r, c, m) ==
    /\ Admits(c, m)
    /\ count' = [count EXCEPT ![c] = @ + 1]
    /\ countTTL' = [countTTL EXCEPT ![c] = LeaseTTL]
    /\ modelCount' = IF m = NoModel THEN modelCount
                     ELSE [modelCount EXCEPT ![c][m] = @ + 1]
    /\ modelTTL' = IF m = NoModel THEN modelTTL
                   ELSE [modelTTL EXCEPT ![c][m] = LeaseTTL]
    /\ lease' = [lease EXCEPT ![r] = LeaseTTL]
    /\ credOf' = [credOf EXCEPT ![r] = c]
    /\ modelOf' = [modelOf EXCEPT ![r] = m]

\* TryReserve succeeds and the request holds the reservation.
TryReserve(r, c, m) ==
    /\ Fresh(r)
    /\ ReserveScript(r, c, m)
    /\ held' = held \cup {r}
    /\ UNCHANGED <<renewing, cooldown>>

\* The script ran but its reply was lost (or the process died before it could
\* use it): TryReserve returns an error and nobody will ever release r.
TryReserveReplyLost(r, c, m) ==
    /\ Fresh(r)
    /\ ReserveScript(r, c, m)
    /\ UNCHANGED <<held, renewing, cooldown>>
-----------------------------------------------------------------------------
(***************************************************************************)
(* extendScript, run by the renewal goroutine                              *)
(***************************************************************************)

\* Mutant: only the lease is extended, the counters keep their old TTL.
ExtendLeaseOnly(r) ==
    /\ lease' = [lease EXCEPT ![r] = LeaseTTL]
    /\ UNCHANGED <<countTTL, modelTTL>>

ExtendScript(r) ==
    LET c == credOf[r]
        m == modelOf[r]
    IN  /\ lease' = [lease EXCEPT ![r] = LeaseTTL]
        /\ countTTL' = [countTTL EXCEPT ![c] = IF @ > 0 THEN LeaseTTL ELSE 0]
        /\ modelTTL' = IF m = NoModel THEN modelTTL
                       ELSE [modelTTL EXCEPT ![c][m] = IF @ > 0 THEN LeaseTTL ELSE 0]

Extend(r) ==
    /\ r \in renewing
    /\ Live(r)
    /\ ExtendScript(r)
    /\ UNCHANGED <<credOf, modelOf, held, renewing, count, modelCount, cooldown>>

\* trackReservation starts the renewal goroutine.
StartRenewal(r) ==
    /\ r \in held
    /\ renewing' = renewing \cup {r}
    /\ UNCHANGED <<leaseVars, held, counterVars, cooldown>>

\* The script found no lease and returned 0: the goroutine ends.
ExtendGone(r) ==
    /\ r \in renewing
    /\ ~Live(r)
    /\ renewing' = renewing \ {r}
    /\ UNCHANGED <<leaseVars, held, counterVars, cooldown>>

\* The goroutine sees its context done: the reservation was released, the
\* request its context was derived from is over, or its client went away.
StopRenewal(r) ==
    /\ r \in renewing
    /\ renewing' = renewing \ {r}
    /\ UNCHANGED <<leaseVars, held, counterVars, cooldown>>
-----------------------------------------------------------------------------
(***************************************************************************)
(* releaseScript                                                           *)
(***************************************************************************)

Less(n) == IF n > 1 THEN n - 1 ELSE 0

\* Mutant: the counter is decremented although the lease was already gone.
ReleaseUnchecked(r) ==
    LET c == credOf[r]
    IN  /\ lease' = [lease EXCEPT ![r] = 0]
        /\ count' = [count EXCEPT ![c] = Less(@)]
        /\ countTTL' = [countTTL EXCEPT ![c] = IF count[c] > 1 THEN @ ELSE 0]
        /\ UNCHANGED <<modelCount, modelTTL>>

\* Mutant: the model's counter is not released with the account's.
ReleaseAccountOnly(r) ==
    IF Live(r) THEN ReleaseUnchecked(r) ELSE UNCHANGED <<lease, counterVars>>

\* DECR above one, DEL otherwise; nothing when the lease is already gone.
ReleaseScript(r) ==
    LET c == credOf[r]
        m == modelOf[r]
    IN  IF Live(r)
        THEN /\ lease' = [lease EXCEPT ![r] = 0]
             /\ count' = [count EXCEPT ![c] = Less(@)]
             /\ countTTL' = [countTTL EXCEPT ![c] = IF count[c] > 1 THEN @ ELSE 0]
             /\ modelCount' = IF m = NoModel THEN modelCount
                              ELSE [modelCount EXCEPT ![c][m] = Less(@)]
             /\ modelTTL' = IF m = NoModel THEN modelTTL
                            ELSE [modelTTL EXCEPT ![c][m] =
                                    IF modelCount[c][m] > 1 THEN @ ELSE 0]
        ELSE UNCHANGED <<lease, counterVars>>

Release(r) ==
    /\ r \in held
    /\ ReleaseScript(r)
    /\ held' = held \ {r}
    /\ UNCHANGED <<credOf, modelOf, renewing, cooldown>>

\* The call failed: the error is logged, the reservation is forgotten.
ReleaseLost(r) ==
    /\ r \in held
    /\ held' = held \ {r}
    /\ UNCHANGED <<leaseVars, renewing, counterVars, cooldown>>
-----------------------------------------------------------------------------
(***************************************************************************)
(* Cooldown keys, crashes and the passage of time                          *)
(***************************************************************************)

SetCooldown(c, m, ttl) ==
    /\ ttl > 0
    /\ cooldown' = [cooldown EXCEPT ![c][m] = ttl]
    /\ UNCHANGED <<leaseVars, held, renewing, counterVars>>

\* DEL of the account's key and, with a model, of the model's key too.
ClearCooldown(c, m) ==
    /\ cooldown' = [cooldown EXCEPT ![c] =
                      [n \in ModelArg |-> IF n \in {NoModel, m} THEN 0 ELSE @[n]]]
    /\ UNCHANGED <<leaseVars, held, renewing, counterVars>>

\* A proxy process dies with the requests it was serving.
Crash(dead) ==
    /\ held' = held \ dead
    /\ renewing' = renewing \ dead
    /\ UNCHANGED <<leaseVars, counterVars, cooldown>>

Elapse(ttl) == IF ttl > 0 THEN ttl - 1 ELSE ttl

\* One tick: every key loses a tick of its life; a counter key whose life
\* ends takes its count with it.
Tick ==
    /\ lease' = [r \in Reservations |-> Elapse(lease[r])]
    /\ countTTL' = [c \in Creds |-> Elapse(countTTL[c])]
    /\ count' = [c \in Creds |-> IF Elapse(countTTL[c]) = 0 THEN 0 ELSE count[c]]
    /\ modelTTL' = [c \in Creds |-> [m \in Models |-> Elapse(modelTTL[c][m])]]
    /\ modelCount' = [c \in Creds |-> [m \in Models |->
                        IF Elapse(modelTTL[c][m]) = 0 THEN 0 ELSE modelCount[c][m]]]
    /\ cooldown' = [c \in Creds |-> [m \in ModelArg |-> Elapse(cooldown[c][m])]]
    /\ UNCHANGED <<credOf, modelOf, held, renewing>>
-----------------------------------------------------------------------------
Next ==
    \/ \E r \in Reservations, c \in Creds, m \in ModelArg :
         TryReserve(r, c, m) \/ TryReserveReplyLost(r, c, m)
    \/ \E r \in Reservations :
         \/ StartRenewal(r) \/ Extend(r) \/ ExtendGone(r) \/ StopRenewal(r)
         \/ Release(r) \/ ReleaseLost(r)
    \/ \E c \in Creds, m \in ModelArg :
         ClearCooldown(c, m) \/ \E ttl \in 1..CooldownTTL : SetCooldown(c, m, ttl)
    \/ \E dead \in SUBSET (held \cup renewing) : dead # {} /\ Crash(dead)
    \/ Tick

Spec == Init /\ [][Next]_vars

(***************************************************************************)
(* Fairness: time passes; a request that holds a reservation ends          *)
(* (HandleMessages defers Conductor.Release), which either reaches Redis   *)
(* or is lost; the goroutine of a released reservation ends.               *)
(***************************************************************************)
Fairness ==
    /\ WF_vars(Tick)
    /\ \A r \in Reservations :
         /\ WF_vars(Release(r) \/ ReleaseLost(r))
         /\ WF_vars(ExtendGone(r) \/ (r \notin held /\ StopRenewal(r)))

FairSpec == Spec /\ Fairness
-----------------------------------------------------------------------------
(***************************************************************************)
(* Properties                                                              *)
(***************************************************************************)

\* Type invariant of the keys and of the callers' view of them.
TypeOK ==
    /\ lease \in [Reservations -> 0..LeaseTTL]
    /\ credOf \in [Reservations -> Creds]
    /\ modelOf \in [Reservations -> ModelArg]
    /\ held \in SUBSET Reservations
    /\ renewing \in SUBSET Reservations
    /\ count \in [Creds -> Nat]
    /\ countTTL \in [Creds -> 0..LeaseTTL]
    /\ modelCount \in [Creds -> [Models -> Nat]]
    /\ modelTTL \in [Creds -> [Models -> 0..LeaseTTL]]
    /\ cooldown \in [Creds -> [ModelArg -> 0..CooldownTTL]]

\* An account's counter never falls below the leases that are alive on it,
\* whatever expires, crashes or is released late: releaseScript decrements
\* only for the lease it deleted, and a counter key never dies first.
LeasesCounted == \A c \in Creds : Cardinality(LiveOn(c)) <= count[c]

\* The same for the counter of every account and model.
ModelLeasesCounted ==
    \A c \in Creds, m \in Models : Cardinality(LiveOnModel(c, m)) <= modelCount[c][m]

\* The counter keys outlive every lease counted in them: reserveScript and
\* extendScript refresh the lease and its counters together.
CountersOutliveLeases ==
    \A r \in Reservations : Live(r) =>
        /\ lease[r] <= countTTL[credOf[r]]
        /\ modelOf[r] # NoModel => lease[r] <= modelTTL[credOf[r]][modelOf[r]]

\* max_in_flight is a limit on the live leases of an account across all
\* processes, not only on the counter the script compares.
CapRespected ==
    \A c \in Creds : MaxInFlight[c] > 0 => Cardinality(LiveOn(c)) <= MaxInFlight[c]

\* The counter itself never passes max_in_flight either, leaks included.
CountWithinCap == \A c \in Creds : MaxInFlight[c] > 0 => count[c] <= MaxInFlight[c]

\* The inductive invariant behind CapRespected and LimiterSpec: a lease can only be
\* granted below the limit because the counter bounds the live leases, and
\* the counter keeps bounding them because its key dies last.
RuntimeInv ==
    /\ TypeOK
    /\ LeasesCounted
    /\ ModelLeasesCounted
    /\ CountersOutliveLeases
    /\ CountWithinCap

\* The per-model counters of an account and its live leases without a model
\* never add up to more than the account's own counter.
ModelCountsWithinAccount ==
    \A c \in Creds :
        MapThenSumSet(LAMBDA m : modelCount[c][m], Models)
            + Cardinality(LiveOnModel(c, NoModel)) <= count[c]

\* The counters, TTLs and cooldowns together implement a plain limiter.
Limiter == INSTANCE LeaseLimiter WITH
    Limit <- MaxInFlight,
    granted <- [c \in Creds |-> LiveOn(c)]

LimiterSpec == Limiter!Spec

\* Once an account has no live lease any more, for good, its counter returns
\* to zero: the TTL of the counter key repairs whatever crashes left behind.
QuietAccountDrains ==
    \A c \in Creds : <>[](LiveOn(c) = {}) => <>[](count[c] = 0)

\* Capacity counted for leases that no longer exist.
Leaked(c) == count[c] > Cardinality(LiveOn(c))

\* README.md, Scheduling: "every acquired account has a Redis lease so crashed
\* requests eventually release capacity".
CrashedCapacityReturns == \A c \in Creds : Leaked(c) ~> ~Leaked(c)
=============================================================================
