----------------------------- MODULE Conductor -----------------------------
(***************************************************************************)
(* DefaultConductor and DefaultScheduler in Redis mode                     *)
(* (internal/pool/conductor_default.go, scheduler_default.go, types.go),   *)
(* driven by HandleMessages: a request acquires an account through session *)
(* affinity or the selector, uses it, reports the outcome to the scheduler *)
(* and releases the account.  Several proxy processes share one Redis.     *)
(*                                                                         *)
(* Every Redis call is a step of its own, so the steps of other requests   *)
(* come in between; what a request does under its process's locks between  *)
(* two calls is one step.  The Redis side is RedisRuntime, whose actions   *)
(* the steps here conjoin.                                                 *)
(***************************************************************************)
EXTENDS Integers, Sequences, FiniteSets, SequencesExt, FiniteSetsExt

CONSTANTS
    Creds, Models, NoModel, Reservations, MaxInFlight, LeaseTTL, CooldownTTL,
    Procs,           \* proxy processes
    Requests,        \* request slots; a slot serves one request after another
    ProcOf,          \* [Requests -> Procs]
    ModelFor,        \* [Requests -> Models]
    SessionOf,       \* [Requests -> Sessions \cup {None}]
    Sessions,
    IdsOf,           \* [Procs -> SUBSET Reservations]: the uuids a process draws
    Priority,        \* [Creds -> Nat]
    Strategy,        \* selector: "any" | "fill-first" | "least-inflight"
    NoCooling,       \* accounts with DisableCooling
    Outcomes,        \* how upstream calls end: a subset of
                     \* {"success", "rateLimit", "authError", "other"}
    Faults,          \* what may go wrong or intervene: a subset of
                     \* {"redis", "crash", "client", "admin", "expiry"}
    None

ASSUME ConductorAssumption ==
    /\ IsFiniteSet(Reservations)
    /\ MaxInFlight \in [Creds -> Nat]
    /\ LeaseTTL \in Nat \ {0}
    /\ CooldownTTL \in Nat
    /\ NoModel \notin Models
    /\ IsFiniteSet(Requests)
    /\ ProcOf \in [Requests -> Procs]
    /\ ModelFor \in [Requests -> Models]
    /\ SessionOf \in [Requests -> Sessions \cup {None}]
    /\ IdsOf \in [Procs -> SUBSET Reservations]
    /\ \A p, q \in Procs : p # q => IdsOf[p] \cap IdsOf[q] = {}
    /\ Priority \in [Creds -> Nat]
    /\ Strategy \in {"any", "fill-first", "least-inflight"}
    /\ NoCooling \subseteq Creds
    /\ None \notin Creds \cup Requests \cup Reservations \cup Sessions

VARIABLES
    \* Redis (see RedisRuntime)
    lease, credOf, modelOf, held, renewing, count, countTTL, modelCount,
    modelTTL, cooldown,
    redisBinding,  \* affinity:<session>
    \* a request's goroutine
    pc,
    stage,         \* which of Acquire's three reservation attempts
    cand, res,
    hadBinding,    \* Acquire's local of that name
    synced,        \* the counters SyncInFlight read and has not stored yet
    ctxDone,       \* requests whose client went away
    \* a process
    tracker,       \* reservationTracker.items
    renewCtx,      \* the request whose context a renewal depends on; None: cancelled
    inFlight, disabled, cooling,   \* Credential.InFlight, .Disabled, .Quota
    binding,       \* Affinity.entries
    enabling       \* SetEnabled(true) calls that have not reached Redis yet

redisVars == <<lease, credOf, modelOf, held, renewing, count, countTTL,
               modelCount, modelTTL, cooldown>>
requestVars == <<pc, stage, cand, res, hadBinding, synced, ctxDone>>
processVars == <<tracker, renewCtx, inFlight, disabled, cooling, binding, enabling>>
vars == <<redisVars, redisBinding, requestVars, processVars>>

Redis == INSTANCE RedisRuntime

\* Steps at which the request has an account and its reservation is tracked.
Serving == {"bind", "active", "clear", "cool", "coolModel", "coolAuth", "release"}

NoSync == [c \in Creds |-> 0]

Init ==
    /\ Redis!Init
    /\ redisBinding = [s \in Sessions |-> None]
    /\ pc = [q \in Requests |-> "idle"]
    /\ stage = [q \in Requests |-> None]
    /\ cand = [q \in Requests |-> None]
    /\ res = [q \in Requests |-> None]
    /\ hadBinding = [q \in Requests |-> FALSE]
    /\ synced = [q \in Requests |-> NoSync]
    /\ ctxDone = {}
    /\ tracker = [p \in Procs |-> [c \in Creds |-> <<>>]]
    /\ renewCtx = [r \in Reservations |-> None]
    /\ inFlight = [p \in Procs |-> [c \in Creds |-> 0]]
    /\ disabled = [p \in Procs |-> {}]
    /\ cooling = [p \in Procs |-> [c \in Creds |-> [m \in Redis!ModelArg |-> 0]]]
    /\ binding = [p \in Procs |-> [s \in Sessions |-> None]]
    /\ enabling = {}
-----------------------------------------------------------------------------
Goto(q, next) == pc' = [pc EXCEPT ![q] = next]

\* A candidate account goes to tryReserve.
Attempt(q, st, c) ==
    /\ Goto(q, "reserve")
    /\ stage' = [stage EXCEPT ![q] = st]
    /\ cand' = [cand EXCEPT ![q] = c]

\* A Redis call made under the request's context may fail.
CallFails(q) == "redis" \in Faults \/ q \in ctxDone

\* HandleMessages returns: the request's context is cancelled with it, and
\* so is every renewal derived from it.
EndContext(q) == [r \in Reservations |-> IF renewCtx[r] = q THEN None ELSE renewCtx[r]]

Return(q) ==
    /\ Goto(q, "idle")
    /\ stage' = [stage EXCEPT ![q] = None]
    /\ cand' = [cand EXCEPT ![q] = None]
    /\ res' = [res EXCEPT ![q] = None]
    /\ hadBinding' = [hadBinding EXCEPT ![q] = FALSE]
    /\ ctxDone' = ctxDone \ {q}
    /\ renewCtx' = EndContext(q)
    /\ UNCHANGED synced
-----------------------------------------------------------------------------
(***************************************************************************)
(* Acquire: the two affinity lookups                                       *)
(***************************************************************************)

\* Redis GetAffinity; an error counts as "no binding".
LookupRedisBinding(q) ==
    LET s == SessionOf[q]
        found == s # None /\ redisBinding[s] # None
    IN  /\ pc[q] = "idle"
        /\ \/ /\ found
              /\ Attempt(q, "redis", redisBinding[s])
              /\ hadBinding' = [hadBinding EXCEPT ![q] = TRUE]
           \/ /\ ~found \/ CallFails(q)
              /\ Goto(q, "local")
              /\ UNCHANGED <<stage, cand, hadBinding>>
        /\ UNCHANGED <<redisVars, redisBinding, res, synced, ctxDone, processVars>>

\* Affinity.Get in the process's own table.
LookupLocalBinding(q) ==
    LET s == SessionOf[q]
        found == s # None /\ binding[ProcOf[q]][s] # None
    IN  /\ pc[q] = "local"
        /\ \/ /\ found
              /\ Attempt(q, "local", binding[ProcOf[q]][s])
              /\ hadBinding' = [hadBinding EXCEPT ![q] = TRUE]
           \/ /\ ~found
              /\ Goto(q, "sync")
              /\ UNCHANGED <<stage, cand, hadBinding>>
        /\ UNCHANGED <<redisVars, redisBinding, res, synced, ctxDone, processVars>>
-----------------------------------------------------------------------------
(***************************************************************************)
(* Acquire: pickAndReserve                                                 *)
(***************************************************************************)

\* SyncInFlight reads all counters with one MGET; it may fail.
SyncInFlight(q) ==
    /\ pc[q] = "sync"
    /\ \/ synced' = [synced EXCEPT ![q] = count] /\ Goto(q, "store")
       \/ CallFails(q) /\ UNCHANGED synced /\ Goto(q, "pick")
    /\ UNCHANGED <<redisVars, redisBinding, stage, cand, res, hadBinding, ctxDone,
                   processVars>>

\* Then it overwrites the process's own counters with what it read.
StoreInFlight(q) ==
    /\ pc[q] = "store"
    /\ inFlight' = [inFlight EXCEPT ![ProcOf[q]] = synced[q]]
    /\ synced' = [synced EXCEPT ![q] = NoSync]
    /\ Goto(q, "pick")
    /\ UNCHANGED <<redisVars, redisBinding, stage, cand, res, hadBinding, ctxDone,
                   tracker, renewCtx, disabled, cooling, binding, enabling>>

IsReadyFor(p, c, m) ==
    /\ c \notin disabled[p]
    /\ cooling[p][c][NoModel] = 0
    /\ MaxInFlight[c] > 0 => inFlight[p][c] < MaxInFlight[c]
    /\ cooling[p][c][m] = 0

\* Ready, then filterReadyForModel.
ReadySet(p, m) == {c \in Creds : IsReadyFor(p, c, m)}

\* The accounts the selector may return.  Every strategy but round-robin
\* stays in the top priority group; "any" stands for the ones whose choice
\* depends on counters that are not modelled.
Picks(p, ready) ==
    LET top == {c \in ready : \A d \in ready : Priority[d] <= Priority[c]}
    IN  CASE Strategy = "any" -> ready
          [] Strategy = "fill-first" -> top
          [] Strategy = "least-inflight" ->
               {c \in top : \A d \in top : inFlight[p][c] <= inFlight[p][d]}

Pick(q) ==
    LET p == ProcOf[q]
    IN  /\ pc[q] = "pick"
        /\ \E c \in Picks(p, ReadySet(p, ModelFor[q])) : Attempt(q, "pick", c)
        /\ UNCHANGED <<redisVars, redisBinding, res, hadBinding, synced, ctxDone, processVars>>

\* Pick returns ErrNoReady and the request ends with it.
NoReady(q) ==
    /\ pc[q] = "pick"
    /\ ReadySet(ProcOf[q], ModelFor[q]) = {}
    /\ Return(q)
    /\ UNCHANGED <<redisVars, redisBinding, tracker, inFlight, disabled, cooling, binding, enabling>>
-----------------------------------------------------------------------------
(***************************************************************************)
(* Acquire: tryReserve and trackReservation                                *)
(***************************************************************************)

ReserveAccepted(q) ==
    /\ pc[q] = "reserve"
    /\ \E r \in IdsOf[ProcOf[q]] :
         /\ Redis!TryReserve(r, cand[q], ModelFor[q])
         /\ res' = [res EXCEPT ![q] = r]
    /\ Goto(q, "accepted")
    /\ UNCHANGED <<redisBinding, stage, cand, hadBinding, synced, ctxDone, processVars>>

\* On to the next attempt: the local binding, the selector, or the selector
\* again; the selector loop ends when the context is done.
Refused(q) ==
    \/ /\ stage[q] = "pick" /\ q \in ctxDone
       /\ Return(q)
    \/ /\ ~(stage[q] = "pick" /\ q \in ctxDone)
       /\ Goto(q, IF stage[q] = "redis" THEN "local" ELSE "sync")
       /\ stage' = [stage EXCEPT ![q] = None]
       /\ cand' = [cand EXCEPT ![q] = None]
       /\ res' = [res EXCEPT ![q] = None]
       /\ UNCHANGED <<hadBinding, synced, ctxDone, renewCtx>>

ReserveRefused(q) ==
    /\ pc[q] = "reserve"
    /\ ~Redis!Admits(cand[q], ModelFor[q])
    /\ Refused(q)
    /\ UNCHANGED <<redisVars, redisBinding, tracker, inFlight, disabled, cooling, binding, enabling>>

\* TryReserve fails, with or without the script having run.
ReserveFails(q) ==
    /\ pc[q] = "reserve"
    /\ CallFails(q)
    /\ \/ UNCHANGED redisVars
       \/ \E r \in IdsOf[ProcOf[q]] :
            Redis!TryReserveReplyLost(r, cand[q], ModelFor[q])
    /\ Return(q)
    /\ UNCHANGED <<redisBinding, tracker, inFlight, disabled, cooling, binding, enabling>>

\* Mutant: the renewal goroutine is not started.
TrackWithoutRenewal(q) ==
    LET p == ProcOf[q]
        c == cand[q]
        s == SessionOf[q]
        bind == stage[q] = "pick" /\ s # None /\ ~hadBinding[q]
    IN  /\ pc[q] = "accepted"
        /\ c \notin disabled[p]
        /\ inFlight' = [inFlight EXCEPT ![p][c] = @ + 1]
        /\ tracker' = [tracker EXCEPT ![p][c] = Append(@, res[q])]
        /\ renewCtx' = [renewCtx EXCEPT ![res[q]] = IF q \in ctxDone THEN None ELSE q]
        /\ UNCHANGED redisVars
        /\ res' = [res EXCEPT ![q] = None]
        /\ stage' = [stage EXCEPT ![q] = None]
        /\ hadBinding' = [hadBinding EXCEPT ![q] = FALSE]
        /\ binding' = IF bind THEN [binding EXCEPT ![p][s] = c] ELSE binding
        /\ Goto(q, IF bind THEN "bind" ELSE "active")
        /\ UNCHANGED <<redisBinding, cand, synced, ctxDone, disabled, cooling, enabling>>

\* Mutant: the fallback account replaces the session's binding.
TrackRebinds(q) ==
    LET p == ProcOf[q]
        c == cand[q]
        s == SessionOf[q]
        bind == stage[q] = "pick" /\ s # None
    IN  /\ pc[q] = "accepted"
        /\ c \notin disabled[p]
        /\ inFlight' = [inFlight EXCEPT ![p][c] = @ + 1]
        /\ tracker' = [tracker EXCEPT ![p][c] = Append(@, res[q])]
        /\ renewCtx' = [renewCtx EXCEPT ![res[q]] = IF q \in ctxDone THEN None ELSE q]
        /\ Redis!StartRenewal(res[q])
        /\ res' = [res EXCEPT ![q] = None]
        /\ stage' = [stage EXCEPT ![q] = None]
        /\ hadBinding' = [hadBinding EXCEPT ![q] = FALSE]
        /\ binding' = IF bind THEN [binding EXCEPT ![p][s] = c] ELSE binding
        /\ Goto(q, IF bind THEN "bind" ELSE "active")
        /\ UNCHANGED <<redisBinding, cand, synced, ctxDone, disabled, cooling, enabling>>

\* localReserveRuntimeAccepted, trackReservation and, for a picked account of
\* an unbound session, affinity.Set.
Track(q) ==
    LET p == ProcOf[q]
        c == cand[q]
        s == SessionOf[q]
        bind == stage[q] = "pick" /\ s # None /\ ~hadBinding[q]
    IN  /\ pc[q] = "accepted"
        /\ c \notin disabled[p]
        /\ inFlight' = [inFlight EXCEPT ![p][c] = @ + 1]
        /\ tracker' = [tracker EXCEPT ![p][c] = Append(@, res[q])]
        /\ renewCtx' = [renewCtx EXCEPT ![res[q]] = IF q \in ctxDone THEN None ELSE q]
        /\ Redis!StartRenewal(res[q])
        /\ res' = [res EXCEPT ![q] = None]
        /\ stage' = [stage EXCEPT ![q] = None]
        /\ hadBinding' = [hadBinding EXCEPT ![q] = FALSE]
        /\ binding' = IF bind THEN [binding EXCEPT ![p][s] = c] ELSE binding
        /\ Goto(q, IF bind THEN "bind" ELSE "active")
        /\ UNCHANGED <<redisBinding, cand, synced, ctxDone, disabled, cooling, enabling>>

\* Mutant: the rollback decrements the counter and forgets the lease.
RollbackCounterOnly(q) ==
    /\ pc[q] = "accepted"
    /\ cand[q] \in disabled[ProcOf[q]]
    /\ count' = [count EXCEPT ![cand[q]] = Redis!Less(@)]
    /\ held' = held \ {res[q]}
    /\ Refused(q)
    /\ UNCHANGED <<lease, credOf, modelOf, renewing, countTTL, modelCount, modelTTL, cooldown,
                   redisBinding, tracker, inFlight, disabled, cooling, binding, enabling>>

\* The account was disabled after it was chosen: the reservation is rolled
\* back and the attempt counts as refused.
Rollback(q) ==
    /\ pc[q] = "accepted"
    /\ cand[q] \in disabled[ProcOf[q]]
    /\ Redis!Release(res[q]) \/ (CallFails(q) /\ Redis!ReleaseLost(res[q]))
    /\ Refused(q)
    /\ UNCHANGED <<redisBinding, tracker, inFlight, disabled, cooling, binding, enabling>>

\* Redis SetAffinity; a failure is logged.
BindRedis(q) ==
    /\ pc[q] = "bind"
    /\ \/ redisBinding' = [redisBinding EXCEPT ![SessionOf[q]] = cand[q]]
       \/ CallFails(q) /\ UNCHANGED redisBinding
    /\ Goto(q, "active")
    /\ UNCHANGED <<redisVars, stage, cand, res, hadBinding, synced, ctxDone, processVars>>
-----------------------------------------------------------------------------
(***************************************************************************)
(* The outcome: markPoolOutcome and the scheduler's Mark methods           *)
(***************************************************************************)

KeepRequest == UNCHANGED <<stage, cand, res, hadBinding, synced, ctxDone>>

\* Each Mark method first changes the process's own Credential, under its
\* lock, and then Redis.
MarkSuccess(q) ==
    /\ pc[q] = "active" /\ "success" \in Outcomes
    /\ cooling' = [cooling EXCEPT ![ProcOf[q]][cand[q]] =
                     [m \in Redis!ModelArg |-> IF m \in {NoModel, ModelFor[q]} THEN 0 ELSE @[m]]]
    /\ Goto(q, "clear")
    /\ KeepRequest
    /\ UNCHANGED <<redisVars, redisBinding, tracker, renewCtx, inFlight, disabled, binding, enabling>>

MarkRateLimit(q) ==
    /\ pc[q] = "active" /\ "rateLimit" \in Outcomes
    /\ IF cand[q] \in NoCooling
       THEN cooling' = cooling /\ Goto(q, "release")
       ELSE /\ cooling' = [cooling EXCEPT ![ProcOf[q]][cand[q]] =
                            [m \in Redis!ModelArg |->
                               IF m \in {NoModel, ModelFor[q]} THEN CooldownTTL ELSE @[m]]]
            /\ Goto(q, "cool")
    /\ KeepRequest
    /\ UNCHANGED <<redisVars, redisBinding, tracker, renewCtx, inFlight, disabled, binding, enabling>>

MarkAuthError(q) ==
    /\ pc[q] = "active" /\ "authError" \in Outcomes
    /\ disabled' = [disabled EXCEPT ![ProcOf[q]] = @ \cup {cand[q]}]
    /\ Goto(q, "coolAuth")
    /\ KeepRequest
    /\ UNCHANGED <<redisVars, redisBinding, tracker, renewCtx, inFlight, cooling, binding, enabling>>

\* Any other error: nothing is recorded.
MarkNothing(q) ==
    /\ pc[q] = "active" /\ "other" \in Outcomes
    /\ Goto(q, "release")
    /\ KeepRequest
    /\ UNCHANGED <<redisVars, redisBinding, processVars>>

\* A Redis call of a Mark method, then the next step; its error is ignored.
MirrorCall(q, from, call, to) ==
    /\ pc[q] = from
    /\ call \/ ("redis" \in Faults /\ UNCHANGED redisVars)
    /\ Goto(q, to)
    /\ KeepRequest
    /\ UNCHANGED <<redisBinding, processVars>>

Mirror(q) ==
    LET c == cand[q]
        m == ModelFor[q]
    IN  \/ MirrorCall(q, "clear", Redis!ClearCooldown(c, m), "release")
        \/ MirrorCall(q, "cool", Redis!SetCooldown(c, NoModel, CooldownTTL), "coolModel")
        \/ MirrorCall(q, "coolModel", Redis!SetCooldown(c, m, CooldownTTL), "release")
        \/ MirrorCall(q, "coolAuth", Redis!SetCooldown(c, NoModel, CooldownTTL), "release")
-----------------------------------------------------------------------------
(***************************************************************************)
(* Release (deferred by HandleMessages)                                    *)
(***************************************************************************)

\* Mutant: the model is not compared.
PopIndexAnyModel(seq, m) == Len(seq)

\* reservationTracker.pop takes the last reservation of the model.
PopIndex(seq, m) == SelectLastInSeq(seq, LAMBDA r : modelOf[r] = m)

PopReservation(q) ==
    LET p == ProcOf[q]
        c == cand[q]
        seq == tracker[p][c]
        i == PopIndex(seq, ModelFor[q])
    IN  /\ pc[q] = "release"
        /\ IF i = 0
           THEN /\ Goto(q, "releaseLocal")
                /\ UNCHANGED <<tracker, renewCtx, res>>
           ELSE /\ tracker' = [tracker EXCEPT ![p][c] = RemoveAt(seq, i)]
                /\ renewCtx' = [renewCtx EXCEPT ![seq[i]] = None]
                /\ res' = [res EXCEPT ![q] = seq[i]]
                /\ Goto(q, "releaseRedis")
        /\ UNCHANGED <<redisVars, redisBinding, stage, cand, hadBinding, synced, ctxDone,
                       inFlight, disabled, cooling, binding, enabling>>

\* Mutant: the reservation is dropped without releasing it in Redis.
ReleaseRedisSkipped(q) ==
    /\ pc[q] = "releaseRedis"
    /\ Redis!ReleaseLost(res[q])
    /\ res' = [res EXCEPT ![q] = None]
    /\ Goto(q, "releaseLocal")
    /\ UNCHANGED <<redisBinding, stage, cand, hadBinding, synced, ctxDone, processVars>>

\* Mutant: "no such lease" counts as a failure and the release is retried.
ReleaseRedisRetries(q) ==
    /\ pc[q] = "releaseRedis"
    /\ lease[res[q]] > 0
    /\ Redis!Release(res[q])
    /\ res' = [res EXCEPT ![q] = None]
    /\ Goto(q, "releaseLocal")
    /\ UNCHANGED <<redisBinding, stage, cand, hadBinding, synced, ctxDone, processVars>>

ReleaseRedis(q) ==
    /\ pc[q] = "releaseRedis"
    /\ Redis!Release(res[q]) \/ ("redis" \in Faults /\ Redis!ReleaseLost(res[q]))
    /\ res' = [res EXCEPT ![q] = None]
    /\ Goto(q, "releaseLocal")
    /\ UNCHANGED <<redisBinding, stage, cand, hadBinding, synced, ctxDone, processVars>>

\* Mutant: the counter is decremented although a sync has reset it to zero.
ReleaseLocalUnclamped(q) ==
    /\ pc[q] = "releaseLocal"
    /\ inFlight' = [inFlight EXCEPT ![ProcOf[q]][cand[q]] = @ - 1]
    /\ Return(q)
    /\ UNCHANGED <<redisVars, redisBinding, tracker, disabled, cooling, binding, enabling>>

\* Credential.ReleaseReservation, after which HandleMessages returns.
ReleaseLocal(q) ==
    /\ pc[q] = "releaseLocal"
    /\ inFlight' = [inFlight EXCEPT ![ProcOf[q]][cand[q]] = IF @ > 0 THEN @ - 1 ELSE 0]
    /\ Return(q)
    /\ UNCHANGED <<redisVars, redisBinding, tracker, disabled, cooling, binding, enabling>>
-----------------------------------------------------------------------------
(***************************************************************************)
(* Renewal goroutines                                                      *)
(***************************************************************************)

KeepAllButRedis == UNCHANGED <<redisBinding, requestVars, processVars>>

Renew(r) == Redis!Extend(r) /\ KeepAllButRedis

RenewGone(r) == Redis!ExtendGone(r) /\ KeepAllButRedis

\* Mutant: the goroutine does not watch its context.
RenewNeverCancelled(r) == lease[r] = 0 /\ Redis!StopRenewal(r) /\ KeepAllButRedis

RenewCancelled(r) == renewCtx[r] = None /\ Redis!StopRenewal(r) /\ KeepAllButRedis
-----------------------------------------------------------------------------
(***************************************************************************)
(* Clients, operators, crashes and time                                    *)
(***************************************************************************)

Disconnect(q) ==
    /\ "client" \in Faults
    /\ pc[q] # "idle" /\ q \notin ctxDone
    /\ ctxDone' = ctxDone \cup {q}
    /\ renewCtx' = EndContext(q)
    /\ UNCHANGED <<redisVars, redisBinding, pc, stage, cand, res, hadBinding, synced,
                   tracker, inFlight, disabled, cooling, binding, enabling>>

\* SetEnabled(false) of one process.
Disable(p, c) ==
    /\ "admin" \in Faults
    /\ disabled' = [disabled EXCEPT ![p] = @ \cup {c}]
    /\ UNCHANGED <<redisVars, redisBinding, requestVars, tracker, renewCtx, inFlight,
                   cooling, binding, enabling>>

\* SetEnabled(true): the account's flag and cooldown, then the account's key.
Enable(p, c) ==
    /\ "admin" \in Faults
    /\ disabled' = [disabled EXCEPT ![p] = @ \ {c}]
    /\ cooling' = [cooling EXCEPT ![p][c][NoModel] = 0]
    /\ enabling' = enabling \cup {c}
    /\ UNCHANGED <<redisVars, redisBinding, requestVars, tracker, renewCtx, inFlight, binding>>

EnableRedis(c) ==
    /\ c \in enabling
    /\ Redis!ClearCooldown(c, NoModel) \/ ("redis" \in Faults /\ UNCHANGED redisVars)
    /\ enabling' = enabling \ {c}
    /\ UNCHANGED <<redisBinding, requestVars, tracker, renewCtx, inFlight, disabled, cooling, binding>>

\* A binding nobody used for its TTL disappears, from Redis or from a process
\* (Affinity.Get on an expired entry, or Sweep).
BindingExpires(s) ==
    /\ "expiry" \in Faults
    /\ \/ /\ redisBinding' = [redisBinding EXCEPT ![s] = None]
          /\ UNCHANGED binding
       \/ \E p \in Procs :
            /\ binding' = [binding EXCEPT ![p][s] = None]
            /\ UNCHANGED redisBinding
    /\ UNCHANGED <<redisVars, requestVars, tracker, renewCtx, inFlight, disabled, cooling, enabling>>

\* A process dies with its goroutines and comes back with the accounts in
\* PostgreSQL: an account is disabled there if some process's save said so.
Crash(p) ==
    LET mine == {q \in Requests : ProcOf[q] = p}
        Reset(f, v) == [q \in Requests |-> IF q \in mine THEN v ELSE f[q]]
    IN  /\ "crash" \in Faults
        /\ Redis!Crash(IdsOf[p] \cap (held \cup renewing))
        /\ pc' = Reset(pc, "idle")
        /\ stage' = Reset(stage, None)
        /\ cand' = Reset(cand, None)
        /\ res' = Reset(res, None)
        /\ hadBinding' = Reset(hadBinding, FALSE)
        /\ synced' = Reset(synced, NoSync)
        /\ ctxDone' = ctxDone \ mine
        /\ renewCtx' = [r \in Reservations |-> IF r \in IdsOf[p] THEN None ELSE renewCtx[r]]
        /\ tracker' = [tracker EXCEPT ![p] = [c \in Creds |-> <<>>]]
        /\ inFlight' = [inFlight EXCEPT ![p] = [c \in Creds |-> 0]]
        /\ \E saved \in SUBSET UNION {disabled[o] : o \in Procs} :
              disabled' = [disabled EXCEPT ![p] = saved]
        /\ cooling' = [cooling EXCEPT ![p] = [c \in Creds |-> [m \in Redis!ModelArg |-> 0]]]
        /\ binding' = [binding EXCEPT ![p] = [s \in Sessions |-> None]]
        /\ UNCHANGED <<redisBinding, enabling>>

\* The time scale: a tick is minutes (half a lease), a Redis call or a step
\* between two calls is seconds at most.  So a tick passes while requests wait
\* for the upstream, for work, or spin in the pick loop, and every renewal
\* (due after a third of the lease, at most a minute) happens within it.
StepsAreShort == \A q \in Requests : pc[q] \in {"idle", "active", "sync"}

RenewalsKeepUp ==
    \A r \in renewing : renewCtx[r] # None /\ lease[r] > 0 => lease[r] = LeaseTTL

Tick ==
    /\ StepsAreShort
    /\ RenewalsKeepUp
    /\ Redis!Tick
    /\ cooling' = [p \in Procs |-> [c \in Creds |-> [m \in Redis!ModelArg |->
                      Redis!Elapse(cooling[p][c][m])]]]
    /\ UNCHANGED <<redisBinding, requestVars, tracker, renewCtx, inFlight, disabled, binding, enabling>>
-----------------------------------------------------------------------------
RequestStep(q) ==
    \/ LookupRedisBinding(q) \/ LookupLocalBinding(q)
    \/ SyncInFlight(q) \/ StoreInFlight(q) \/ Pick(q) \/ NoReady(q)
    \/ ReserveAccepted(q) \/ ReserveRefused(q) \/ ReserveFails(q)
    \/ Track(q) \/ Rollback(q) \/ BindRedis(q)
    \/ MarkSuccess(q) \/ MarkRateLimit(q) \/ MarkAuthError(q) \/ MarkNothing(q)
    \/ Mirror(q)
    \/ PopReservation(q) \/ ReleaseRedis(q) \/ ReleaseLocal(q)

Next ==
    \/ \E q \in Requests : RequestStep(q) \/ Disconnect(q)
    \/ \E r \in Reservations : Renew(r) \/ RenewGone(r) \/ RenewCancelled(r)
    \/ \E p \in Procs, c \in Creds : Disable(p, c) \/ Enable(p, c)
    \/ \E c \in Creds : EnableRedis(c)
    \/ \E s \in Sessions : BindingExpires(s)
    \/ \E p \in Procs : Crash(p)
    \/ Tick

Spec == Init /\ [][Next]_vars

(***************************************************************************)
(* Fairness: a request that was granted an account goes on (the upstream   *)
(* reader has an idle timeout, so "active" ends); goroutines are           *)
(* scheduled; time passes, also past a request spinning in the pick loop.  *)
(***************************************************************************)
Fairness ==
    /\ \A q \in Requests : WF_vars(pc[q] # "idle" /\ RequestStep(q))
    /\ \A r \in Reservations :
         WF_vars(RenewGone(r) \/ RenewCancelled(r)) /\ WF_vars(lease[r] < LeaseTTL /\ Renew(r))
    /\ SF_vars(Tick)

FairSpec == Spec /\ Fairness
-----------------------------------------------------------------------------
(***************************************************************************)
(* Properties                                                              *)
(***************************************************************************)

TypeOK ==
    /\ pc \in [Requests -> {"idle", "local", "sync", "store", "pick", "reserve", "accepted",
                            "releaseRedis", "releaseLocal"} \cup Serving]
    /\ stage \in [Requests -> {"redis", "local", "pick", None}]
    /\ cand \in [Requests -> Creds \cup {None}]
    /\ res \in [Requests -> Reservations \cup {None}]
    /\ hadBinding \in [Requests -> BOOLEAN]
    /\ synced \in [Requests -> [Creds -> Nat]]
    /\ ctxDone \in SUBSET Requests
    /\ \A p \in Procs, c \in Creds : ToSet(tracker[p][c]) \subseteq IdsOf[p]
    /\ renewCtx \in [Reservations -> Requests \cup {None}]
    /\ inFlight \in [Procs -> [Creds -> Nat]]
    /\ disabled \in [Procs -> SUBSET Creds]
    /\ cooling \in [Procs -> [Creds -> [Redis!ModelArg -> 0..CooldownTTL]]]
    /\ binding \in [Procs -> [Sessions -> Creds \cup {None}]]
    /\ redisBinding \in [Sessions -> Creds \cup {None}]
    /\ enabling \in SUBSET Creds

\* The requests of process p being served by c with model m.
ServedBy(p, c, m) ==
    {q \in Requests : pc[q] \in Serving /\ ProcOf[q] = p /\ cand[q] = c /\ ModelFor[q] = m}

\* The reservations of p's tracker for account c and model m.
Tracked(p, c, m) == {r \in ToSet(tracker[p][c]) : modelOf[r] = m}

InTrackers == UNION {ToSet(tracker[p][c]) : p \in Procs, c \in Creds}

\* The requests that have their reservation in hand, not in a tracker.
Carried == {q \in Requests : pc[q] \in {"accepted", "releaseRedis"}}

\* No reservation is lost between Acquire and Release and none is released
\* twice: what the processes hold is what their requests carry by hand plus
\* what the trackers keep, a tracker keeps one reservation per served request
\* of that account and model, and nothing is kept in two places.
SlotsAccounted ==
    /\ held = {res[q] : q \in Carried} \cup InTrackers
    /\ \A q \in Carried :
         res[q] \notin InTrackers /\ \A o \in Carried \ {q} : res[o] # res[q]
    /\ \A p \in Procs, c \in Creds :
         /\ IsInjective(tracker[p][c])
         /\ \A r \in ToSet(tracker[p][c]) : credOf[r] = c
         /\ \A m \in Models :
              Cardinality(Tracked(p, c, m)) = Cardinality(ServedBy(p, c, m))

\* Whatever the requests do, Redis sees only what RedisRuntime allows, so what
\* is proved of RedisRuntime (CapRespected, LimiterSpec) holds here.
ImplementsRedisRuntime == Redis!Spec

\* Without failures every live lease has an owner that will release it: no
\* early return, refusal or rollback of Acquire leaves one behind.
NoOrphanLeases ==
    Faults \cap {"redis", "crash", "client"} = {} =>
        \A r \in Reservations : lease[r] > 0 => r \in held

\* Sticky-on-recovery: an unavailable bound account sends the request to
\* another account but leaves the session's binding alone.
BindingSticky ==
    [][\A s \in Sessions :
         redisBinding[s] # None => redisBinding'[s] \in {redisBinding[s], None}]_vars

\* docs/pgredis-complete-migration-audit.zh-CN.md, item 8: the renewal keeps the
\* lease of a long request alive for as long as the request runs.
LongRequestKeepsLease ==
    \A c \in Creds :
        Cardinality({q \in Requests : pc[q] \in Serving /\ cand[q] = c /\ q \notin ctxDone})
            <= Cardinality(Redis!LiveOn(c))

\* A request that was granted an account ends and gives a slot back, whatever
\* its outcome and whether or not its client is still there.
GrantedRequestEnds == \A q \in Requests : pc[q] \in Serving ~> pc[q] = "idle"

\* When the traffic stops, nothing is left: no renewal goroutine keeps a lease
\* alive, no counter stays up, although requests may have released each
\* other's reservations.
QuietMeansDrained ==
    <>[](\A q \in Requests : pc[q] = "idle")
        => <>[](renewing = {} /\ \A c \in Creds : count[c] = 0)
============================================================================
