# kirocc: TLA+ models, model checking and proofs

kirocc is a Go proxy. It accepts Anthropic-style `/v1/messages` requests, chooses
one of a pool of upstream accounts ("credentials"), translates the request, calls
the upstream and translates the upstream's event stream back. Several proxy
processes share one Redis (leases, in-flight counters, cooldowns, session
affinity) and one PostgreSQL (accounts, settings, usage).

This directory holds the TLA+ specifications kept beside that code, the TLC
configurations that check them on small instances, and TLAPS proofs of their safety
properties for every value of the constants.
`PROJECT.json` maps every definition to the source lines it models.

1. [Inventory](#1-inventory)
2. [Modules and the code they model](#2-modules-and-the-code-they-model)
3. [Runs](#3-runs)
4. [Bounds, time and fairness](#4-bounds-time-and-fairness)
5. [Proofs](#5-proofs)
6. [Disagreements between documents and code](#6-disagreements-between-documents-and-code)
7. [What is left out](#7-what-is-left-out)
8. [Plan](#8-plan)

## 1. Inventory

| Component | State | Operations | What makes it correct |
|---|---|---|---|
| Redis runtime (`pool/runtime_state.go`) | per reservation a lease key; per account and per (account, model) an in-flight counter with a TTL; cooldown keys; affinity keys | `TryReserve`, `Extend`, `Release` (Lua scripts), `SetCooldown`, `ClearCooldown`, `SyncInFlight`, `GetAffinity`, `SetAffinity` | `max_in_flight` bounds the live leases over all processes; counters never fall below the live leases nor die before them; nothing is released twice; an idle account drains |
| Conductor (`pool/conductor*.go`) | reservation tracker, renewal goroutines, local affinity table | `Acquire` (Redis binding, local binding, pick loop), `Release`, renewal | each reservation is released once or left to expire; long requests keep their lease; a session keeps its binding; granted requests end |
| Scheduler, credentials, selectors (`pool/scheduler_default.go`, `types.go`, `selector*.go`) | disabled flag, cooldowns, backoff level, in-flight counters, selector counters | `Ready`, `MarkSuccess`, `MarkRateLimit`, `MarkAuthError`, `SetEnabled`, `Register`, `Remove` | unavailable accounts are not offered; local counters stay sane when a sync overwrites them |
| Message handler (`app/messages`) | attempt, retry reason, gate buffer | `executeWithRetry`, response handlers, `GateWriter`, outcome classification | a retry is invisible to the client; the client gets one answer; usage status matches what happened |
| Response conversion (`respconv`) | accumulator, tag and stop-sequence buffers, open block | `ProcessEvent`, `HandleEvent`, `Finish`, `BuildResponse` | numbered, non-overlapping blocks; finalised once; held text neither lost nor repeated |
| Tool search and thinking tool loops (`app/messages/toolsearch.go`, `thinkingtool.go`, `toolsearch`) | messages so far, rounds, active and deferred tools, usage added up | several upstream rounds in one response, a second run after an empty answer | every round's payload is acceptable; its usage counts once; the work is bounded |
| Kiro client (`kiroclient`) | attempt, backoff, idle timer | call with retries, idle reader | bounded retries; a silent body ends |
| Event stream parser (`kiroproto`) | frame buffer, partial tool calls | `ParseStream` callbacks | every event delivered once, in order |
| Token refresh and providers (`provider`, `pool/refresh.go`) | access and refresh tokens, expiry | `maybeRefresh`, `RefreshToken`, OAuth | a newer token is not overwritten by an older one |
| Account storage (`storage`, `pool/store*.go`) | rows in PostgreSQL | load, save, asynchronous saves, delete | rows catch up with the pool whatever order saves run in |
| Usage aggregator (`usage`) | ring buffer, bounded channel, table | publish, write, close, `Recent`, `Query` | accepted records are written; ring and table together neither lose nor repeat a request |
| Quota poller (`quota`) | per-account wait, cache | poll, refresh, check, disable | banned accounts are found and stay disabled |
| Settings and API keys (`settings`, `server/middleware.go`) | one JSON document, keys with quotas | update, validate, charge, rotate | acknowledged charges are kept; quotas bound usage up to what is in flight |
| Prompt cache (`promptcache`) | entries by scope and fingerprint, with lifetimes | plan, commit, prune, evict, report | reads are reported only for committed, unexpired prefixes; the report adds up |
| Request conversion (`reqconv`) | none | normalise messages, build payload | alternation, tool pairing, no text lost |
| OAuth login, admin server, dashboard, wiring, logging | see `PROJECT.json` | | |

How they interact. `HandleMessages` calls `Acquire`; the conductor asks Redis for
the session's binding, then its own table, then loops over the selector, and
reserves a slot in Redis and then in its own credential. A renewal goroutine
starts under the request's context. The handler calls the upstream with at most
one transparent retry, classifies the outcome, tells the scheduler (which mirrors
cooldowns to Redis) and, by `defer`, releases the account: it pops *a* reservation
of that account and model from the tracker, cancels its renewal, releases it in
Redis under a fresh context and decrements the local counter.

What is hard here: every Redis call is a point where other requests and processes
interleave; calls can fail with or without effect; processes crash with leases
out; keys expire independently; a client can disconnect at any time, which cancels
renewals and makes context-bound calls fail; upstream streams break at any event
while part of the answer is buffered behind the gate. `PROJECT.json` lists these
hazards line by line with the properties that cover them; a hazard without a
property carries a note. Account objects are held by pointer across network calls
by requests, quota checks and admin endpoints at once, and saved by goroutines
that nobody waits for; an API key's quota is checked before a request and charged
after it; the prompt cache is shared by all requests and read and written under
two separate locks.

## 2. Modules and the code they model

```
LeaseLimiter <--refines-- RedisRuntime <--refines-- Conductor      MessageStream
                              ^                         ^               ^
                    MCRedisRuntime                 MCConductor   MessageStreamProofs
              RedisRuntimeProofs --> SumProofs    ConductorProofs

Accounts           Settings   Usage          ReqConv  PromptCache  UsageReport
   ^                     ^    ^                    ^      ^       ^
MCAccounts              Accounting                  RequestPipeline
AccountsProofs              ^                              ^
                 MCAccounting AccountingProofs  MCRequestPipeline RequestPipelineProofs
                                                                     |
                                                     ReqConvProofs <-+
```

`RequestPipelineProofs` extends `ReqConvProofs`, which is about ReqConv alone.
`RedisRuntimeProofs`, `AccountingProofs` and `ReqConvProofs` use `SumProofs` (finite
sums, induction). An `MC` module instantiates a specification for TLC, a `Proofs` module holds its
theorems (section 5); both extend it.

**LeaseLimiter** is the promise: a set of live leases per account, granted only
below the account's limit, ending at any time.

**RedisRuntime** is the key space. A key with a TTL is its remaining life in ticks
(0: no key). Each Lua script is one action (`TryReserve`, `Extend`, `Release`);
`held` and `renewing` say which reservations a live request still intends to
release and which have a renewal goroutine. `TryReserveReplyLost`, `ReleaseLost`
and `Crash` are the failures; `Tick` lets one unit of time pass for all keys. A
reservation id that no key, request or goroutine knows any more may be drawn
again, standing for a fresh uuid. `LimiterSpec` maps the live leases to
LeaseLimiter.

**Conductor** composes RedisRuntime with requests and processes. A request's `pc`
stands between two Redis calls: `idle`, `local`, `sync`, `store`, `pick`,
`reserve`, `accepted`, `bind`, `active`, one step per mirrored cooldown call,
`release`, `releaseRedis`, `releaseLocal`. What a goroutine does under its
process's locks between two calls is one action. `SyncInFlight` is two actions
(the `MGET`, then the stores into the local counters) because other requests
change these counters in between. `Faults` and `Outcomes` select what may happen
in a run, so that every run is small and all faults are covered by some run.

**MessageStream** is one request after it has its account: `executeWithRetry`,
the streaming and non-streaming handlers, the gate and the SSE writer. An upstream
event is one of a fixed list of things the accumulator can make of it (text
emitted, text held as a possible tag or stop sequence, thinking, a signature, a
valid or a rejected tool call, a budget or stop sequence hit, the three kinds of
error). `sse.out` is what was written to the gate; once `promoted` it is with the
client. Text is left out, the control of the filters is kept (`Cuts`,
`FlushesThink`, `FlushesText`).

**Accounts** is the life of account records in one process: the objects of the pool
(`heap`, `pool`), the rows, the saves under way and the token the provider accepts
next. Workers are the goroutines that hold a pointer to an object across calls: a
request that refreshes its token (`Acquire`), a check of the quota poller
(`PollStart`), and the admin endpoints for creating, editing, deleting, refreshing
and importing accounts. A refresh is three steps (`RefreshTokens` with the copied
token, `InstallTokens`, `SaveTokens`), because others run in between. An object
that was replaced lives on while somebody points at it (`Collect` frees it).
`Restart` loads the rows. The history variables `aliased` (ids that had two
objects) and `lost` (ids whose newest token reached nobody) say where the
guarantees stop: after a delete and re-create, after `Register(before)` undoes a
failed edit, and after an answer of the provider was lost.

**Settings** is the settings document with its API keys: what can be loaded, `Update` with a
save that succeeds, fails, or succeeds unanswered, and the key operations.
**Usage** is the aggregator: the ring, the bounded channel, the writer, `Close`,
and `Recent`, `Query` and the rollups of both stores as operators. **Accounting**
composes them with requests (`Arrive`, `Auth`, `RecordMetric`, `Charge`), the
operator, the shutdown in main's order, crash and restart. Conductor and
MessageStream model the service in between.

**ReqConv** translates `reqconv`: what `BuildPayload` makes of roles, blocks and
tool results. A text is a sequence of fragments, each named by the message that
said it, so that loss and misplacement are visible. **PromptCache** is the tracker:
profile, `compute`, `update`, pruning, limits, sweep. **UsageReport** is
`MatchProfile` and `ApplyReportProfile`. **RequestPipeline** composes the three with
the client's retries, the plain call, and the tool search and thinking loops; an
answer is one step with one of the results the loops tell apart. `ledger` (what
answers have committed) and `evicted` are history.

Some definitions preceded by a comment that begins with `Mutant:` are altered
forms of the definition that follows them. They are not part of any specification:
each one shows that a property fails when the code is changed in that way
(`PROJECT.json`, `mutants`).

## 3. Runs

| Run | Instance | Shows |
|---|---|---|
| `redis_runtime` | two accounts (limits 1 and 2), one model or none, two reservations | `RuntimeInv` (the inductive invariant of the proofs), `CapRespected`, `ModelCountsWithinAccount`, refinement of LeaseLimiter, `QuietAccountDrains` under fairness |
| `conductor_faults` | one process, one account, two requests for two models, failing Redis calls, crashes, operators | `TypeOK` (a release never drives a synced counter below zero), `SlotsAccounted` (no reservation lost, none in two places), refinement of RedisRuntime |
| `conductor_shared` | two processes, two accounts, one session, rate limits, expiring bindings | `NoOrphanLeases`, `LongRequestKeepsLease` for requests that share no tracker slot, `BindingSticky` |
| `conductor_outcomes` | one process, one account with one slot, auth errors, disconnects, failing calls | liveness: `GrantedRequestEnds`, `QuietMeansDrained` |
| `message_stream` | both kinds of request, two attempts, four events each | `WireWellFormed`, `RetryIsInvisible`, `FinalizedOnce`, `StartedIsEnded`, `CommitsOnlyCleanAnswers` |
| `accounts` | two accounts, one of them in the pool at first and with rotating tokens, the poller and one other worker, three events (an operation, a fault, a ban) | `StoreSettles`, `NewestTokenKept`, `DisabledSticks`, `BannedGetsDisabled` |
| `accounting` | two requests, a key with one token left, another to be created, a legacy key, ring of two, channel of one, three events | `SettingsSurvive`, `ChargesAddUp`, `OvershootBounded`, `ShutdownDrains`, `RingKeepsNewest`, `RecentComplete`, `QueryComplete`, `RollupsAddUp` |
| `request_pipeline` | every conversation of up to three messages of eight shapes; both loops, buffered and streaming; pairs of requests that share the tracker | `PayloadWellFormed`, `TextKept`, `ReportConsistent`, `RoundsAccounted`, `ReadsBacked`, `WorkRunsOut` |
| `redis_leak`, `conductor_swap`, `message_stream_outcome`, `accounts_import` | | TLC finds the violation; see section 6 |

The properties are commented where they are defined. The ones a reader should
know: `RuntimeInv` says that the account's counter is at least the number of live
leases, at most the limit, and lives at least as long as the longest of them;
`SlotsAccounted` says that a tracker holds exactly as many reservations of an
account and model as requests are being served with them, although `pop` may hand
a request another one's reservation; `QuietMeansDrained` says that this exchange
never leaves a renewal goroutine or a counter behind once traffic stops.
`NewestTokenKept` says that refreshes at once do not leave the pool with an older
token: it holds because a provider that rotates refuses the copied token the second
time, and one that does not issues nothing newer. `OvershootBounded` gives the
exact bound of the check-then-charge race. `ReadsBacked` goes both ways: no read
without a commit, and no commit overlooked unless a limit evicted something.
`PlacesKept` says what the conversion may not do to any client's conversation: there is
an order-preserving place in the payload for each message where the same side says all
that the message says and all that its tool results say, and nothing else is said there
but the system prompt. It is proved (section 5) and in no run: the search for the places
multiplies the time of a run. `TextKept`, which the run checks, is sharper (the exact
sequence, each text once) and holds of the conversations of its run only: of several
results for one use, say, the code keeps the last.
`WorkRunsOut` is the progress argument of the retry loops as an action property: a
lexicographic measure that each step of a request decreases.

## 4. Bounds, time and fairness

- `LeaseTTL = 2` ticks is the least value with which a lease can be renewed before
  it ends and a counter can outlive a lease; `CooldownTTL = 1` distinguishes a
  cooldown that is over from one that is not. `MaxInFlight` of 1 and 2 with two
  reservations covers a full account, a full account with two leases, and a free
  slot next to a leaked one.
- Two requests suffice for every exchange of reservations, because `pop` and the
  counters relate two requests at a time; a request slot serves any number of
  requests one after another, so histories are not bounded.
- `conductor_faults` uses symmetry over reservation ids, which is sound there: all
  belong to one process and no definition tells them apart. The runs with liveness
  properties use none. In `conductor_shared` one account has cooling switched off.
- `MaxEvents = 4` events per attempt: open a block, hold something back, open
  another kind of block, stop. Two attempts are the code's own limit.
- `accounts`: one worker besides the poller suffices for every overlap of two
  goroutines on an object; the asynchronous saves are further goroutines
  (`MaxSaves = 2` per object: two in any order; a third would save the same object's
  state). `MaxToken = 1` rotation tells old from new; `MaxEvents = 3` allows an
  operation, a fault and a ban in one behaviour.
- `accounting`: ring of two and three requests make it wrap; a channel of one fills
  while the writer is appending. `MaxTime = 1` tells a request that started earlier
  from a later one and a live key from an expired one. Symmetry over the two
  requests is sound: nothing tells them apart.
- `request_pipeline`: three messages contain every neighbourhood the conversion
  looks at (a message, the one before, the one after merging). Two requests, one
  scope allowed, two entries allowed: the limits evict. A read ratio is given per
  fingerprint; sampled fields take any value of their range. `MaxToolSearchRounds`
  is the code's 3; `MaxThinkingRounds` is 2 instead of 4 and `MaxRetries` 1 instead of
  3: a first, a repeated and a last one happen.
- Time scale (`StepsAreShort`, `RenewalsKeepUp` in Conductor): a tick is half a
  lease, minutes; a Redis call is seconds. So a tick passes only while requests
  wait for work, for the upstream, or spin in the pick loop, and a renewal due
  after a third of the lease happens within it, unless its context is cancelled.
  RedisRuntime has no such assumption: there a tick may come between any two steps.
- Fairness. RedisRuntime: time passes, a request that holds a reservation ends
  (the release is deferred; it may be lost), and a goroutine whose lease is gone or
  whose reservation is released ends. Conductor: weak fairness for the steps of a running
  request (the upstream reader has an idle timeout, so `active` ends; all other
  steps are calls with timeouts or local code), weak fairness for renewal
  goroutines, strong fairness for `Tick`, which is enabled again and again but not
  continuously while a request spins in the pick loop.
  Accounts: refreshes and quota checks that have begun go on (their calls have
  timeouts), the poller's ticker ticks, waits end; requests, saves, the operator and
  faults owe nothing. Accounting and RequestPipeline state no fairness.
- `message_stream`, its violation run, `accounting` and `request_pipeline` switch
  deadlock checking off because requests end and the bounds on events run out; the
  other runs keep it on.

## 5. Proofs

TLAPS proves the following for every value of the constants that satisfies the
named assumptions: any number of accounts, models, requests, processes, keys,
messages and retries. Where the statement column names a property, a run of section 3
checks the same definition.

| Module | Theorem | Statement |
|---|---|---|
| RedisRuntimeProofs | `TypeCorrect` | `Spec => []TypeOK` |
| | `RuntimeInvariant` | `Spec => []RuntimeInv` |
| | `CapCorrect` | `Spec => []CapRespected` |
| | `ModelsWithinAccount` | `Spec => []ModelCountsWithinAccount` |
| | `ImplementsLimiter` | `Spec => LimiterSpec` |
| ConductorProofs | `ConductorInvariant` | `Spec => []ConductorInv` |
| | `ConductorTypes` | `Spec => []TypeOK` |
| | `NoSlotLost` | `Spec => []SlotsAccounted` |
| | `RefinesRedis` | `Spec => ImplementsRedisRuntime` |
| | `NoLeaseOrphaned` | `Spec => []NoOrphanLeases` |
| | `BindingIsSticky` | `Spec => BindingSticky`, for serial sessions and without `"redis"` and `"client"` faults |
| | `LongRequestsRenewed` | `Spec => []LongRequestKeepsLease`, for `NoSwaps` and `LeaseTTL > 1` |
| MessageStreamProofs | `StreamInvariant` | `Spec => []StreamInv` |
| | `StreamTypeCorrect` | `Spec => []TypeOK` |
| | `AnswerWellFormed` | `Spec => []WireWellFormed` |
| | `RetryUnseen` | `Spec => []RetryIsInvisible` |
| | `FinalizesOnce` | `Spec => []FinalizedOnce` |
| | `AnswerEnded` | `Spec => []StartedIsEnded` |
| | `CommitsClean` | `Spec => []CommitsOnlyCleanAnswers` |
| AccountsProofs | `AccountsInvariant` | `Spec => []AccountsInv` |
| | `AccountsTypes` | `Spec => []TypeOK` |
| | `StoreCatchesUp` | `Spec => []StoreSettles` |
| | `NewestTokenInPool` | `Spec => []NewestTokenKept` |
| | `DisablementSticks` | `Spec => DisabledSticks` |
| AccountingProofs | `AccountingInvariant` | `Spec => []AccountingInv` |
| | `AccountingTypes` | `Spec => []TypeOK` |
| | `SettingsRecover` | `Spec => []SettingsSurvive` |
| | `NoChargeLost` | `Spec => []ChargesAddUp` |
| | `QuotaOvershoot` | `Spec => []OvershootBounded` |
| | `CloseDrains` | `Spec => []ShutdownDrains` |
| | `RingCoversWindow` | `Spec => []QueryComplete` |
| | `RingNewest` | `Spec => []RingKeepsNewest` |
| | `TracesApart` | `Spec => []TraceInv` |
| | `RecentAnswers` | `Spec => []RecentComplete` |
| | `RollupsCorrect` | `Spec => []RollupsAddUp` |
| ReqConvProofs | `PayloadAccepted` | for regular conversations and all modes but `"noack"`, `WellFormed` holds of what `BuildPayload` returns; for all conversations, it names no tool that they do not name |
| | `NothingLost` | for conversations whose messages answer a use at most once, `KeepsPlaces` holds of what `BuildPayload` returns |
| RequestPipelineProofs | `PipelineInvariant` | `Spec => []PipelineInv` |
| | `RoundsCounted` | `Spec => []RoundsAccounted` |
| | `RequestsRunOut` | `Spec => WorkRunsOut` |
| | `TalkInvariant` | `Spec => []TalkInv` |
| | `PayloadsWellFormed` | `Spec => []PayloadWellFormed`, for `RegularClients` and `SystemMode # "noack"` |
| | `PlacesStay` | `Spec => []PlacesKept`, for `ClientsAnswerOnce` |
| | `TrackerInvariant` | `Spec => [](CacheInv /\ PlanInv)` |
| | `PlansBacked` | `Spec => ReadsBacked` |
| | `ReportsConsistent` | `Spec => []ReportConsistent` |
| | `PipelineTyped` | `Spec => []TypeOK` |

### Redis runtime

Assumed: `RuntimeAssumption` (limits are naturals, the lease TTL is positive, the
reservations are finitely many, `NoModel` is not a model), and `ModelsAssumption`
(finitely many models) where counters are summed over models.

`CapRespected` (live leases of an account within its limit) is not inductive: the
script compares a counter, not the leases. `RuntimeInv` adds what ties the two
together: `LeasesCounted` (the counter is at least the number of live leases),
`CountersOutliveLeases` (its TTL is at least that of every live lease, so it is
never gone while a lease lives) and `CountWithinCap` (the counter does not pass the
limit), and `ModelLeasesCounted` for the model's counter. A reserve adds one to
both sides; an extend sets lease and counter to the same TTL; a release removes a
live lease and one count, and does nothing for a lease that is gone; a tick may
remove leases, and removes a counter only when all its leases are gone. The
refinement follows from the same invariant: a script that admits a request finds
the counter below the limit, hence the live leases too.

`ModelCountsWithinAccount` compares the account's counter with a sum over its models.
Here the trouble is a release that finds one of the two counters already gone:
`ModelInv` adds that a model's key exists exactly while it counts something and never
outlives the account's key, so it is never the account's counter that dies alone. `SumProofs` has the facts
about sums over finite sets that this needs (a sum exists, any term may be split off,
changing one term changes the sum by as much). They are proved by induction, in the
form `SetInduction`: over a set of naturals instead of an operator parameter, which the
provers cannot instantiate.

### Conductor

Assumed: `ConductorAssumption` (finitely many requests and reservations, processes
that draw different ids, typed tables).

`SlotsAccounted` compares the trackers' contents with the requests being served,
although `pop` gives a request *some* reservation of its account and model.
`ConductorInv` therefore never says whose reservation is whose. It has `Types`;
`Holdings`: a reservation in a request's hand or in a tracker is held, of the right
process and account, and in no second place, and every held one is in some such place;
and `SlotsCounted`: per process, account and model there are as many reservations
tracked as requests served. Each step moves one reservation between a hand, a tracker
and nowhere, or none.

`RefinesRedis` shows that each step is a step of RedisRuntime or leaves its variables
alone. Together with `CapCorrect` this says that `max_in_flight` bounds the leases of
the whole proxy for any number of processes and requests and any of the faults.
`NoLeaseOrphaned` needs `OwnedLeases` (no live lease without a holder) on top.

Two theorems have hypotheses on the constants, which are the limits of what the code
promises and not of the proof. `BindingIsSticky`: requests of one session come one
after another and neither Redis nor clients fail; two first requests at once may each
bind, and a request whose lookup failed does not know that there is a binding. The
invariant is `UnboundUntilBind`: who is going to bind still finds the session unbound.
`LongRequestsRenewed`: no two requests of a process have the same model (otherwise `pop`
can hand one the other's reservation; `conductor_swap` shows it), and a lease of more
than one tick, since renewal comes after a third of it. The invariant is `KeptAlive`: what
a running request has tracked has a live lease and a renewal goroutine under that
request's context. `conductor_shared` is an instance of both sets of hypotheses.

### Message stream

Assumed: `MessageStreamAssumption`; event streams of any length.

What the client has is the gate's buffer once promoted, so the invariant is about the
writer behind the gate. Within an attempt it is first `InAnswer` (started or not, at most one
block open, the next index right), then `Closed` (nothing may follow); one lemma per
writer operation says that it keeps the former or leads to the latter. `StreamInv` says
which of them holds at which place of the handler (`Calling`, `Reading`, `Ended`,
`Returned`), and that nothing has reached the client at a place from which a retry is
possible. The six properties are read off it.

### Accounts

Assumed: `AccountsAssumption` (typed import files, room in memory for one object per
account, `None` is neither an object nor an account record).

`StoreSettles` and `NewestTokenKept` speak of the object in the pool; what breaks them is
a goroutine that works on another object of the same account or on an outdated copy of
its token. `AccountsInv` therefore has `Refs` (nobody points at freed memory),
`Goroutines` (each has what its next step needs), `OneObject` (an id that is not
`aliased` has one object, so everybody works on it) and `NewestTracked`: the newest
token is in the object, and nobody else has been issued one, or exactly one goroutine
has it and all who still ask do so with a token the provider no longer accepts. `Init`
and `Restart` lead to the same kind of state, `FreshStart`.

### Accounting

Assumed: `SettingsAssumption`, `UsageAssumption`, `AccountingAssumption`, and
`InitialAssumption`: documents found at the first start come from a run that kept within the
overshoot bound, as every later start's does by the theorem itself.

`AccountingInv` has `SettingsInv` (both the served and the stored document agree with what
was charged, up to unanswered saves, and with the highest quota a key had),
`ReqInv` (a request has its own trace and is published once), `UsageInv` (an accepted
record is in the channel, in the writer's hand, stored or failed; the writer ends only
with the channel closed and empty), `RingInv` (slot `i` from the newest has the `i`-th newest
trace; a record that the ring does not have is no younger than those it has) and
`OvershootBounded`, which is inductive with what a request passed when it was let in. `QueryComplete`
follows from the last part of `RingInv`.

`RingKeepsNewest` compares the ring with the sequence of what was published: slot by slot it
is `RingInv`. `RecentComplete` is about `Recent`, which takes the ring's newest records and
fills up from the table with those whose trace the ring does not have, the newest first. It
needs `TraceInv` on top: the table, the channel and the writer's hand have each trace once, a record of the ring
with a trace on its way is that record, and a request that has not published has
none anywhere. The argument is then about lists: the ring's answer is a list of distinct
records in order; so is the table's, where a record's rank is the number of rows before it
in the `ORDER BY`; and when the table's answer was cut at the limit, it has more new records
than there is room for (a pigeonhole on the ring's at most so many), so that nothing is missed
behind the cut. The attempt to prove it showed that the admin endpoint serves a limit above 1000 as 100,
so the property is stated, and true, for limits up to 1000 only.

`RollupsAddUp` holds of any finite set of records: the first part of AccountingProofs shows that each column of a
cell is a sum of what its records contribute (one, one if successful, the tokens) and that
the parts of a set by value add up to the whole (`SumByValue`). A record of the window has
a bucket because the number of buckets is rounded up.

### Request pipeline

Assumed: `PipelineAssumption` (workloads name a mode and whether to stream, the bounds
on rounds are at least 2), `InputAssumption` (what `validateRequest` and `NewContext` let
through: conversations are not empty, no tool is both active and deferred),
`ReportsAssumption` (profiles have the fields and the signs that `Normalized` gives them) and
`PromptCacheAssumption`.

*Rounds.* `PipelineInv` says for each request where it is, which rounds are behind it and that it
has counted each of them once, those excepted that it has withheld (`StateOK`), and the same of the
answers given (`AnswerOK`). Every action is shown to *move* one request: its new
state is in order and it is done or has less left to do (runs, then rounds, attempts,
stages), which gives both theorems at once. `RequestsRunOut` is the safety part of
termination: with weak fairness of the requests' steps, it makes every request end.

*Conversion.* ReqConvProofs follows a conversation through `Normalize`, `SplitMessages`, `BuildHistory`,
`PlaceSystemPrompt` and `BuildCurrentMessage`. `PayloadAccepted` carries along `InOrder` (the
messages are user's and assistant's, and name no further tools) and `Linked` (a user's
results have their uses in the message before, whose ids are distinct). Merging is where
this could break, and does not because only plain messages are merged. `NothingLost`
carries along a map from the client's messages to the present ones (`Moved`): monotone,
what a message tells is told, by the same side, where the map leads, and what is said
anywhere comes from a message that the map leads there; the maps of the steps compose.
The fillers and the closing "Continue" say nothing, and the system prompt's entries come
before all others or its text joins the current message. Merging and spacing are recursive functions of the number of
messages done; that they exist and what they satisfy is proved by `SetInduction` (`Grows`: the map
of the messages done so far extends to one more).

`PayloadsWellFormed` and `PlacesStay` lift both to every payload a request sends. `TalkInv` says
that the messages so far, those of the loops included, are a conversation, that what
a search has named is offered, and that a tool is offered or deferred, not both. The
hypotheses are limits of what the code promises. `RegularClients`: the uses of a message have
distinct ids, results come from users, and texts refer to tools only within results and
only to the request's own. `ClientsAnswerOnce`: of several results for one use in a message all
but the last are dropped. In mode `"noack"` two user entries begin the history. The runs' workloads
satisfy the hypotheses (`MCRegularClients`, `MCClientsAnswerOnce`, evaluated by TLC).

*Cache.* `CacheInv` ties the tracker to the ledger: the entries are part of it, within the limits, and
an entry of the ledger that lives is still there unless a limit has evicted something; `PlanInv` says that
a request has a plan only between the response and its answer and only for a profile that
promises tokens, and what the report says of the answer just given. Plans and commits of different requests interleave
with prunings and sweeps in every order. `ReadsBacked` follows in both directions.

*Report.* `ReportsConsistent` is arithmetic on the integers, division included, through sampling, scaling,
capping and moving; where a profile has no cap, the largest scale bounds what the simulation adds, which gives
the property its `3 * input`.

Two places of the model changed because a proof did not go through: the cases of `PlaceSystemPrompt`
overlapped, so that which one applied was not determined, and the read ratio was not clamped
to 99 as the code clamps it.

### Only model-checked

- Liveness (`QuietAccountDrains`, `GrantedRequestEnds`, `QuietMeansDrained`,
  `BannedGetsDisabled`): fairness and `ENABLED` are outside what the prover handles.
- `TextKept`: the exact sequence of the texts is a fact about the checked conversations and not
  about all. What holds of every conversation is `PlacesKept`, and that is proved.

## 6. Disagreements between documents and code

1. `redis_leak`: the README's scheduling section says crashed requests "eventually
   release capacity". The lease key of a crashed request expires but its count does
   not: only the counter's own expiry removes it, and every reserve and renewal of
   another request on the account refreshes that expiry. With steady traffic the
   slot stays taken. (An account without traffic does drain: `QuietAccountDrains`.)
2. `conductor_swap`: the migration audit says a long SSE request keeps extending
   its reservation. `reservationTracker.pop` returns the last reservation of the
   account and model, so a shorter request of the same process, account and model
   releases the longer one's reservation and stops its renewal.
3. `accounts_import`: the comment on the import endpoint says that append mode skips
   entries whose id exists. An entry without access token is refreshed, and thereby
   saved, before the duplicate check: the existing account's row is overwritten, and
   with a rotating provider the pool's own refresh token is void.
4. `message_stream_outcome`: the comment on `executeWithRetry` says its error is nil
   when the call succeeded. Errors answered inside the response handlers, and
   streams of which nothing passed the gate, come back as nil too.

## 7. What is left out

- Conductor: the mode without Redis and region hints; `MaxInFlight` and the lease TTL
  are constants, the same in all processes. Selector strategies that depend on their
  own counters or on chance are "any ready account". Backoff levels are one duration.
  A session's binding TTL is an expiry at any time.
- MessageStream: text, usage numbers, headers; request decoding; the thinking tool
  counts as thinking.
- RedisRuntime: a cooldown's length is any number of ticks up to `CooldownTTL`.
- Accounts: one process (the scheduling document names refreshes by several instances
  as an open risk); a provider rotates always or never; a save is atomic, as its
  transaction is. `aliased` ids are exempt from `StoreSettles` and `NewestTokenKept`.
- Accounting: one process. Two would overwrite each other's settings documents.
- RequestPipeline: hashing and canonical JSON (a fingerprint is the prefix itself),
  schema sanitising, tool-name shortening, images, web search, the SSE blocks the
  loops write, and `THINKING_TOOL_CONTINUE=assistant_only`. The run has the system
  prompt as an exchange of its own; the other modes are modelled and covered by the
  theorems. The conversations of the runs have at most one
  result per tool use and message.
- OAuth login, dashboard, logging, tracing, flags, HTTP routing: glue and I/O; a
  login ends in the account creation that Accounts models.

Known behaviour without a property, because no document or comment says what should
happen, or because the part around it is not modelled:

- a success reported late clears a cooldown or auth block set by another request
  meanwhile; `SetEnabled(false)` reaches only its own process; `SetEnabled(true)`
  leaves the model's cooldown keys; two first requests of a session in different
  processes may each bind it;
- the pick loop picks an account that another process is cooling again and again
  until the cooldown ends: the local state does not know the Redis key;
- when the save of an edit fails, `Register(before)` also puts back the tokens of
  before, losing a refresh that came in between;
- a provider that rotates only sometimes would let an older answer overwrite the
  newest token;
- `Recent` answers in the order of publication, not of timestamps; `Query` asks the
  ring by its oldest slot, which a request that ends late can make too young
  (`reordered`); requests that outlive the 30 seconds of the shutdown reach the ring
  only; the middleware reads the settings twice (is a validator configured, is the
  key valid);
- the streaming loops report the last round's cache reads, the buffered ones the sum;
  a withheld round is charged when streaming and not when buffered;
- after a rejected tool call in a streaming loop the gate is emptied while the writer
  stays started, so the retried stream has no `message_start`; `ResetAccumulator`
  forgets an open block without closing it;
- at the tracker's limit a new five-minute entry can be evicted at once, because
  eviction goes by expiry.

## 8. Plan

Done: LeaseLimiter, RedisRuntime, Conductor, MessageStream, Accounts, Settings, Usage,
Accounting, ReqConv, PromptCache, UsageReport, RequestPipeline, and the proofs of section 5.
Next, in this order:

1. Proofs. How often and in which order the texts of one message appear in the
   payload (`KeepsPlaces` says where and by whom).
2. The writer inside the loops: MessageStream over several rounds of one response.
3. Two processes in Accounts and Accounting, once the code coordinates them.
4. OAuth login: one-time state, capture server and status polling.
5. Conductor: region hints and the mode without Redis.
