----------------------------- MODULE Accounting -----------------------------
(***************************************************************************)
(* A request from the API key check to the charge: server.authMiddleware   *)
(* admits or rejects it, HandleMessages serves it, and its recordMetric    *)
(* publishes one usage record and charges the key.  The operator edits     *)
(* the keys meanwhile, PostgreSQL fails now and then, and the process is   *)
(* stopped, killed and started again.                                      *)
(*                                                                         *)
(* The service itself (the account pool, the retries, the response) is     *)
(* Conductor's and MessageStream's; here it ends in one of its outcomes.   *)
(***************************************************************************)
EXTENDS Settings, Usage

CONSTANTS
    Requests,     \* requests in flight at once
    LegacyKey,    \* -api-key: TRUE if one is configured
    Answers,      \* how a served request may end: [status, tokens]
    EarlyReturns, \* statuses of the early returns of HandleMessages
    MaxTokens,    \* bound: tokens of an answer
    MaxTraces,    \* bound: requests in a behaviour
    MaxTime,      \* bound: the clock
    MaxEdits,     \* bound: operations of the operator
    MaxFaults,    \* bound: failed and lost saves, crashes
    MaxEvents     \* bound: requests, operations and faults together

Statuses == {"success", "invalid_request", "rate_limited", "auth_error", "upstream_error"}

ASSUME AccountingAssumption ==
    /\ IsFiniteSet(Requests) /\ LegacyKey \in BOOLEAN
    /\ {MaxTokens, MaxTraces, MaxTime, MaxEdits, MaxFaults, MaxEvents} \subseteq Nat
    /\ Answers \subseteq [status : Statuses, tokens : 0..MaxTokens]
    /\ EarlyReturns \subseteq Statuses \ {"success"}

\* The documents of earlier runs keep within what OvershootBounded allows.
ASSUME InitialAssumption ==
    \A doc \in Initial \ {None} : \A k \in DOMAIN doc.keys : doc.keys[k].quota > 0 =>
        doc.keys[k].used < doc.keys[k].quota + MaxTokens * Cardinality(Requests)

VARIABLES
    now,       \* time.Now
    process,   \* "down", "up", "stopping" (no new requests), "closing"
    req,       \* the requests in flight: [pc, key, start, trace, tokens]
    traces,    \* trace ids given out
    edits, faults,
    published  \* history: traces of the records published since the start

vars == <<settingsVars, usageVars, now, process, req, traces, edits, faults, published>>

Idle == [pc |-> "idle", key |-> None, start |-> 0, trace |-> 0, tokens |-> 0]

Init ==
    /\ SettingsInit
    /\ UsageInit
    /\ now = 0
    /\ process = "down"
    /\ req = [r \in Requests |-> Idle]
    /\ traces = 0
    /\ edits = 0 /\ faults = 0
    /\ published = <<>>

Serving == {"serving", "charging"}
InFlight(k) == {r \in Requests : req[r].pc \in Serving /\ req[r].key = k}

\* Whether another request, operation or fault fits in the bounds.
More == traces + edits + faults < MaxEvents

\* What a save may come to while faults are left.
Outcomes == {"saved"} \cup (IF faults < MaxFaults /\ More THEN {"failed", "lost"} ELSE {})
Count(outcome) == faults' = IF outcome = "saved" THEN faults ELSE faults + 1

----------------------------------------------------------------------------
(* Requests *)

\* publishUsage fills in the start of the request; a rejection is stamped with
\* the current time.  Only the key check knows the device; the account is known
\* once one was acquired, the model once the body was read.
PublishFor(r, status, tokens, where) ==
    /\ Publish([trace  |-> req[r].trace,
                ts     |-> IF where = "auth" THEN now ELSE req[r].start,
                cred   |-> IF where = "served" THEN "account" ELSE "none",
                model  |-> IF where = "auth" \/ status = "invalid_request" THEN "none" ELSE "model",
                key    |-> req[r].key,
                device |-> IF where = "auth" \/ req[r].key # None THEN "device" ELSE "none",
                status |-> status,
                tokens |-> tokens])
    /\ published' = Append(published, req[r].trace)

Ends(r) == req' = [req EXCEPT ![r] = Idle]

\* authMiddleware, first look: without keys every request is served, without
\* keys in the settings only the -api-key value is accepted.
Arrive(r) ==
    /\ process = "up"
    /\ req[r].pc = "idle"
    /\ traces < MaxTraces /\ More
    /\ traces' = traces + 1
    /\ req' = [req EXCEPT ![r] = [Idle EXCEPT
                 !.pc = IF ValidatorOn THEN "auth" ELSE IF LegacyKey THEN "legacy" ELSE "serving",
                 !.start = IF LegacyKey \/ ValidatorOn THEN 0 ELSE now,
                 !.trace = traces + 1]]
    /\ UNCHANGED <<settingsVars, usageVars, now, process, edits, faults, published>>

\* The -api-key value; its request has no key id.
AuthLegacy(r) ==
    /\ LegacyKey
    /\ req[r].pc \in {"auth", "legacy"}
    /\ req' = [req EXCEPT ![r].pc = "serving", ![r].start = now]
    /\ UNCHANGED <<settingsVars, usageVars, now, process, traces, edits, faults, published>>

\* A bearer token that is one of the keys' values.
Auth(r, secret) ==
    LET answer == ValidateAPIKey(secret, now)
    IN  /\ req[r].pc = "auth"
        /\ answer.verdict = "ok"
        /\ req' = [req EXCEPT ![r].pc = "serving", ![r].key = answer.id, ![r].start = now]
        /\ UNCHANGED <<settingsVars, usageVars, now, process, traces, edits, faults, published>>

RejectStatus(verdict) == IF verdict = "over_quota" THEN "rate_limited" ELSE "auth_error"

\* recordRejectedMessageUsage and 401 or 429; None is a missing header.
Reject(r, secret) ==
    LET verdict == IF secret = None \/ req[r].pc = "legacy" THEN "not_found"
                   ELSE ValidateAPIKey(secret, now).verdict
    IN  /\ req[r].pc \in {"auth", "legacy"}
        /\ verdict # "ok"
        /\ PublishFor(r, RejectStatus(verdict), 0, "auth")
        /\ Ends(r)
        /\ UNCHANGED <<settingsVars, now, process, traces, edits, faults>>

\* HandleMessages returns early: the body is invalid, the provider is not Kiro,
\* no account is ready, the account's token cannot be refreshed.
ReturnEarly(r, status) ==
    /\ req[r].pc = "serving"
    /\ PublishFor(r, status, 0, "early")
    /\ Ends(r)
    /\ UNCHANGED <<settingsVars, now, process, traces, edits, faults>>

\* Only a successful answer of a request with a key is charged.
Charges(r, status, tokens) == status = "success" /\ req[r].key # None /\ tokens > 0

\* recordMetric: the outcome and the record.  An answer that failed half way
\* has used tokens as well.
RecordMetric(r, status, tokens) ==
    /\ req[r].pc = "serving"
    /\ PublishFor(r, status, tokens, "served")
    /\ IF Charges(r, status, tokens)
       THEN req' = [req EXCEPT ![r].pc = "charging", ![r].tokens = tokens]
       ELSE Ends(r)
    /\ UNCHANGED <<settingsVars, now, process, traces, edits, faults>>

\* The charge, after the record; an error is only logged.
Charge(r, outcome) ==
    /\ req[r].pc = "charging"
    /\ AddAPIKeyUsage(req[r].key, req[r].tokens, outcome)
    /\ Count(outcome)
    /\ Ends(r)
    /\ UNCHANGED <<usageVars, now, process, traces, edits, published>>

----------------------------------------------------------------------------
(* The operator: handlers_settings.go *)

Patches == {[enabled |-> e, expires |-> None, quota |-> None] : e \in BOOLEAN}
       \cup {[enabled |-> None, expires |-> x, quota |-> None] : x \in Expiries}
       \cup {[enabled |-> None, expires |-> None, quota |-> q] : q \in Quotas}

handleAPIKeysCreate(outcome) ==
    \E k \in KeyIds, s \in Secrets, x \in Expiries, q \in Quotas : AddAPIKey(k, s, x, q, outcome)
handleAPIKeyUpdate(outcome) ==
    \E k \in KeyIds, patch \in Patches : UpdateAPIKey(k, patch, outcome)
handleAPIKeyRotate(outcome) == \E k \in KeyIds, s \in Secrets : RotateAPIKey(k, s, outcome)
handleAPIKeyDelete(outcome) == \E k \in KeyIds : DeleteAPIKey(k, outcome)
handleSettingsPut(outcome)  == \E reports \in Reports : PutSettings(reports, outcome)

Edit(outcome) ==
    \/ handleAPIKeysCreate(outcome)
    \/ handleAPIKeyUpdate(outcome)
    \/ handleAPIKeyRotate(outcome)
    \/ handleAPIKeyDelete(outcome)
    \/ handleSettingsPut(outcome)

Operator ==
    /\ process \in {"up", "stopping"}
    /\ edits < MaxEdits /\ More /\ edits' = edits + 1
    /\ \E outcome \in Outcomes : Edit(outcome) /\ Count(outcome)
    /\ UNCHANGED <<usageVars, now, process, req, traces, published>>

----------------------------------------------------------------------------
(* The process *)

Start ==
    /\ process = "down"
    /\ process' = "up"
    /\ newWithBackend
    /\ NewAggregator
    /\ UNCHANGED <<now, req, traces, edits, faults, published>>

\* SIGTERM: Shutdown refuses new connections and waits for the open ones, at
\* most 30 seconds, after which main returns and its deferred calls run.
Stop ==
    /\ process = "up"
    /\ process' = "stopping"
    /\ UNCHANGED <<settingsVars, usageVars, now, req, traces, edits, faults, published>>

CloseAggregator ==
    /\ process = "stopping"
    /\ process' = "closing"
    /\ CloseChannel
    /\ UNCHANGED <<settingsVars, now, req, traces, edits, faults, published>>

Gone ==
    /\ process' = "down"
    /\ SettingsDown
    /\ UsageDown
    /\ req' = [r \in Requests |-> Idle]
    /\ published' = <<>>

CloseUsage ==
    /\ process = "closing"
    /\ CloseStore
    /\ UNCHANGED <<settingsVars, now, process, req, traces, edits, faults, published>>

Exit ==
    /\ process = "closing" /\ ~open
    /\ Gone
    /\ UNCHANGED <<now, traces, edits, faults>>

Crash ==
    /\ process # "down"
    /\ faults < MaxFaults /\ More /\ faults' = faults + 1
    /\ Gone
    /\ UNCHANGED <<now, traces, edits>>

Tick ==
    /\ now < MaxTime
    /\ now' = now + 1
    /\ UNCHANGED <<settingsVars, usageVars, process, req, traces, edits, faults, published>>

Take == WriterTakes /\ UNCHANGED <<settingsVars, now, process, req, traces, edits, faults, published>>
Finish == WriterEnds /\ UNCHANGED <<settingsVars, now, process, req, traces, edits, faults, published>>
Write ==
    /\ \E outcome \in Outcomes \ {"lost"} : WriterAppends(outcome) /\ Count(outcome)
    /\ UNCHANGED <<settingsVars, now, process, req, traces, edits, published>>

Next ==
    \/ \E r \in Requests : Arrive(r) \/ AuthLegacy(r)
    \/ \E r \in Requests, s \in Secrets : Auth(r, s)
    \/ \E r \in Requests, s \in Secrets \cup {None} : Reject(r, s)
    \/ \E r \in Requests, status \in EarlyReturns : ReturnEarly(r, status)
    \/ \E r \in Requests, a \in Answers : RecordMetric(r, a.status, a.tokens)
    \/ \E r \in Requests, outcome \in Outcomes : Charge(r, outcome)
    \/ Operator
    \/ Start \/ Stop \/ CloseAggregator \/ CloseUsage \/ Exit \/ Crash
    \/ Tick \/ Take \/ Finish \/ Write

Spec == Init /\ [][Next]_vars

----------------------------------------------------------------------------
(* Properties *)

Records == [trace : 1..MaxTraces, ts : 0..MaxTime, cred : {"account", "none"},
            model : {"model", "none"}, key : KeyIds \cup {None},
            device : {"device", "none"}, tokens : 0..MaxTokens, status : Statuses]

TypeOK ==
    /\ \A doc \in {cur, row} \ {None} : IsDocument(doc)
    /\ (cur = None) = (process = "down")
    /\ ring.buf \in Seq(Records) /\ Len(ring.buf) <= RingSize /\ ring.head \in 0..RingSize - 1
    /\ writes \in Seq(Records) /\ Len(writes) <= BufferSize
    /\ writer \in {"waiting", "appending", "done"}
    /\ inHand \in Seq(Records) /\ Len(inHand) = IF writer = "appending" THEN 1 ELSE 0
    /\ stored \in Seq(Records)
    /\ process \in {"down", "up", "stopping", "closing"}
    /\ \A r \in Requests :
         /\ req[r].pc \in {"idle", "auth", "legacy", "serving", "charging"}
         /\ req[r].key \in KeyIds \cup {None}
         /\ req[r].tokens \in 0..MaxTokens
         /\ req[r].pc = "charging" => req[r].key # None

\* settings.go, Update: what the process serves from is what a restart will
\* load, unless the answer to its last save got lost; and it can be loaded.
SettingsSurvive ==
    cur # None => Loadable(row) /\ (~unsure => row = cur)

\* api_keys.go, AddAPIKeyUsage: no acknowledged charge is lost and none is made
\* up, through edits, rotations, failed saves, crashes and restarts; only a
\* charge whose save went unanswered may count or not.
ChargesAddUp ==
    \A doc \in {cur, row} \ {None} : \A k \in DOMAIN doc.keys :
        /\ charged[k] <= doc.keys[k].used
        /\ doc.keys[k].used <= charged[k] + doubtful[k]

\* middleware.go checks the quota before the request, handler.go charges after
\* it: a key's use passes its quota by no more than the requests that were in
\* flight together, those still in flight included.
OvershootBounded ==
    cur # None =>
      \A k \in DOMAIN cur.keys : peak[k] > 0 =>
        cur.keys[k].used + MaxTokens * Cardinality(InFlight(k))
          < peak[k] + MaxTokens * Cardinality(Requests)

\* aggregator.go, Close: when it returns, every record that was accepted is in
\* PostgreSQL or its append was tried and failed, although requests that
\* outlived the shutdown's 30 seconds go on publishing.
ShutdownDrains ==
    process = "closing" /\ ~open => accepted \subseteq ToSet(stored) \cup failed

\* store_memory.go: the ring always holds the newest records published, newest
\* first, however often it has wrapped, and no request is recorded twice.
RingKeepsNewest ==
    LET newest == FirstN(Reverse(published), RingSize)
        got    == MemoryRecent(ring, NoFilter, RingSize)
    IN  /\ process # "down" => newest = [i \in 1..Len(got) |-> got[i].trace]
        /\ IsInjective(published)

Filters == {[status |-> {}, key |-> {}], [status |-> {"success"}, key |-> KeyIds]}

\* aggregator.go, Recent: ring and table together answer without duplicates,
\* never with more than asked for, and an answer with fewer leaves out nothing
\* that either of them holds.
RecentComplete ==
    process # "down" =>
      \A filter \in Filters, limit \in (1..MaxTraces) \cap (1..1000) :
        LET out   == handleUsageRecent(filter, limit)
            known == {x \in ToSet(ring.buf) \cup ToSet(stored) : matchFilter(x, filter)}
        IN  /\ Len(out) <= limit
            /\ Cardinality({out[i].trace : i \in 1..Len(out)}) = Len(out)
            /\ ToSet(out) \subseteq known
            /\ Len(out) < limit => ToSet(out) = known

Windows == [start : 0..now, end : {now + 1}, bucket : {2}]

\* aggregator.go, Query: the ring is asked only about windows it covers, through
\* wraps, restarts and dropped writes: no stored record of the window is missed.
\* A request that is published after one that started later voids this (the
\* oldest slot is then not the oldest record).  Records with the very timestamp
\* of the oldest slot are left out: the clock of the code counts nanoseconds.
QueryComplete ==
    process # "down" /\ ~reordered =>
      \A window \in Windows : useMem(window) =>
        {x \in ToSet(stored) : inWindow(x, window) /\ x.ts # Oldest(ring)}
          \subseteq ToSet(ring.buf)

\* store_memory.go, store_postgres.go: the cells of every dimension and the
\* buckets of the timeline add up to the totals, with the records of rejected
\* requests and the part of a bucket that a window may end with.
RollupsAddUp ==
    process # "down" =>
      \A agg \in {Query(NoFilter, window) : window \in Windows} :
        LET AddsUp(rows) == Merged(rows, DOMAIN rows) = agg.totals
        IN  /\ \A group \in {"model", "api_key", "device"} : AddsUp(handleUsage(group, agg))
            /\ AddsUp(handleUsageTimeline(agg))
============================================================================
