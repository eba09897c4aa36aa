------------------------------ MODULE Accounts ------------------------------
(***************************************************************************)
(* Account records and the three places they live: the objects of the      *)
(* process's pool (internal/pool), the rows of PostgreSQL                  *)
(* (internal/storage/postgres.go) and the token the identity provider      *)
(* accepts next (internal/auth, internal/provider).                        *)
(*                                                                         *)
(* Goroutines of three kinds hold pointers to account objects across       *)
(* network calls: requests (maybeRefresh), quota checks (internal/quota,   *)
(* POST /admin/accounts/{id}/refresh) and the account endpoints of the     *)
(* admin server (internal/admin/handlers_mutate.go).  The saves that the   *)
(* scheduler starts are goroutines of their own.  An object that is        *)
(* replaced or removed lives on as long as somebody points at it.          *)
(*                                                                         *)
(* A save is one step: saveCredentialTx reads the object under its lock    *)
(* while the row's lock is taken, so neither can change in between.        *)
(***************************************************************************)
EXTENDS Integers, Sequences, FiniteSets, SequencesExt, FiniteSetsExt

CONSTANTS
    Ids,
    Workers,      \* goroutines other than saves; a slot serves one after another
    Duties,       \* [Workers -> SUBSET {"request", "poll", "admin"}]
    Initial,      \* accounts in PostgreSQL at the start
    Imports,      \* bodies of POST /admin/accounts/import: [mode, entries],
                  \* an entry is [id, access, refresh, profile, apiKey,
                  \* maxInFlight], the middle four saying what it contains
    Rotating,     \* accounts whose provider rotates refresh tokens
    MaxObjs,      \* bound: account objects alive at once
    MaxToken,     \* bound: token rotations of an account
    MaxSaves,     \* bound: saves of one object under way at once
    MaxEdits,     \* bound: operations of the operator
    Faults,       \* subset of {"store", "lost", "net", "crash", "ban"}
    MaxFaults,    \* bound: faults in a behaviour
    MaxEvents,    \* bound: operations, faults and bans together
    None

Objs == 1..MaxObjs

\* Credential, as far as it matters here.
Cred == [id : Ids, tok : 0..MaxToken, label : 0..1, disabled : BOOLEAN, dirty : BOOLEAN]

Entry == [id : Ids, access : BOOLEAN, refresh : BOOLEAN, profile : BOOLEAN,
          apiKey : BOOLEAN, maxInFlight : Int]

ASSUME AccountsAssumption ==
    /\ Duties \in [Workers -> SUBSET {"request", "poll", "admin"}]
    /\ Initial \subseteq Ids /\ Rotating \subseteq Ids
    /\ \A b \in Imports : b.mode \in {"append", "replace"} /\ b.entries \in Seq(Entry)
    /\ {MaxObjs, MaxToken, MaxSaves, MaxEdits, MaxFaults, MaxEvents} \subseteq Nat
    /\ MaxSaves >= 2
    /\ ExistsInjection(Ids, Objs)    \* room for one object of every account
    /\ None \notin Objs \cup Cred
    /\ Faults \subseteq {"store", "lost", "net", "crash", "ban"}

VARIABLES
    heap,      \* account objects: [id, tok, label, disabled, dirty]
    pool,      \* DefaultScheduler.creds
    row,       \* the tables accounts and account_credentials
    pending,   \* persistCredentialAsync goroutines, by object
    work,      \* what each goroutine is doing
    round,     \* refreshAll: the objects it has not come to yet
    backoff,   \* DefaultPoller.backoff: accounts whose wait has not run out
    issued,    \* the newest refresh token the provider has issued
    banned,    \* accounts the provider has banned
    edits, faults,
    \* history
    aliased,   \* ids that had more than one object since the process started
    lost       \* ids whose newest token reached nobody

vars == <<heap, pool, row, pending, work, round, backoff, issued, banned,
          edits, faults, aliased, lost>>

\* A goroutine: its step, what it works for, the object it points at, the token
\* it sent or was given, and the locals of the admin handlers.
Idle == [pc |-> "idle", for |-> "none", obj |-> None, tok |-> 0, id |-> None,
         before |-> None, mode |-> "none", entries |-> <<>>, prepared |-> {},
         rejected |-> FALSE]

Go(w, pc) == work' = [work EXCEPT ![w].pc = pc, ![w].tok = 0]
Done(w)   == work' = [work EXCEPT ![w] = Idle]
Begin(w, duty, g) ==
    /\ work[w] = Idle
    /\ duty \in Duties[w]
    /\ work' = [work EXCEPT ![w] = g]

Pooled == {i \in Ids : pool[i] # None}

\* saveCredentialTx: everything the process holds about the account.
RowOf(c) == [tok |-> c.tok, label |-> c.label, disabled |-> c.disabled]

\* PostgresAccountStore.Load: a row as an object.
FromRow(i, r) == [id |-> i, tok |-> r.tok, label |-> r.label,
                  disabled |-> r.disabled, dirty |-> FALSE]

\* Objects somebody points at; the others are collected.
Live == {o \in Objs : \/ o \in round \/ pending[o] > 0
                      \/ \E i \in Ids : pool[i] = o
                      \/ \E w \in Workers : work[w].obj = o \/ o \in work[w].prepared}

Heap(h) == heap' = [o \in Objs |-> IF o \in Live' THEN h[o] ELSE None]
Collect == Heap(heap)

\* An object not in use.
Free == {o \in Objs : heap[o] = None}
Fresh == CHOOSE o \in Free : TRUE

\* Whether a new object for account i is not the only one.
HasTwin(i) == row[i] # None \/ \E o \in Objs : heap[o] # None /\ heap[o].id = i

EventsLeft == edits + faults + Cardinality(banned) < MaxEvents
Fault(f) == f \in Faults /\ EventsLeft /\ faults < MaxFaults /\ faults' = faults + 1
Edit == EventsLeft /\ edits < MaxEdits /\ edits' = edits + 1

\* Start-up: buildPool loads the rows and registers them.
Loaded(r) == LET new == CHOOSE f \in Injection(Ids, Objs) : TRUE
             IN  [i \in Ids |-> IF r[i] = None THEN None ELSE new[i]]

HeapOf(r) == [o \in Objs |-> IF \E i \in Ids : Loaded(r)[i] = o
                             THEN LET i == CHOOSE i \in Ids : Loaded(r)[i] = o
                                  IN  FromRow(i, r[i])
                             ELSE None]

Init ==
    /\ row = [i \in Ids |-> IF i \in Initial
                            THEN [tok |-> 0, label |-> 0, disabled |-> FALSE]
                            ELSE None]
    /\ pool = Loaded(row)
    /\ heap = HeapOf(row)
    /\ pending = [o \in Objs |-> 0]
    /\ work = [w \in Workers |-> Idle]
    /\ round = {}
    /\ backoff = {}
    /\ issued = [i \in Ids |-> 0]
    /\ banned = {}
    /\ edits = 0 /\ faults = 0
    /\ aliased = {} /\ lost = {}

-----------------------------------------------------------------------------
(* Saving.                                                                 *)

\* SaveOne(o) as step of the goroutine that called it: the row, or an error.
SaveOne(o) ==
    /\ row' = [row EXCEPT ![heap[o].id] = RowOf(heap[o])]
    /\ Heap([heap EXCEPT ![o].dirty = FALSE])
    /\ UNCHANGED faults

SaveFails(o) ==
    /\ Fault("store")
    /\ Heap([heap EXCEPT ![o].dirty = TRUE])
    /\ UNCHANGED row

\* persistCredentialAsync: one goroutine per call; a failure is only logged.
Async(o, n) == pending' = [pending EXCEPT ![o] = Min({@ + n, MaxSaves})]

AsyncSave(o) ==
    /\ pending[o] > 0
    /\ pending' = [pending EXCEPT ![o] = @ - 1]
    /\ UNCHANGED <<pool, work, round, backoff, issued, banned, edits, aliased, lost>>
    /\ SaveOne(o) \/ SaveFails(o)

\* Mutant: only the credentials are deleted, the account's row stays.
DeleteCredentialsOnly(i) == row' = [row EXCEPT ![i].tok = None] /\ Collect

\* Delete and SaveAll change rows that no object stands behind any more.
Delete(i) == row' = [row EXCEPT ![i] = None] /\ Collect

SaveAll ==
    /\ row' = [i \in Ids |-> IF i \in Pooled THEN RowOf(heap[pool[i]]) ELSE None]
    /\ Heap([o \in Objs |-> IF o \in {pool[i] : i \in Pooled}
                            THEN [heap[o] EXCEPT !.dirty = FALSE] ELSE heap[o]])

-----------------------------------------------------------------------------
(* Token refresh: MultiRefresher.Refresh and Provider.RefreshToken.        *)

\* The tokens are copied under the lock and sent.  (When they are copied does
\* not matter: whoever refreshes may as well have decided to at that moment.)
RefreshToken(g, c) == [g EXCEPT !.pc = "sent", !.tok = c.tok]

\* The caller goes on without new tokens: a request uses the old ones, a quota
\* check has failed, an imported entry is rejected.
Refused(w) ==
    CASE work[w].for = "request" -> Go(w, "upstream")
      [] work[w].for \in {"poll", "check"} -> Go(w, "failed")
      [] work[w].for = "import" ->
            work' = [work EXCEPT ![w].pc = "import", ![w].tok = 0, ![w].obj = None,
                                 ![w].rejected = TRUE, ![w].entries = Tail(@)]

\* The provider accepts its newest refresh token only, and answers with a new
\* one or, where it does not rotate, with none: RefreshTokens then keeps the old.
RefreshTokens(w) ==
    /\ work[w].pc = "sent"
    /\ UNCHANGED <<pool, row, pending, round, backoff, banned, edits, aliased>>
    /\ LET i == heap[work[w].obj].id
           valid == work[w].tok = issued[i]
           rotates == i \in Rotating /\ issued[i] < MaxToken
       IN  \/ /\ valid
              /\ issued' = [issued EXCEPT ![i] = IF rotates THEN @ + 1 ELSE @]
              /\ work' = [work EXCEPT ![w].pc = "answered", ![w].tok = issued'[i]]
              /\ UNCHANGED <<heap, faults, lost>>
           \/ /\ ~valid
              /\ Refused(w)
              /\ Collect
              /\ UNCHANGED <<issued, faults, lost>>
           \/ /\ Fault("lost")    \* the answer does not arrive
              /\ valid /\ rotates
              /\ issued' = [issued EXCEPT ![i] = @ + 1]
              /\ lost' = lost \cup {i}
              /\ Refused(w)
              /\ Collect

\* Mutant: the refresh token of the answer is dropped.
InstallAccessTokenOnly(w) ==
    /\ work[w].pc = "answered"
    /\ Go(w, "save")
    /\ UNCHANGED <<heap, pool, row, pending, round, backoff, issued, banned, edits,
                   faults, aliased, lost>>

\* cred.Credentials = *refreshed, whatever it holds by now.
InstallTokens(w) ==
    /\ work[w].pc = "answered"
    /\ Go(w, "save")
    /\ UNCHANGED <<pool, row, pending, round, backoff, issued, banned, edits,
                   faults, aliased, lost>>
    /\ Heap([heap EXCEPT ![work[w].obj].tok = work[w].tok])

\* validateCreateReq, the last word on an imported entry.
validateCreateReq(e) == e.access /\ e.refresh /\ e.profile /\ e.maxInFlight >= 0

Checked(w, o, e) ==
    LET ok == validateCreateReq(e)
    IN  work' = [work EXCEPT ![w].pc = "import", ![w].obj = None, ![w].tok = 0,
                             ![w].entries = Tail(@),
                             ![w].prepared = IF ok THEN @ \cup {o} ELSE @,
                             ![w].rejected = @ \/ ~ok]

\* saveOne; its failure is only logged, and Refresh has succeeded.  The tokens of
\* an imported entry are complete then if the provider named the profile.
Refreshed(w) ==
    CASE work[w].for = "request" -> Go(w, "upstream")
      [] work[w].for \in {"poll", "check"} -> Go(w, "refetch")
      [] work[w].for = "import" ->
            \E profile \in {Head(work[w].entries).profile, TRUE} :
                Checked(w, work[w].obj, [Head(work[w].entries) EXCEPT
                                            !.access = TRUE, !.profile = profile])

\* Mutant: Refresh does not save.
SaveTokensNot(w) ==
    /\ work[w].pc = "save"
    /\ Refreshed(w)
    /\ UNCHANGED <<heap, pool, row, pending, round, backoff, issued, banned, edits,
                   faults, aliased, lost>>

SaveTokens(w) ==
    /\ work[w].pc = "save"
    /\ Refreshed(w)
    /\ UNCHANGED <<pool, pending, round, backoff, issued, banned, edits, aliased, lost>>
    /\ SaveOne(work[w].obj) \/ SaveFails(work[w].obj)

-----------------------------------------------------------------------------
(* Requests.                                                               *)

\* Acquire hands out an enabled account; maybeRefresh first refreshes a token
\* that is about to expire.
Acquire(w, i) ==
    /\ pool[i] # None
    /\ ~heap[pool[i]].disabled
    /\ LET g == [Idle EXCEPT !.pc = "upstream", !.for = "request", !.obj = pool[i]]
       IN  \E h \in {g, RefreshToken(g, heap[pool[i]])} : Begin(w, "request", h)
    /\ UNCHANGED <<heap, pool, row, pending, round, backoff, issued, banned,
                   edits, faults, aliased, lost>>

\* MarkAuthError, followed by n more saves of the caller.  It looks the account
\* up by its id: the object may not be the caller's.
MarkAuthError(i, n) ==
    IF pool[i] = None
    THEN UNCHANGED pending /\ Collect
    ELSE /\ Async(pool[i], 1 + n)
         /\ Heap([heap EXCEPT ![pool[i]].disabled = TRUE])

\* The upstream call: a stale or banned account is answered with 401 or 403,
\* which markPoolOutcome reports.
Upstream(w) ==
    /\ work[w].pc = "upstream"
    /\ Done(w)
    /\ UNCHANGED <<pool, row, round, backoff, issued, banned, edits, faults, aliased, lost>>
    /\ LET i == heap[work[w].obj].id
       IN  \/ /\ i \notin banned
              /\ UNCHANGED pending
              /\ Collect
           \/ /\ i \in banned \/ heap[work[w].obj].tok # issued[i]
              /\ MarkAuthError(i, 0)

-----------------------------------------------------------------------------
(* Quota checks: the poller and POST /admin/accounts/{id}/refresh.         *)

\* A tick of Run: refreshAll takes the accounts; the tick before has settled.
PollTick ==
    /\ round = {}
    /\ \A w \in Workers : work[w].for # "poll"
    /\ round' = {pool[i] : i \in Pooled}
    /\ UNCHANGED <<heap, pool, row, pending, work, backoff, issued, banned,
                   edits, faults, aliased, lost>>

ShouldSkip(o) == heap[o].disabled \/ heap[o].id \in backoff

PollSkip(o) ==
    /\ o \in round
    /\ ShouldSkip(o)
    /\ round' = round \ {o}
    /\ UNCHANGED <<pool, row, pending, work, backoff, issued, banned, edits,
                   faults, aliased, lost>>
    /\ Collect

\* As many checks run at once as there are workers with that duty (the
\* semaphore of refreshAll).
PollStart(w, o) ==
    /\ o \in round
    /\ ~ShouldSkip(o)
    /\ round' = round \ {o}
    /\ Begin(w, "poll", [Idle EXCEPT !.pc = "fetch", !.for = "poll", !.obj = o])
    /\ UNCHANGED <<heap, pool, row, pending, backoff, issued, banned, edits,
                   faults, aliased, lost>>

handleAccountRefresh(w, i) ==
    /\ pool[i] # None
    /\ Edit
    /\ Begin(w, "admin", [Idle EXCEPT !.pc = "fetch", !.for = "check", !.obj = pool[i]])
    /\ UNCHANGED <<heap, pool, row, pending, round, backoff, issued, banned,
                   faults, aliased, lost>>

\* RecordQuotaError: nothing but a message to show, and the account is saved.
RecordQuotaError(i) ==
    /\ IF pool[i] = None THEN UNCHANGED pending ELSE Async(pool[i], 1)
    /\ Collect

\* RefreshQuota: the snapshot is stored and the account saved; a ban disables
\* the account, which saves it as well.
RefreshQuota(i, isBan) ==
    IF isBan THEN MarkAuthError(i, 1) ELSE RecordQuotaError(i)

clearBackoff(w, i) ==
    backoff' = IF work[w].for = "poll" THEN backoff \ {i} ELSE backoff

\* What getUsageLimits may answer about object c: a ban is a snapshot too, a
\* token that is not the newest or has expired is denied.
KiroFetch(c) ==
    (IF c.id \in banned THEN {"banned"} ELSE IF c.tok = issued[c.id] THEN {"ok"} ELSE {})
    \cup {"denied", "error"}

isQuotaAuthError(answer) == answer = "denied"

\* refreshOne, fetchQuotaWithRefresh: a denied fetch is repeated once, with
\* refreshed tokens.
FetchQuota(w) ==
    /\ work[w].pc \in {"fetch", "refetch"}
    /\ UNCHANGED <<pool, row, round, issued, banned, edits, aliased, lost>>
    /\ LET c == heap[work[w].obj]
       IN  \E answer \in KiroFetch(c) :
           \/ /\ answer \in {"ok", "banned"}
              /\ Done(w)
              /\ clearBackoff(w, c.id)
              /\ UNCHANGED faults
              /\ RefreshQuota(c.id, answer = "banned")
           \/ /\ isQuotaAuthError(answer)
              /\ \/ /\ work[w].pc = "fetch"
                    /\ work' = [work EXCEPT ![w] = RefreshToken(@, c)]
                 \/ /\ work[w].pc = "refetch" /\ c.tok # issued[c.id]
                    /\ Go(w, "failed")
              /\ UNCHANGED <<heap, pending, backoff, faults>>
           \/ /\ answer = "error"
              /\ Fault("net")
              /\ Go(w, "failed")
              /\ UNCHANGED <<heap, pending, backoff>>

\* RecordQuotaError, and the poller's recordFailure.
QuotaFailed(w) ==
    /\ work[w].pc = "failed"
    /\ Done(w)
    /\ UNCHANGED <<pool, row, round, issued, banned, edits, faults, aliased, lost>>
    /\ LET i == heap[work[w].obj].id
       IN  /\ backoff' = IF work[w].for = "poll" THEN backoff \cup {i} ELSE backoff
           /\ RecordQuotaError(i)

\* Mutant: a failed account is skipped for good.
BackoffForever(i) == FALSE /\ UNCHANGED vars

\* nextPollBackoff is at most half an hour.
BackoffExpires(i) ==
    /\ i \in backoff
    /\ backoff' = backoff \ {i}
    /\ UNCHANGED <<heap, pool, row, pending, work, round, issued, banned,
                   edits, faults, aliased, lost>>

Ban(i) ==
    /\ "ban" \in Faults
    /\ EventsLeft
    /\ i \in Initial \ banned
    /\ banned' = banned \cup {i}
    /\ UNCHANGED <<heap, pool, row, pending, work, round, backoff, issued,
                   edits, faults, aliased, lost>>

-----------------------------------------------------------------------------
(* The operator: internal/admin/handlers_mutate.go, handlers.go.           *)

\* cloneCredentials(sched.All())
Clones == [i \in Ids |-> IF i \in Pooled THEN heap[pool[i]] ELSE None]

\* Mutant: the clone keeps the state it was cloned with.
copyNothing(old, c) == c

\* A clone whose id is still in the pool takes over that object's runtime state:
\* Disabled, not the tokens and not the label.
copyRuntimeState(old, c) ==
    IF old = None THEN c ELSE [c EXCEPT !.disabled = heap[old].disabled]

\* Register(before): how a handler undoes its change when the save fails.
Register(before) ==
    LET ids == {i \in Ids : before[i] # None}
        new == CHOOSE f \in Injection(ids, Free) : TRUE
    IN  /\ ExistsInjection(ids, Free)
        /\ pool' = [i \in Ids |-> IF i \in ids THEN new[i] ELSE None]
        /\ aliased' = aliased \cup ids \cup Pooled
        /\ Heap([o \in Objs |->
               IF \E i \in ids : new[i] = o
               THEN LET i == CHOOSE i \in ids : new[i] = o
                    IN  copyRuntimeState(pool[i], before[i])
               ELSE heap[o]])

SetEnabled(i, enabled) ==
    /\ pool[i] # None
    /\ Edit
    /\ Async(pool[i], 1)
    /\ heap' = [heap EXCEPT ![pool[i]].disabled = ~enabled]
    /\ UNCHANGED <<pool, row, work, round, backoff, issued, banned, faults, aliased, lost>>

\* credentialFromFile: a new object with the tokens of the body.
NewCredential(i) == FromRow(i, [tok |-> issued[i], label |-> 0, disabled |-> FALSE])

\* validateCreateReq wants all tokens; Add refuses an id that is in the pool.
handleAccountCreate(w, i) ==
    /\ pool[i] = None
    /\ Free # {}
    /\ Edit
    /\ Begin(w, "admin", [Idle EXCEPT !.pc = "createSave", !.obj = Fresh])
    /\ pool' = [pool EXCEPT ![i] = Fresh]
    /\ aliased' = IF HasTwin(i) THEN aliased \cup {i} ELSE aliased
    /\ heap' = [heap EXCEPT ![Fresh] = NewCredential(i)]
    /\ UNCHANGED <<row, pending, round, backoff, issued, banned, faults, lost>>

\* persistOne, or sched.Remove(id).
CreateSave(w) ==
    /\ work[w].pc = "createSave"
    /\ Done(w)
    /\ UNCHANGED <<pending, round, backoff, issued, banned, edits, lost>>
    /\ \/ UNCHANGED <<pool, aliased>> /\ SaveOne(work[w].obj)
       \/ LET i == heap[work[w].obj].id
          IN  /\ pool' = [pool EXCEPT ![i] = None]
              /\ aliased' = aliased \cup {i}
              /\ SaveFails(work[w].obj)

\* The account is looked up before the body is read.
handleAccountPatch(w, i) ==
    /\ pool[i] # None
    /\ Edit
    /\ Begin(w, "admin", [Idle EXCEPT !.pc = "patch", !.obj = pool[i]])
    /\ UNCHANGED <<heap, pool, row, pending, round, backoff, issued, banned,
                   faults, aliased, lost>>

PatchApply(w) ==
    /\ work[w].pc = "patch"
    /\ work' = [work EXCEPT ![w].pc = "patchSave", ![w].before = Clones]
    /\ heap' = [heap EXCEPT ![work[w].obj].label = 1]
    /\ UNCHANGED <<pool, row, pending, round, backoff, issued, banned, edits,
                   faults, aliased, lost>>

\* A failed save is undone from the clones made before the change.
Undo(w) == Fault("store") /\ UNCHANGED row /\ Register(work[w].before)

PatchSave(w) ==
    /\ work[w].pc = "patchSave"
    /\ Done(w)
    /\ UNCHANGED <<pending, round, backoff, issued, banned, edits, lost>>
    /\ \/ UNCHANGED <<pool, aliased>> /\ SaveOne(work[w].obj)
       \/ Undo(w)

handleAccountDelete(w, i) ==
    /\ pool[i] # None
    /\ Edit
    /\ Begin(w, "admin", [Idle EXCEPT !.pc = "deleteRow", !.id = i, !.before = Clones])
    /\ pool' = [pool EXCEPT ![i] = None]
    /\ aliased' = aliased \cup {i}
    /\ UNCHANGED <<row, pending, round, backoff, issued, banned, faults, lost>>
    /\ Collect

DeleteRow(w) ==
    /\ work[w].pc = "deleteRow"
    /\ Done(w)
    /\ UNCHANGED <<pending, round, backoff, issued, banned, edits, lost>>
    /\ \/ UNCHANGED <<pool, aliased, faults>> /\ Delete(work[w].id)
       \/ Undo(w)

handleAccountsImport(w, body) ==
    /\ Edit
    /\ Begin(w, "admin", [Idle EXCEPT !.pc = "import", !.for = "import", !.before = Clones,
                                      !.mode = body.mode, !.entries = body.entries])
    /\ UNCHANGED <<heap, pool, row, pending, round, backoff, issued, banned,
                   faults, aliased, lost>>

validateImportBase(e) == e.refresh /\ e.maxInFlight >= 0 /\ ~e.apiKey

importNeedsRefresh(e) == ~e.access \/ ~e.profile

\* prepareImportedCredential: an entry without an access token or a profile is
\* validated by refreshing it, which saves it (MultiRefresher.Refresh).
prepareImportedCredential(w) ==
    /\ work[w].pc = "import"
    /\ work[w].entries # <<>>
    /\ UNCHANGED <<pool, row, pending, round, backoff, issued, banned, edits,
                   faults, lost>>
    /\ LET e == Head(work[w].entries)
           o == Fresh
       IN  IF ~validateImportBase(e)
           THEN /\ work' = [work EXCEPT ![w].entries = Tail(@), ![w].rejected = TRUE]
                /\ UNCHANGED <<heap, aliased>>
           ELSE /\ Free # {}
                /\ aliased' = IF HasTwin(e.id) THEN aliased \cup {e.id} ELSE aliased
                /\ IF importNeedsRefresh(e)
                   THEN work' = [work EXCEPT ![w] =
                            RefreshToken([@ EXCEPT !.obj = o], NewCredential(e.id))]
                   ELSE Checked(w, o, e)
                /\ Heap([heap EXCEPT ![o] = NewCredential(e.id)])

\* The pool is changed when all entries are ready; "replace" with a rejected
\* entry changes nothing.
ImportApply(w) ==
    /\ work[w].pc = "import"
    /\ work[w].entries = <<>>
    /\ UNCHANGED <<row, pending, round, backoff, issued, banned, edits, faults, lost>>
    /\ LET incoming == {heap[o].id : o \in work[w].prepared}
           removed == IF work[w].mode = "replace" THEN Pooled \ incoming ELSE {}
           added == {o \in work[w].prepared : pool[heap[o].id] = None}
           Obj(i) == CHOOSE o \in added : heap[o].id = i
       IN  IF \/ work[w].mode = "replace" /\ work[w].rejected
              \/ removed = {} /\ added = {}
           THEN Done(w) /\ UNCHANGED <<pool, aliased>>
           ELSE /\ work' = [work EXCEPT ![w].pc = "saveAll", ![w].prepared = {}]
                /\ pool' = [i \in Ids |-> IF i \in removed THEN None
                                          ELSE IF pool[i] = None /\ i \in incoming
                                          THEN Obj(i) ELSE pool[i]]
                /\ aliased' = aliased \cup removed
    /\ Collect

ImportSave(w) ==
    /\ work[w].pc = "saveAll"
    /\ Done(w)
    /\ UNCHANGED <<pending, round, backoff, issued, banned, edits, lost>>
    /\ \/ UNCHANGED <<pool, aliased, faults>> /\ SaveAll
       \/ Undo(w)

\* The process ends and starts again: buildPool loads the rows.
Restart ==
    /\ Fault("crash")
    /\ pool' = Loaded(row)
    /\ heap' = HeapOf(row)
    /\ pending' = [o \in Objs |-> 0]
    /\ work' = [w \in Workers |-> Idle]
    /\ round' = {} /\ backoff' = {}
    /\ aliased' = {}
    /\ lost' = lost \cup {i \in Ids : row[i] # None /\ row[i].tok # issued[i]}
    /\ UNCHANGED <<row, issued, banned, edits>>

-----------------------------------------------------------------------------

\* A goroutine begins: a request or an operation of the operator comes in.
Start(w) ==
    \/ \E i \in Ids : \/ Acquire(w, i) \/ handleAccountRefresh(w, i)
                      \/ handleAccountCreate(w, i) \/ handleAccountPatch(w, i)
                      \/ handleAccountDelete(w, i)
    \/ \E b \in Imports : handleAccountsImport(w, b)

\* It goes on.
Refresh(w) == RefreshTokens(w) \/ InstallTokens(w) \/ SaveTokens(w)

Check(w) == FetchQuota(w) \/ QuotaFailed(w)

Step(w) ==
    \/ Refresh(w) \/ Check(w) \/ Upstream(w)
    \/ CreateSave(w) \/ PatchApply(w) \/ PatchSave(w) \/ DeleteRow(w)
    \/ prepareImportedCredential(w) \/ ImportApply(w) \/ ImportSave(w)

Poll == PollTick \/ \E o \in Objs : PollSkip(o) \/ \E w \in Workers : PollStart(w, o)

Next ==
    \/ \E w \in Workers : Start(w) \/ Step(w)
    \/ Poll
    \/ \E o \in Objs : AsyncSave(o)
    \/ \E i \in Ids : Ban(i) \/ BackoffExpires(i) \/ \E b \in BOOLEAN : SetEnabled(i, b)
    \/ Restart

\* Refreshes and quota checks that have begun run on, the ticker ticks and waits
\* end.  Requests, saves, the operator and faults come as they please.
Fairness ==
    /\ \A w \in Workers : WF_vars(Refresh(w) \/ ("poll" \in Duties[w] /\ Check(w)))
    /\ WF_vars(Poll)
    /\ WF_vars(\E i \in Ids : BackoffExpires(i))

Spec == Init /\ [][Next]_vars /\ Fairness

-----------------------------------------------------------------------------

\* Types; and what the pool holds for an account is that account's object.
TypeOK ==
    /\ heap \in [Objs -> Cred \cup {None}]
    /\ \A i \in Pooled : heap[pool[i]] # None /\ heap[pool[i]].id = i
    /\ row \in [Ids -> [tok : 0..MaxToken, label : 0..1, disabled : BOOLEAN] \cup {None}]
    /\ pending \in [Objs -> 0..MaxSaves]
    /\ issued \in [Ids -> 0..MaxToken]
    /\ banned \subseteq Ids /\ backoff \subseteq Ids /\ round \subseteq Objs

\* A goroutine that is going to save object o.
Saving(o) == \/ pending[o] > 0
             \/ \E w \in Workers : \/ work[w].pc = "saveAll"
                                    \/ /\ work[w].obj = o
                                       /\ work[w].pc \in {"save", "createSave", "patchSave"}

\* Once the saves of an account have ended, PostgreSQL holds what the pool
\* holds, in whatever order they ran and whatever changed meanwhile: token
\* refreshes, bans, quota results, edits.  Not so after a failed save, which
\* nothing repeats, and not for an id that has had two objects.
StoreSettles ==
    \A i \in Pooled \ aliased :
        Saving(pool[i]) \/ heap[pool[i]].dirty \/ row[i] = RowOf(heap[pool[i]])

\* However many goroutines refresh an account at once, the newest token is in
\* the pool or about to be put there: none of them overwrites it with an older
\* one (RefreshToken writes back without looking).
NewestTokenKept ==
    \A i \in Pooled \ (aliased \cup lost) :
        \/ heap[pool[i]].tok = issued[i]
        \/ \E w \in Workers : /\ work[w].pc = "answered"
                               /\ work[w].obj = pool[i] /\ work[w].tok = issued[i]

\* Only the operator lifts a disablement (or a restart, when it was not saved):
\* the undoing of a failed edit copies it from the object it replaces.
DisabledSticks ==
    [][ \A i \in Pooled :
          /\ heap[pool[i]].disabled
          /\ pool'[i] # None
          /\ ~heap'[pool'[i]].disabled
          => Restart \/ SetEnabled(i, TRUE) ]_vars

\* "append (default) skips entries whose ID already exists" (the comment of
\* handleAccountsImport): of an account in the pool, such an import writes
\* nothing but what the pool holds.
AppendSkipsExisting ==
    [][ \A w \in Workers :
          work[w].mode = "append" /\ Step(w) =>
              \A i \in Pooled : row'[i] \in {row[i], RowOf(heap[pool[i]])} ]_vars

\* The poller finds a banned account and disables it, through failed fetches,
\* expired tokens and back-offs; unless its tokens are gone.
BannedGetsDisabled ==
    \A i \in Ids :
        (i \in banned /\ pool[i] # None)
        ~> (pool[i] = None \/ heap[pool[i]].disabled \/ i \in lost \cup aliased)

=============================================================================
