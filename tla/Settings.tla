------------------------------ MODULE Settings ------------------------------
(***************************************************************************)
(* The settings document and its API keys: internal/settings.              *)
(*                                                                         *)
(* Store.Update builds a changed copy of the document, saves all of it in  *)
(* one row of PostgreSQL and keeps the copy only if the save succeeded.    *)
(* The store's lock makes an update one step; the outcome of the save is   *)
(* the environment's: it succeeds, it fails, or it succeeds and only the   *)
(* answer is lost.  ValidateAPIKey reads the process's copy.               *)
(***************************************************************************)
EXTENDS Integers, FiniteSets, Functions

CONSTANTS
    KeyIds,       \* ids newAPIKeyID can return
    Secrets,      \* key values: the ones newAPIKeyValue returns, or typed in
    Quotas,       \* values of quota_limit; 0 is unlimited
    Expiries,     \* values of expires_at that are chosen; 0 is never
    Initial,      \* rows the first start may find; None is an empty table
    None

VARIABLES
    cur,       \* Store.cur; None while the process is down
    row,       \* settings_docs, key 'default'
    \* history
    unsure,    \* the answer to the last save was lost
    charged,   \* tokens of the AddAPIKeyUsage calls that returned nil
    doubtful,  \* tokens of those whose save's answer was lost
    peak,      \* the largest quota a key has had; 0 if ever unlimited
    issued     \* ids and values that cannot be generated again: they are random

settingsVars == <<cur, row, unsure, charged, doubtful, peak, issued>>

\* A document.  Of the sections that are not API keys only prompt_cache_reports
\* can be missing or invalid, and only those two matter to load.
Reports == {"absent", "default", "custom", "invalid"}
APIKeys == [secret : Secrets, enabled : BOOLEAN, expires : Expiries \cup {0},
            quota : Quotas, used : Nat]
IsDocument(doc) == \E ids \in SUBSET KeyIds : doc \in [keys : [ids -> APIKeys], reports : Reports]

ASSUME SettingsAssumption ==
    /\ Quotas \subseteq Nat /\ Expiries \subseteq Nat
    /\ None \notin KeyIds \cup Secrets /\ ~IsDocument(None)
    /\ \A doc \in Initial \ {None} : IsDocument(doc)

Default == [keys |-> [k \in {} |-> None], reports |-> "default"]

SettingsInit ==
    /\ cur = None
    /\ row \in Initial
    /\ unsure = FALSE
    /\ charged = [k \in KeyIds |->
                    IF row # None /\ k \in DOMAIN row.keys THEN row.keys[k].used ELSE 0]
    /\ doubtful = [k \in KeyIds |-> 0]
    /\ peak = [k \in KeyIds |->
                 IF row # None /\ k \in DOMAIN row.keys THEN row.keys[k].quota ELSE 0]
    /\ issued = IF row = None THEN {}
                ELSE DOMAIN row.keys \cup {row.keys[k].secret : k \in DOMAIN row.keys}

----------------------------------------------------------------------------
(* Starting the process *)

\* A document that predates prompt_cache_reports is given the default.
load(doc) ==
    IF doc.reports = "absent" THEN [doc EXCEPT !.reports = "default"] ELSE doc

Loadable(doc) == doc.reports # "invalid"

\* newWithBackend: read the row; write the defaults or the migrated document.
\* A start that fails leaves the process down.
newWithBackend ==
    /\ cur = None
    /\ row # None => Loadable(row)
    /\ cur' = IF row = None THEN Default ELSE load(row)
    /\ row' = cur'
    /\ unsure' = FALSE
    /\ UNCHANGED <<charged, doubtful, peak, issued>>

SettingsDown ==
    /\ cur' = None
    /\ UNCHANGED <<row, unsure, charged, doubtful, peak, issued>>

----------------------------------------------------------------------------
(* Changing it *)

\* Mutant: the copy is kept although the save failed.
UpdateKeeps(doc, outcome) ==
    /\ cur # None
    /\ cur' = doc
    /\ row' = IF outcome = "failed" THEN row ELSE doc
    /\ unsure' = (outcome = "lost")

\* Store.Update, once fn has accepted: outcome is what the save came to.
Update(doc, outcome) ==
    /\ cur # None
    /\ cur' = IF outcome = "saved" THEN doc ELSE cur
    /\ row' = IF outcome = "failed" THEN row ELSE doc
    /\ unsure' = (outcome = "lost" \/ (outcome = "failed" /\ unsure))

NewKey(secret, expires, quota) ==
    [secret |-> secret, enabled |-> TRUE, expires |-> expires, quota |-> quota, used |-> 0]

\* ErrAPIKeyExists.
MayAdd(doc, id, secret) ==
    /\ id \notin DOMAIN doc.keys
    /\ \A k \in DOMAIN doc.keys : doc.keys[k].secret # secret

\* The value may be generated, which makes it new, or typed in by the operator.
\* A value below 0, shorter than 8 characters or with blanks is refused before
\* Update and changes nothing; so does every call whose id is unknown.
AddAPIKey(id, secret, expires, quota, outcome) ==
    /\ cur # None /\ MayAdd(cur, id, secret)
    /\ id \notin issued
    /\ Update([cur EXCEPT !.keys =
                 [k \in DOMAIN cur.keys \cup {id} |->
                    IF k = id THEN NewKey(secret, expires, quota) ELSE cur.keys[k]]],
              outcome)
    /\ peak' = [peak EXCEPT ![id] = quota]
    /\ issued' = issued \cup {id, secret}
    /\ UNCHANGED <<charged, doubtful>>

\* A patch of enabled, expires_at and quota_limit; None leaves a field alone.
Patched(key, patch) ==
    [f \in DOMAIN key |-> IF f \in DOMAIN patch /\ patch[f] # None THEN patch[f] ELSE key[f]]

UpdateAPIKey(id, patch, outcome) ==
    /\ cur # None /\ id \in DOMAIN cur.keys
    /\ Update([cur EXCEPT !.keys[id] = Patched(@, patch)], outcome)
    /\ peak' = IF patch.quota = None THEN peak
               ELSE [peak EXCEPT ![id] = IF 0 \in {@, patch.quota} THEN 0
                                         ELSE IF patch.quota > @ THEN patch.quota ELSE @]
    /\ UNCHANGED <<charged, doubtful, issued>>

\* Mutant: the counter starts again with the new secret.
RotateResets(key, secret) == [key EXCEPT !.secret = secret, !.used = 0]

Rotated(key, secret) == [key EXCEPT !.secret = secret]

RotateAPIKey(id, secret, outcome) ==
    /\ cur # None /\ id \in DOMAIN cur.keys
    /\ secret \notin issued
    /\ Update([cur EXCEPT !.keys[id] = Rotated(@, secret)], outcome)
    /\ issued' = issued \cup {secret}
    /\ UNCHANGED <<charged, doubtful, peak>>

DeleteAPIKey(id, outcome) ==
    /\ cur # None /\ id \in DOMAIN cur.keys
    /\ Update([cur EXCEPT !.keys = Restrict(@, DOMAIN @ \ {id})], outcome)
    /\ UNCHANGED <<charged, doubtful, peak, issued>>

\* handleSettingsPut answers 400 to an invalid section, before Update; what it
\* stores is normalised.
Accepted(reports) == reports \notin {"absent", "invalid"}

PutSettings(reports, outcome) ==
    /\ Accepted(reports)
    /\ cur # None
    /\ Update([cur EXCEPT !.reports = reports], outcome)
    /\ UNCHANGED <<charged, doubtful, peak, issued>>

\* The charge at the end of a request; a key deleted meanwhile is not charged.
AddAPIKeyUsage(id, tokens, outcome) ==
    /\ cur # None
    /\ IF id \in DOMAIN cur.keys
       THEN /\ Update([cur EXCEPT !.keys[id].used = @ + tokens], outcome)
            /\ charged' = IF outcome = "saved"
                          THEN [charged EXCEPT ![id] = @ + tokens] ELSE charged
            /\ doubtful' = IF outcome = "lost"
                           THEN [doubtful EXCEPT ![id] = @ + tokens] ELSE doubtful
       ELSE UNCHANGED <<cur, row, unsure, charged, doubtful>>
    /\ UNCHANGED <<peak, issued>>

----------------------------------------------------------------------------
(* Reading it *)

\* server.WithAPIKeyValidatorEnabled: any key at all, enabled or not.
ValidatorOn == DOMAIN cur.keys # {}

\* The first enabled key with the supplied value decides.
Matching(secret) ==
    {k \in DOMAIN cur.keys : cur.keys[k].enabled /\ cur.keys[k].secret = secret}

\* Mutant: a key is over quota only once its counter has passed the limit.
OverQuotaLate(key) == key.quota > 0 /\ key.used > key.quota

OverQuota(key) == key.quota > 0 /\ key.used >= key.quota

Expired(key, now) == key.expires > 0 /\ key.expires <= now

\* ValidateAPIKey: the verdict and the key it is about.
ValidateAPIKey(secret, now) ==
    IF Matching(secret) = {} THEN [id |-> None, verdict |-> "not_found"]
    ELSE LET k == CHOOSE x \in Matching(secret) : TRUE
         IN  [id |-> k,
              verdict |-> CASE Expired(cur.keys[k], now) -> "expired"
                            [] ~Expired(cur.keys[k], now) /\ OverQuota(cur.keys[k]) -> "over_quota"
                            [] OTHER -> "ok"]
============================================================================
