---------------------------- MODULE PromptCache ----------------------------
(***************************************************************************)
(* The prompt-cache tracker (internal/promptcache/tracker.go).  Upstream   *)
(* does not say which part of a prompt it had cached; the proxy works it   *)
(* out from the prompts it has seen: a plan is made when a response        *)
(* begins, and committed when the answer succeeded.                        *)
(*                                                                         *)
(* A fingerprint is the sequence of the blocks it hashes.  Ratios are      *)
(* percentages.                                                            *)
(***************************************************************************)
EXTENDS Integers, Sequences, FiniteSets, SequencesExt, FiniteSetsExt, ReqConv

CONSTANTS
    DefaultTTL,     \* lifetime of an entry, refreshed when it is read
    HourTTL,        \* the same for cache_control ttl "1h"
    PruneInterval,  \* defaultPruneInterval
    MaxScopes,      \* Options.MaxScopes
    MaxEntries,     \* Options.MaxEntries
    MinTokens,      \* minCacheableTokensForModel
    RatioUnit(_)    \* the seed of a fingerprint in percent of the largest one

ASSUME PromptCacheAssumption ==
    /\ DefaultTTL \in Nat \ {0} /\ HourTTL \in Nat /\ HourTTL > DefaultTTL
    /\ PruneInterval \in Nat \ {0}
    /\ MaxScopes \in Nat \ {0} /\ MaxEntries \in Nat /\ MaxEntries >= MaxScopes
    /\ MinTokens \in Nat \ {0}

VARIABLES
    now,         \* the clock
    entries,     \* the entries, by [scope, fp]: [expires, ttl, cached]
    lastPrune,   \* lastPruneAt, -1 for the zero time
    \* history
    ledger,      \* the entries ever written, by [scope, fp], with the last use
    evicted      \* a limit has removed a live entry

cacheVars == <<entries, lastPrune, ledger, evicted>>

CacheInit ==
    /\ now = 0
    /\ entries = <<>>
    /\ lastPrune = -1
    /\ ledger = <<>>
    /\ evicted = FALSE
----------------------------------------------------------------------------
(* The profile of a request *)

Max2(a, b) == IF a > b THEN a ELSE b
Min2(a, b) == IF a < b THEN a ELSE b

\* math.Round of n * percent / 100.
PercentOf(n, percent) == (2 * n * percent + 100) \div 200

\* promptCacheTTL: 0 without cache_control.
PromptCacheTTL(b) ==
    CASE b.cache = "no" -> 0 [] b.cache = "1h" -> HourTTL [] OTHER -> DefaultTTL

\* A block as the tracker sees it; its value leaves cache_control out, and its
\* length stands for the tokens counted in it.
CacheBlock(kind, b) ==
    [value |-> [kind |-> kind, type |-> b.type, id |-> b.id, text |-> b.text],
     tokens |-> 1 + Len(b.text), ttl |-> PromptCacheTTL(b)]

IsBillingHeaderBlock(b) == b.type = "text" /\ b.text # <<>> /\ b.text[1].kind = "billing"

CacheBlocks(kind, blocks) ==
    MapSeq(Keep(blocks, LAMBDA b : ~IsBillingHeaderBlock(b)), LAMBDA b : CacheBlock(kind, b))

FlattenCacheBlocks(req) ==
    <<CacheBlock("request_prelude", Block("model", req.scope.model, <<>>))>>
    \o CacheBlocks("tool", req.toolBlocks)
    \o CacheBlocks("system", req.system)
    \o FlattenSeq(MapSeq(req.msgs, LAMBDA m : CacheBlocks(m.role, m.blocks)))

\* The tokens up to and with each block.
CumulativeTokens(blocks) ==
    LET sums[n \in DOMAIN blocks] == blocks[n].tokens + (IF n = 1 THEN 0 ELSE sums[n - 1])
    IN  sums

NoProfile == [ok |-> FALSE]

\* The last breakpoint has the last explicit ttl: the ends of later messages
\* repeat it.  A profile that may synthesize a stable prefix needs none.
BuildProfile(req, totalInput, synthesize) ==
    LET blocks == FlattenCacheBlocks(req)
        marked == Keep(blocks, LAMBDA b : b.ttl > 0)
        sums == CumulativeTokens(blocks)
    IN  IF marked = <<>> /\ ~synthesize THEN NoProfile
        ELSE [ok |-> TRUE,
              fps |-> [n \in DOMAIN blocks |-> MapSeq(SubSeq(blocks, 1, n), LAMBDA b : b.value)],
              sums |-> sums,
              total |-> Max2(totalInput, Last(sums)),
              ttl |-> IF marked = <<>> THEN DefaultTTL ELSE Last(marked).ttl]

\* Without a seed the middle is taken.
DeterministicRatioUnit(fp) == IF RatioUnit(fp) \in 0..100 THEN RatioUnit(fp) ELSE 50

Spread == 3

\* effectiveCacheReadRatio and targetCacheTokens.
EffectiveRatio(prof, ratio) ==
    LET low == Max2(Min2(ratio, 99) - Spread, 0)
        high == Min2(Min2(ratio, 99) + Spread, 99)
    IN  IF ratio <= 0 THEN 0
        ELSE IF high <= low THEN low
        ELSE low + (DeterministicRatioUnit(Last(prof.fps)) * (high - low)) \div 100

TargetCacheTokens(prof, ratio) ==
    LET target == Min2(PercentOf(prof.total, EffectiveRatio(prof, ratio)), prof.total - 1)
    IN  IF prof.total <= 1 \/ target < MinTokens THEN 0 ELSE target
----------------------------------------------------------------------------
(* The entries *)

Key(scope, fp) == [scope |-> scope, fp |-> fp]

Live(e) == e.expires > now

Only(es, keys) == [k \in keys |-> es[k]]

PruneExpired(es) == Only(es, {k \in DOMAIN es : Live(es[k])})

PruneDue == lastPrune = -1 \/ now - lastPrune >= PruneInterval

PrunedIfDue == IF PruneDue THEN PruneExpired(entries) ELSE entries

\* Mutant: an entry is matched until it is pruned.
MatchesUnexpired(es, scope, prof, n) ==
    prof.sums[n] >= MinTokens /\ Key(scope, prof.fps[n]) \in DOMAIN es

Matches(es, scope, prof, n) ==
    /\ prof.sums[n] >= MinTokens
    /\ Key(scope, prof.fps[n]) \in DOMAIN es
    /\ Live(es[Key(scope, prof.fps[n])])

Matched(es, scope, prof) ==
    LET points == {n \in DOMAIN prof.fps : Matches(es, scope, prof, n)}
    IN  IF points = {} THEN {} ELSE {Key(scope, prof.fps[Max(points)])}

Touch(es, keys) ==
    [k \in DOMAIN es |-> IF k \in keys THEN [es[k] EXCEPT !.expires = now + es[k].ttl] ELSE es[k]]

NoUsage == [read |-> 0, creation |-> 0, hour |-> 0]

\* compute, for a target above the minimum: the longest live prefix is read and
\* its life extended, the rest of the target is created.
Compute(scope, prof, ratio) ==
    LET target == TargetCacheTokens(prof, ratio)
        es == PrunedIfDue
        hit == Matched(es, scope, prof)
        read == IF hit = {} THEN 0 ELSE Min2(es[CHOOSE k \in hit : TRUE].cached, target)
        creation == target - read
    IN  [usage |-> [read |-> read, creation |-> creation,
                    hour |-> IF prof.ttl >= HourTTL THEN creation ELSE 0],
         entries |-> Touch(es, hit), hit |-> hit]

\* The entry that update writes for each point of the profile.
Written(scope, prof, ratio) ==
    LET target == TargetCacheTokens(prof, ratio)
        flat == Last(prof.sums)
        cached(n) == Min2((2 * prof.sums[n] * target + flat) \div (2 * flat), target)
        points == {n \in DOMAIN prof.fps : target > 0 /\ cached(n) >= MinTokens}
    IN  [k \in {Key(scope, prof.fps[n]) : n \in points} |->
            [expires |-> now + prof.ttl, ttl |-> prof.ttl, cached |-> cached(Len(k.fp))]]

Overlay(es, more) ==
    [k \in DOMAIN es \cup DOMAIN more |-> IF k \in DOMAIN more THEN more[k] ELSE es[k]]

ScopesOf(es) == {k.scope : k \in DOMAIN es}

EarliestExpiry(es, scope) == Min({es[k].expires : k \in {j \in DOMAIN es : j.scope = scope}})

\* The sets of n elements of S that come first by Rank, ties in any order.
FirstOf(S, n, Rank(_)) ==
    {T \in kSubset(n, S) : \A x \in T : \A y \in S \ T : Rank(x) <= Rank(y)}

\* enforceLimitsLocked: whole scopes first, then single entries, those that
\* expire soonest.
EnforceLimits(es) ==
    LET fewer(S, max, Rank(_)) ==
            IF Cardinality(S) > max THEN FirstOf(S, Cardinality(S) - max, Rank) ELSE {{}}
        byScope == {Only(es, {k \in DOMAIN es : k.scope \notin gone}) :
                       gone \in fewer(ScopesOf(es), MaxScopes, LAMBDA s : EarliestExpiry(es, s))}
    IN  UNION {{Only(fs, DOMAIN fs \ gone) :
                   gone \in fewer(DOMAIN fs, MaxEntries, LAMBDA k : fs[k].expires)} : fs \in byScope}
----------------------------------------------------------------------------
(* Operations *)

\* BuildPlanWithOptions for a scope whose parts are all known; opts: simulate,
\* synthesize, ratio.
NoPlan == [ok |-> FALSE, usage |-> NoUsage]

PlanProfile(req, totalInput, opts) ==
    IF opts.simulate /\ req.scope.conversation # "" THEN BuildProfile(req, totalInput, opts.synthesize)
    ELSE NoProfile

HasPlan(prof, ratio) == prof.ok /\ TargetCacheTokens(prof, ratio) > 0

BuildPlan(scope, prof, ratio) ==
    IF HasPlan(prof, ratio) THEN [ok |-> TRUE, usage |-> Compute(scope, prof, ratio).usage] ELSE NoPlan

\* What compute does to the tracker.
Track(scope, prof, ratio) ==
    IF ~HasPlan(prof, ratio) THEN UNCHANGED cacheVars
    ELSE LET c == Compute(scope, prof, ratio)
         IN  /\ entries' = c.entries
             /\ lastPrune' = IF PruneDue THEN now ELSE lastPrune
             /\ ledger' = Touch(ledger, c.hit)
             /\ UNCHANGED evicted

\* Plan.Commit: tracker.update.
Commit(scope, prof, ratio) ==
    LET new == Written(scope, prof, ratio)
        es == Overlay(PrunedIfDue, new)
    IN  /\ entries' \in EnforceLimits(es)
        /\ lastPrune' = IF PruneDue THEN now ELSE lastPrune
        /\ ledger' = Overlay(ledger, new)
        /\ evicted' = (evicted \/ \E k \in DOMAIN es \ DOMAIN entries' : Live(es[k]))

\* RunJanitor's tick.  (On a tracker that was never used, or twice at one time,
\* it changes nothing that matters.)
Sweep ==
    /\ lastPrune \in 0..(now - 1)
    /\ entries' \in EnforceLimits(PruneExpired(entries))
    /\ lastPrune' = now
    /\ UNCHANGED <<now, ledger, evicted>>

CacheTypeOK ==
    /\ now \in Nat
    /\ \A k \in DOMAIN entries : entries[k].cached >= MinTokens /\ entries[k].ttl \in {DefaultTTL, HourTTL}
    /\ Cardinality(DOMAIN entries) <= MaxEntries
    /\ Cardinality(ScopesOf(entries)) <= MaxScopes
    /\ lastPrune \in -1..now
    /\ evicted \in BOOLEAN
============================================================================
