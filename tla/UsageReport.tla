---------------------------- MODULE UsageReport ----------------------------
(***************************************************************************)
(* The usage that is reported to the client                                *)
(* (internal/promptcache/reporter.go): the route of a request selects a    *)
(* profile, and the profile turns the upstream's token counts and the      *)
(* tracker's plan into the counts of the answer.                           *)
(*                                                                         *)
(* A usage is [input, output, read, creation, m5, h1]; token counts are    *)
(* naturals, so the code's max(_, 0) are left out.  Ratios, scales and     *)
(* multipliers are percentages.  The samples come from hashes: here they   *)
(* may be any value the hash can select, and an operator that samples      *)
(* returns the set of its possible results.                                *)
(***************************************************************************)
EXTENDS Integers, Sequences, FiniteSets, SequencesExt, FiniteSetsExt, PromptCache
----------------------------------------------------------------------------
(* Routes *)

\* A path is the sequence of its segments.
NormalizePathPrefix(path) ==
    CASE path \in {<<>>, <<"api">>} -> <<>>
      [] path # <<>> /\ path # <<"api">> /\ path[1] \in {"v1", "api"} -> path
      [] OTHER -> <<"api">> \o path

PathMatches(prefix, path) == prefix # <<>> /\ IsPrefix(prefix, path)

NoProfileMatched == [enabled |-> FALSE, matched |-> FALSE]

\* config: routes (the profile's name by prefix), fallback (the default
\* profile, "" for none), profiles (by name).
MatchProfile(config, path) ==
    LET prefixes == {p \in DOMAIN config.routes : PathMatches(NormalizePathPrefix(p), path)}
        longest == CHOOSE p \in prefixes :
                      \A o \in prefixes : Len(NormalizePathPrefix(o)) <= Len(NormalizePathPrefix(p))
        name == IF prefixes = {} THEN config.fallback ELSE config.routes[longest]
    IN  IF name \in DOMAIN config.profiles THEN config.profiles[name] ELSE NoProfileMatched
----------------------------------------------------------------------------
(* Profiles *)

Policy(mode) == [mode |-> mode, max |-> 0, target |-> 0, multiplier |-> 110, move |-> FALSE]
SampleMax(max, move) == [Policy("sample-max") EXCEPT !.max = max, !.move = move]
SampleTarget(target, multiplier) ==
    [Policy("sample-target") EXCEPT !.target = target, !.multiplier = multiplier]

\* What MatchProfile may find: Normalized has seen to the signs.
FieldPolicy ==
    [mode : {"raw", "preserve", "sample-max", "sample-target"}, max : Nat, target : Nat,
     multiplier : Nat, move : BOOLEAN]
ReportProfile ==
    [enabled : BOOLEAN, matched : BOOLEAN, simulate : BOOLEAN, synthesize : BOOLEAN, ratio : Nat,
     input : FieldPolicy, output : FieldPolicy, read : FieldPolicy, creation : FieldPolicy,
     ttlFields : BOOLEAN, scale : Int, cap : Nat, jitterMin : Nat, jitterMax : Nat, scaleMin : Nat]

\* defaultHighCacheProfile with its token counts as parameters.
HighCacheProfile(cap, jitterMin, jitterMax, scaleMin) ==
    [enabled |-> TRUE, matched |-> TRUE, simulate |-> TRUE, synthesize |-> TRUE, ratio |-> 95,
     input |-> Policy("raw"), output |-> Policy("raw"),
     read |-> Policy("preserve"), creation |-> Policy("preserve"), ttlFields |-> FALSE,
     scale |-> 160, cap |-> cap, jitterMin |-> jitterMin, jitterMax |-> jitterMax,
     scaleMin |-> scaleMin]

\* ReportProfile.Normalized, of the parts that can be out of order.
NormalizedProfile(p) ==
    LET scale == IF p.scale <= 0 THEN 100 ELSE Min2(Max2(p.scale, 100), 300)
    IN  [p EXCEPT !.ratio = Min2(p.ratio, 99), !.scale = scale,
                  !.jitterMin = Min2(p.jitterMin, p.jitterMax),
                  !.jitterMax = Max2(p.jitterMin, p.jitterMax)]
----------------------------------------------------------------------------
(* Amplification and simulation *)

NoTokens == [input |-> 0, output |-> 0, read |-> 0, creation |-> 0, m5 |-> 0, h1 |-> 0]

NormalizedUsage(u) ==
    LET m5 == Min2(u.m5, u.creation)
    IN  [u EXCEPT !.m5 = m5, !.h1 = Min2(u.h1, u.creation - m5)]

HasCache(u) == u.read > 0 \/ u.creation > 0

CapJitter(p) ==
    LET most == Min2(Min2(p.jitterMax, PercentOf(p.cap, 8)), p.cap - 1)
    IN  IF p.jitterMax <= 0 \/ p.cap <= 1 \/ most <= 0 THEN {0}
        ELSE Min2(p.jitterMin, most)..most

ApplyAmplification(base, p) ==
    LET scaled == Max2(PercentOf(base, p.scale), base)
    IN  IF base <= 1 \/ base < p.scaleMin THEN {base}
        ELSE IF p.cap <= 1 \/ scaled <= p.cap THEN {scaled}
        ELSE {Min2(scaled, Max2(p.cap - jitter, 1)) : jitter \in CapJitter(p)}

\* Simulation.toReportUsage: the plan says what is read and what is created,
\* the amplified input how much of it.
ToReportUsage(raw, sim, p) ==
    LET total == IF raw.input > 0 THEN raw.input ELSE raw.input + raw.read + raw.creation
        simulated(basis) ==
            LET target == PercentOf(basis, Min2(p.ratio, 99))
                read == CASE sim.read > 0 /\ sim.creation > 0 -> Min2(sim.read, target)
                          [] sim.read > 0 /\ sim.creation = 0 -> target
                          [] OTHER -> 0
                creation == IF sim.creation > 0 THEN target - read ELSE 0
                h1 == IF sim.hour > 0 THEN creation ELSE 0
            IN  [input |-> total, output |-> raw.output, read |-> read,
                 creation |-> creation, m5 |-> creation - h1, h1 |-> h1]
    IN  {simulated(basis) : basis \in ApplyAmplification(total, p)}
----------------------------------------------------------------------------
(* Samples *)

SamplePolicyTarget(field) ==
    CASE field.mode = "sample-max" -> field.max
      [] field.mode = "sample-target" -> field.target
      [] OTHER -> 0

NormalMaxTokens(field) ==
    Max2(1, IF field.mode = "sample-max" THEN field.max
            ELSE PercentOf(field.target, Max2(field.multiplier, 100)))

\* percentOf rounds down.
FloorPercent(n, percent) == (n * percent) \div 100

\* sampleInRange over the buckets <<low, high>> of percentages of a whole.
SampleBuckets(whole, buckets, limit) ==
    LET low(b) == Min2(Max2(FloorPercent(whole, b[1]), 1), limit)
        high(b) == Min2(Max2(FloorPercent(whole, b[2]), low(b)), limit)
    IN  UNION {low(b)..high(b) : b \in buckets}

FieldBuckets == {<<2, 25>>, <<26, 70>>, <<71, 100>>}

\* The possible values of a field: the current one where nothing is sampled.
SampleField(field, current) ==
    LET most == Min2(NormalMaxTokens(field), current)
    IN  IF current = 0 \/ SamplePolicyTarget(field) = 0 THEN {current}
        ELSE SampleBuckets(most, FieldBuckets, most)

CreationBuckets(reads) ==
    IF reads THEN {<<1, 10>>, <<11, 45>>, <<46, 85>>, <<86, 100>>}
    ELSE {<<1, 12>>, <<13, 50>>, <<51, 88>>, <<89, 100>>}

\* The possible values of a sampled cache creation: with something read, one
\* time in five nothing is created.
SampleCacheCreation(field, u) ==
    LET whole == NormalMaxTokens(field)
    IN  SampleBuckets(whole, CreationBuckets(u.read > 0), Min2(u.creation, whole))
           \cup (IF u.read > 0 THEN {0} ELSE {})

CapCacheCreationBreakdown(u, limit) ==
    LET total == u.m5 + u.h1
        m5 == (u.m5 * limit) \div total
    IN  IF limit = 0 \/ total = 0 THEN [u EXCEPT !.creation = limit, !.m5 = 0, !.h1 = 0]
        ELSE IF total <= limit THEN [u EXCEPT !.creation = limit]
        ELSE [u EXCEPT !.creation = limit, !.m5 = m5, !.h1 = limit - m5]
----------------------------------------------------------------------------
(* ApplyReportProfile *)

FieldBaseValue(field, computed, raw) == IF field.mode = "raw" THEN raw ELSE computed
InputBaseValue(field, computed, raw) == IF field.mode = "preserve" THEN computed ELSE raw

BaseUsage(computed, raw, p) ==
    LET kept == IF p.creation.mode = "raw" THEN raw ELSE computed
    IN  [input |-> InputBaseValue(p.input, computed.input, raw.input),
         output |-> FieldBaseValue(p.output, computed.output, raw.output),
         read |-> FieldBaseValue(p.read, computed.read, raw.read),
         creation |-> kept.creation, m5 |-> kept.m5, h1 |-> kept.h1]

\* Mutant: what is taken off the input is lost.
SampleInputDropsDelta(u, p) == {[u EXCEPT !.input = v] : v \in SampleField(p.input, u.input)}

\* What a sample takes off the input may be shown as read from the cache.
SampleInput(u, p) ==
    {[u EXCEPT !.input = v, !.read = IF p.input.move THEN @ + (u.input - v) ELSE @] :
        v \in SampleField(p.input, u.input)}

Projected(computed, raw, p) ==
    LET base == BaseUsage(computed, raw, p)
        outputs == {[base EXCEPT !.output = o] : o \in SampleField(p.output, base.output)}
        fields == UNION {{[u EXCEPT !.read = r] : r \in SampleField(p.read, base.read)} : u \in outputs}
        created(u) == IF u.creation = 0 \/ SamplePolicyTarget(p.creation) = 0 THEN {u}
                      ELSE {CapCacheCreationBreakdown(u, v) : v \in SampleCacheCreation(p.creation, u)}
        ttl(u) == IF p.ttlFields THEN u ELSE [u EXCEPT !.m5 = 0, !.h1 = 0]
    IN  {ttl(NormalizedUsage(v)) : v \in UNION {SampleInput(c, p) : c \in UNION {created(u) : u \in fields}}}

\* The possible reports, and whether the simulation was used for them.  sim:
\* the plan's usage [read, creation, hour], all zero without a plan.
ApplyReportProfile(raw, sim, profile) ==
    LET p == NormalizedProfile(profile)
        simulates == raw.read = 0 /\ raw.creation = 0 /\ sim.read + sim.creation > 0
        computed == IF simulates THEN {NormalizedUsage(c) : c \in ToReportUsage(raw, sim, p)}
                    ELSE {NormalizedUsage(raw)}
        plain == [usage |-> NormalizedUsage(raw), used |-> FALSE]
        report(c) == IF HasCache(c)
                     THEN {[usage |-> u, used |-> simulates] : u \in Projected(c, NormalizedUsage(raw), p)}
                     ELSE {plain}
    IN  IF ~profile.enabled THEN {plain} ELSE UNION {report(c) : c \in computed}
============================================================================
