------------------------- MODULE RedisRuntimeProofs -------------------------
(***************************************************************************)
(* Proofs about RedisRuntime for any sets of accounts, models and          *)
(* reservations, any limits and any TTLs.                                  *)
(***************************************************************************)
EXTENDS RedisRuntime, SumProofs, FiniteSetTheorems, TLAPS

\* Updating one cell of a table of functions keeps its type.
LEMMA UpdateCell ==
  ASSUME NEW A, NEW B, NEW V, NEW f \in [A -> [B -> V]],
         NEW a \in A, NEW b \in B, NEW v \in V
  PROVE  [f EXCEPT ![a][b] = v] \in [A -> [B -> V]]
OBVIOUS

\* The next-state relation preserves the type invariant of the Redis keys.
LEMMA TypeOKStep == TypeOK /\ [Next]_vars => TypeOK'
<1> SUFFICES ASSUME TypeOK, [Next]_vars PROVE TypeOK'
  OBVIOUS
<1> USE RuntimeAssumption DEF TypeOK, ModelArg, leaseVars, counterVars
<1>1. ASSUME NEW r \in Reservations, NEW c \in Creds, NEW m \in ModelArg,
             ReserveScript(r, c, m), cooldown' = cooldown,
             held' \in SUBSET Reservations, renewing' \in SUBSET Reservations
      PROVE  TypeOK'
  <2>1. m # NoModel => m \in Models
    OBVIOUS
  <2>2. modelCount' \in [Creds -> [Models -> Nat]]
    BY <1>1, <2>1 DEF ReserveScript
  <2>3. modelTTL' \in [Creds -> [Models -> 0..LeaseTTL]]
    BY <1>1, <2>1 DEF ReserveScript
  <2>4. /\ count' \in [Creds -> Nat]
        /\ countTTL' \in [Creds -> 0..LeaseTTL]
    BY <1>1 DEF ReserveScript
  <2>5. /\ lease' \in [Reservations -> 0..LeaseTTL]
        /\ credOf' \in [Reservations -> Creds]
        /\ modelOf' \in [Reservations -> ModelArg]
    BY <1>1 DEF ReserveScript
  <2> QED BY <1>1, <2>2, <2>3, <2>4, <2>5
<1>2. ASSUME NEW r \in Reservations, NEW c \in Creds, NEW m \in ModelArg,
             TryReserve(r, c, m)
      PROVE  TypeOK'
  BY <1>1, <1>2 DEF TryReserve
<1>3. ASSUME NEW r \in Reservations, NEW c \in Creds, NEW m \in ModelArg,
             TryReserveReplyLost(r, c, m)
      PROVE  TypeOK'
  BY <1>1, <1>3 DEF TryReserveReplyLost
<1>4. ASSUME NEW r \in Reservations, Extend(r) PROVE TypeOK'
  <2>1. credOf[r] \in Creds /\ (modelOf[r] = NoModel \/ modelOf[r] \in Models)
    OBVIOUS
  <2>2. modelTTL' \in [Creds -> [Models -> 0..LeaseTTL]]
    BY <1>4, <2>1 DEF Extend, ExtendScript
  <2>3. /\ countTTL' \in [Creds -> 0..LeaseTTL]
        /\ lease' \in [Reservations -> 0..LeaseTTL]
    BY <1>4, <2>1 DEF Extend, ExtendScript
  <2> QED BY <1>4, <2>2, <2>3 DEF Extend
<1>5. ASSUME NEW r \in Reservations, StartRenewal(r) \/ ExtendGone(r) \/ StopRenewal(r)
      PROVE  TypeOK'
  BY <1>5 DEF StartRenewal, ExtendGone, StopRenewal
<1>6. ASSUME NEW r \in Reservations, Release(r) PROVE TypeOK'
  <2>1. CASE Live(r)
    <3>1. credOf[r] \in Creds /\ (modelOf[r] = NoModel \/ modelOf[r] \in Models)
      OBVIOUS
    <3>2. ASSUME modelOf[r] \in Models
          PROVE  /\ modelCount' \in [Creds -> [Models -> Nat]]
                 /\ modelTTL' \in [Creds -> [Models -> 0..LeaseTTL]]
      <4> DEFINE n == modelCount[credOf[r]][modelOf[r]]
                 t == modelTTL[credOf[r]][modelOf[r]]
      <4>1. n \in Nat /\ t \in 0..LeaseTTL
        BY <3>1, <3>2
      <4>2. Less(n) \in Nat /\ (IF n > 1 THEN t ELSE 0) \in 0..LeaseTTL
        BY <4>1 DEF Less
      <4>3. /\ modelCount' = [modelCount EXCEPT ![credOf[r]][modelOf[r]] = Less(n)]
            /\ modelTTL' = [modelTTL EXCEPT ![credOf[r]][modelOf[r]] =
                              IF n > 1 THEN t ELSE 0]
        BY <1>6, <2>1, <3>2 DEF Release, ReleaseScript
      <4> HIDE DEF n, t
      <4> QED BY <3>1, <3>2, <4>2, <4>3, UpdateCell
    <3>3. ASSUME modelOf[r] = NoModel
          PROVE  /\ modelCount' \in [Creds -> [Models -> Nat]]
                 /\ modelTTL' \in [Creds -> [Models -> 0..LeaseTTL]]
      BY <1>6, <2>1, <3>3 DEF Release, ReleaseScript
    <3>4. count' \in [Creds -> Nat]
      <4>1. count' = [count EXCEPT ![credOf[r]] = Less(count[credOf[r]])]
        BY <1>6, <2>1 DEF Release, ReleaseScript
      <4>2. Less(count[credOf[r]]) \in Nat
        BY <3>1 DEF Less
      <4> QED BY <4>1, <4>2
    <3>5. countTTL' \in [Creds -> 0..LeaseTTL]
      <4>1. countTTL' = [countTTL EXCEPT ![credOf[r]] =
                           IF count[credOf[r]] > 1 THEN countTTL[credOf[r]] ELSE 0]
        BY <1>6, <2>1 DEF Release, ReleaseScript
      <4> QED BY <3>1, <4>1
    <3>6. lease' \in [Reservations -> 0..LeaseTTL]
      BY <1>6, <2>1 DEF Release, ReleaseScript
    <3> QED BY <1>6, <3>1, <3>2, <3>3, <3>4, <3>5, <3>6 DEF Release
  <2>2. CASE ~Live(r)
    BY <1>6, <2>2 DEF Release, ReleaseScript
  <2> QED BY <2>1, <2>2
<1>7. ASSUME NEW r \in Reservations, ReleaseLost(r) PROVE TypeOK'
  BY <1>7 DEF ReleaseLost
<1>8. ASSUME NEW c \in Creds, NEW m \in ModelArg, ClearCooldown(c, m) PROVE TypeOK'
  <2> DEFINE cleared == [n \in ModelArg |-> IF n \in {NoModel, m} THEN 0 ELSE cooldown[c][n]]
  <2>1. cleared \in [ModelArg -> 0..CooldownTTL]
    OBVIOUS
  <2>2. cooldown' = [cooldown EXCEPT ![c] = cleared]
    BY <1>8 DEF ClearCooldown
  <2>3. cooldown' \in [Creds -> [ModelArg -> 0..CooldownTTL]]
    BY <2>1, <2>2
  <2> QED BY <1>8, <2>3 DEF ClearCooldown
<1>9. ASSUME NEW c \in Creds, NEW m \in ModelArg, NEW ttl \in 1..CooldownTTL,
             SetCooldown(c, m, ttl)
      PROVE  TypeOK'
  <2>1. cooldown' = [cooldown EXCEPT ![c][m] = ttl] /\ ttl \in 0..CooldownTTL
    BY <1>9 DEF SetCooldown
  <2>2. cooldown' \in [Creds -> [ModelArg -> 0..CooldownTTL]]
    BY ONLY <2>1, TypeOK, UpdateCell DEF TypeOK
  <2> QED BY <1>9, <2>2 DEF SetCooldown
<1>10. ASSUME NEW dead \in SUBSET (held \cup renewing), Crash(dead) PROVE TypeOK'
  BY <1>10 DEF Crash
<1>11. CASE Tick
  BY <1>11 DEF Tick, Elapse
<1>12. CASE UNCHANGED vars
  BY <1>12 DEF vars
<1> QED
  BY <1>2, <1>3, <1>4, <1>5, <1>6, <1>7, <1>8, <1>9, <1>10, <1>11, <1>12 DEF Next

\* Every reachable state of the runtime store is well typed: TTLs stay within
\* their bounds and no counter goes negative.
THEOREM TypeCorrect == Spec => []TypeOK
<1>1. Init => TypeOK
  BY RuntimeAssumption DEF Init, TypeOK, ModelArg, NoKeys
<1> QED BY <1>1, TypeOKStep, PTL DEF Spec
-----------------------------------------------------------------------------
(***************************************************************************)
(* Live leases and their cardinality                                       *)
(***************************************************************************)

\* There are finitely many live leases.
LEMMA LiveFinite ==
  \A c \in Creds : /\ IsFiniteSet(LiveOn(c))
                   /\ Cardinality(LiveOn(c)) \in Nat
                   /\ \A m \in Models : /\ IsFiniteSet(LiveOnModel(c, m))
                                        /\ Cardinality(LiveOnModel(c, m)) \in Nat
<1> TAKE c \in Creds
<1>1. LiveOn(c) \in SUBSET Reservations
  BY DEF LiveOn
<1>2. IsFiniteSet(LiveOn(c))
  BY <1>1, RuntimeAssumption, FS_Subset
<1>3. ASSUME NEW m \in Models PROVE IsFiniteSet(LiveOnModel(c, m))
  <2>1. LiveOnModel(c, m) \in SUBSET LiveOn(c)
    BY DEF LiveOnModel
  <2> QED BY <1>2, <2>1, FS_Subset
<1> QED BY <1>2, <1>3, FS_CardinalityType

\* Adding an element adds at most one to the cardinality.
LEMMA AddOne ==
  ASSUME NEW S, IsFiniteSet(S), NEW x
  PROVE  Cardinality(S \cup {x}) <= Cardinality(S) + 1
<1>1. Cardinality(S) \in Nat
  BY FS_CardinalityType
<1>2. Cardinality(S \cup {x}) = IF x \in S THEN Cardinality(S) ELSE Cardinality(S) + 1
  BY FS_AddElement
<1> QED BY <1>1, <1>2

\* A finite set that holds x and has at most one element is {x}.
LEMMA OneElement ==
  ASSUME NEW S, IsFiniteSet(S), NEW x \in S, Cardinality(S) <= 1
  PROVE  S = {x}
<1>1. /\ IsFiniteSet(S \ {x})
      /\ Cardinality(S \ {x}) = Cardinality(S) - 1
  BY FS_RemoveElement
<1>2. Cardinality(S \ {x}) \in Nat /\ Cardinality(S) \in Nat
  BY <1>1, FS_CardinalityType
<1>3. Cardinality(S \ {x}) = 0
  BY <1>1, <1>2
<1> QED BY <1>1, <1>3, FS_EmptySet

\* A step that leaves the leases and the counters alone preserves RuntimeInv.
LEMMA IdleStep ==
  ASSUME RuntimeInv, TypeOK', UNCHANGED <<leaseVars, counterVars>>
  PROVE  RuntimeInv'
BY DEF RuntimeInv, LeasesCounted, ModelLeasesCounted, CountersOutliveLeases,
       CountWithinCap, LiveOn, LiveOnModel, Live, leaseVars, counterVars
-----------------------------------------------------------------------------
(***************************************************************************)
(* RuntimeInv is preserved by each script and by time                      *)
(***************************************************************************)

\* reserveScript: one more lease, one more counted, all TTLs at their maximum.
LEMMA ReserveStep ==
  ASSUME NEW r \in Reservations, NEW c \in Creds, NEW m \in ModelArg,
         RuntimeInv, TypeOK', ~Live(r), ReserveScript(r, c, m)
  PROVE  RuntimeInv'
<1> USE RuntimeAssumption DEF RuntimeInv, TypeOK
<1>1. ASSUME NEW d \in Creds
      PROVE  LiveOn(d)' = IF d = c THEN LiveOn(d) \cup {r} ELSE LiveOn(d)
  BY DEF LiveOn, Live, ReserveScript
<1>2. LeasesCounted'
  <2> SUFFICES ASSUME NEW d \in Creds PROVE Cardinality(LiveOn(d)') <= count'[d]
    BY DEF LeasesCounted
  <2>1. Cardinality(LiveOn(d)) <= count[d] /\ count[d] \in Nat
    BY DEF LeasesCounted
  <2>2. IsFiniteSet(LiveOn(d)) /\ Cardinality(LiveOn(d)) \in Nat
    BY LiveFinite
  <2>3. CASE d = c
    <3>1. count'[d] = count[d] + 1
      BY <2>3 DEF ReserveScript
    <3>2. Cardinality(LiveOn(d) \cup {r}) <= Cardinality(LiveOn(d)) + 1
      BY <2>2, AddOne
    <3>3. Cardinality(LiveOn(d)') = Cardinality(LiveOn(d) \cup {r})
      BY <1>1, <2>3
    <3>4. Cardinality(LiveOn(d) \cup {r}) \in Nat
      BY <2>2, FS_AddElement, FS_CardinalityType
    <3> QED BY <2>1, <2>2, <3>1, <3>2, <3>3, <3>4
  <2>4. CASE d # c
    <3>1. count'[d] = count[d]
      BY <2>4 DEF ReserveScript
    <3>2. LiveOn(d)' = LiveOn(d)
      BY <1>1, <2>4
    <3> QED BY <2>1, <3>1, <3>2
  <2> QED BY <2>3, <2>4
<1>3. ModelLeasesCounted'
  <2> SUFFICES ASSUME NEW d \in Creds, NEW n \in Models
               PROVE  Cardinality(LiveOnModel(d, n)') <= modelCount'[d][n]
    BY DEF ModelLeasesCounted
  <2>1. Cardinality(LiveOnModel(d, n)) <= modelCount[d][n] /\ modelCount[d][n] \in Nat
    BY DEF ModelLeasesCounted
  <2>2. IsFiniteSet(LiveOnModel(d, n)) /\ Cardinality(LiveOnModel(d, n)) \in Nat
    BY LiveFinite
  <2>3. CASE d = c /\ n = m
    <3>1. modelCount'[d][n] = modelCount[d][n] + 1
      BY <2>3 DEF ReserveScript
    <3>2. LiveOnModel(d, n)' = LiveOnModel(d, n) \cup {r}
      BY <2>3 DEF LiveOnModel, LiveOn, Live, ReserveScript
    <3>3. Cardinality(LiveOnModel(d, n) \cup {r}) <= Cardinality(LiveOnModel(d, n)) + 1
      BY <2>2, AddOne
    <3>4. Cardinality(LiveOnModel(d, n) \cup {r}) \in Nat
      BY <2>2, FS_AddElement, FS_CardinalityType
    <3> QED BY <2>1, <2>2, <3>1, <3>2, <3>3, <3>4
  <2>4. CASE ~(d = c /\ n = m)
    <3>1. modelCount'[d][n] = modelCount[d][n]
      BY <2>4 DEF ReserveScript, ModelArg
    <3>2. LiveOnModel(d, n)' = LiveOnModel(d, n)
      BY <2>4 DEF LiveOnModel, LiveOn, Live, ReserveScript
    <3> QED BY <2>1, <3>1, <3>2
  <2> QED BY <2>3, <2>4
<1>4. CountersOutliveLeases'
  <2> SUFFICES ASSUME NEW q \in Reservations, Live(q)'
               PROVE  /\ lease'[q] <= countTTL'[credOf'[q]]
                      /\ modelOf'[q] # NoModel =>
                           lease'[q] <= modelTTL'[credOf'[q]][modelOf'[q]]
    BY DEF CountersOutliveLeases
  <2>1. CASE q = r
    <3>1. lease'[q] = LeaseTTL /\ credOf'[q] = c /\ modelOf'[q] = m
      BY <2>1 DEF ReserveScript
    <3>2. countTTL'[c] = LeaseTTL
      BY DEF ReserveScript
    <3>3. m # NoModel => modelTTL'[c][m] = LeaseTTL
      BY DEF ReserveScript, ModelArg
    <3> QED BY <3>1, <3>2, <3>3
  <2>2. CASE q # r
    <3>1. lease'[q] = lease[q] /\ credOf'[q] = credOf[q] /\ modelOf'[q] = modelOf[q]
      BY <2>2 DEF ReserveScript
    <3>2. Live(q)
      BY <3>1 DEF Live
    <3>3. countTTL'[credOf[q]] \in {countTTL[credOf[q]], LeaseTTL}
      BY DEF ReserveScript
    <3>4. ASSUME modelOf[q] # NoModel
          PROVE  modelTTL'[credOf[q]][modelOf[q]] \in
                   {modelTTL[credOf[q]][modelOf[q]], LeaseTTL}
      BY <3>4 DEF ReserveScript, ModelArg
    <3>5. lease[q] \in 0..LeaseTTL
      OBVIOUS
    <3> QED BY <3>1, <3>2, <3>3, <3>4, <3>5 DEF CountersOutliveLeases
  <2> QED BY <2>1, <2>2
<1>5. CountWithinCap'
  <2> SUFFICES ASSUME NEW d \in Creds, MaxInFlight[d] > 0
               PROVE  count'[d] <= MaxInFlight[d]
    BY DEF CountWithinCap
  <2>1. count[d] \in Nat /\ count[d] <= MaxInFlight[d] /\ MaxInFlight[d] \in Nat
    BY DEF CountWithinCap
  <2>2. CASE d = c
    <3>1. count'[d] = count[d] + 1 /\ count[d] < MaxInFlight[d]
      BY <2>2 DEF ReserveScript, Admits
    <3> QED BY <2>1, <3>1
  <2>3. CASE d # c
    BY <2>1, <2>3 DEF ReserveScript
  <2> QED BY <2>2, <2>3
<1> QED BY <1>2, <1>3, <1>4, <1>5

\* extendScript: the same leases stay alive; lease and counters get a full TTL.
LEMMA ExtendStep ==
  ASSUME NEW r \in Reservations, RuntimeInv, TypeOK', Extend(r)
  PROVE  RuntimeInv'
<1> USE RuntimeAssumption DEF RuntimeInv, TypeOK
<1>1. ASSUME NEW q \in Reservations PROVE Live(q)' <=> Live(q)
  BY DEF Live, Extend, ExtendScript
<1>2. \A d \in Creds : LiveOn(d)' = LiveOn(d)
  BY <1>1 DEF LiveOn, Extend
<1>3. \A d \in Creds, n \in Models : LiveOnModel(d, n)' = LiveOnModel(d, n)
  BY <1>2 DEF LiveOnModel, Extend
<1>4. LeasesCounted' /\ ModelLeasesCounted' /\ CountWithinCap'
  BY <1>2, <1>3 DEF LeasesCounted, ModelLeasesCounted, CountWithinCap, Extend
<1>5. CountersOutliveLeases'
  <2> SUFFICES ASSUME NEW q \in Reservations, Live(q)'
               PROVE  /\ lease'[q] <= countTTL'[credOf[q]]
                      /\ modelOf[q] # NoModel =>
                           lease'[q] <= modelTTL'[credOf[q]][modelOf[q]]
    BY DEF CountersOutliveLeases, Extend
  <2>1. Live(q) /\ Live(r)
    BY <1>1 DEF Extend
  <2>2. /\ lease[q] \in 1..LeaseTTL /\ lease[r] \in 1..LeaseTTL
        /\ lease'[q] = IF q = r THEN LeaseTTL ELSE lease[q]
    BY <2>1 DEF Live, Extend, ExtendScript
  <2>3. /\ lease[q] <= countTTL[credOf[q]]
        /\ lease[r] <= countTTL[credOf[r]]
    BY <2>1 DEF CountersOutliveLeases
  <2>4. countTTL'[credOf[q]] =
          IF credOf[q] = credOf[r] THEN LeaseTTL ELSE countTTL[credOf[q]]
    BY <2>2, <2>3 DEF Extend, ExtendScript
  <2>5. lease'[q] <= countTTL'[credOf[q]]
    BY <2>2, <2>3, <2>4
  <2>6. ASSUME modelOf[q] # NoModel
        PROVE  lease'[q] <= modelTTL'[credOf[q]][modelOf[q]]
    <3>1. modelOf[q] \in Models /\ credOf[q] \in Creds
      BY <2>6 DEF ModelArg
    <3>2. lease[q] <= modelTTL[credOf[q]][modelOf[q]]
      BY <2>1, <2>6 DEF CountersOutliveLeases
    <3>3. modelOf[r] # NoModel => lease[r] <= modelTTL[credOf[r]][modelOf[r]]
      BY <2>1 DEF CountersOutliveLeases
    <3>4. CASE credOf[q] = credOf[r] /\ modelOf[q] = modelOf[r]
      <4>1. modelTTL[credOf[r]][modelOf[r]] > 0
        BY <2>2, <2>6, <3>3, <3>4, <3>1
      <4>2. modelTTL'[credOf[q]][modelOf[q]] = LeaseTTL
        BY <2>6, <3>1, <3>4, <4>1 DEF Extend, ExtendScript
      <4> QED BY <2>2, <4>2
    <3>5. CASE ~(credOf[q] = credOf[r] /\ modelOf[q] = modelOf[r])
      <4>1. modelTTL'[credOf[q]][modelOf[q]] = modelTTL[credOf[q]][modelOf[q]]
        BY <3>1, <3>5 DEF Extend, ExtendScript
      <4>2. q # r
        BY <3>5
      <4> QED BY <2>2, <3>2, <4>1, <4>2
    <3> QED BY <3>4, <3>5
  <2> QED BY <2>5, <2>6
<1> QED BY <1>4, <1>5

\* releaseScript on a live lease: one lease less, one counted less; the counter
\* key is deleted only when the released lease was the last one counted.
LEMMA ReleaseStep ==
  ASSUME NEW r \in Reservations, RuntimeInv, TypeOK', Release(r), Live(r)
  PROVE  RuntimeInv'
<1> USE RuntimeAssumption DEF RuntimeInv, TypeOK
<1> DEFINE c == credOf[r]
           m == modelOf[r]
<1>1. /\ lease' = [lease EXCEPT ![r] = 0]
      /\ credOf' = credOf /\ modelOf' = modelOf
      /\ count' = [count EXCEPT ![c] = Less(count[c])]
      /\ countTTL' = [countTTL EXCEPT ![c] = IF count[c] > 1 THEN countTTL[c] ELSE 0]
  BY DEF Release, ReleaseScript
<1>2. m # NoModel =>
      /\ modelCount' = [modelCount EXCEPT ![c][m] = Less(modelCount[c][m])]
      /\ modelTTL' = [modelTTL EXCEPT ![c][m] =
                        IF modelCount[c][m] > 1 THEN modelTTL[c][m] ELSE 0]
  BY DEF Release, ReleaseScript
<1>3. m = NoModel => UNCHANGED <<modelCount, modelTTL>>
  BY DEF Release, ReleaseScript
<1>4. c \in Creds /\ (m # NoModel => m \in Models)
  BY DEF ModelArg
<1> HIDE DEF c, m
<1>5. ASSUME NEW d \in Creds PROVE LiveOn(d)' = LiveOn(d) \ {r}
  BY <1>1 DEF LiveOn, Live
<1>6. ASSUME NEW d \in Creds, NEW n \in Models
      PROVE  LiveOnModel(d, n)' = LiveOnModel(d, n) \ {r}
  BY <1>1, <1>5 DEF LiveOnModel
<1>7. r \in LiveOn(c) /\ (m # NoModel => r \in LiveOnModel(c, m))
  BY DEF LiveOn, LiveOnModel, c, m
<1>8. ASSUME NEW d \in Creds, d # c PROVE r \notin LiveOn(d)
  BY <1>8 DEF LiveOn, c
<1>9. LeasesCounted'
  <2> SUFFICES ASSUME NEW d \in Creds PROVE Cardinality(LiveOn(d)') <= count'[d]
    BY DEF LeasesCounted
  <2>1. /\ IsFiniteSet(LiveOn(d)) /\ Cardinality(LiveOn(d)) \in Nat
        /\ Cardinality(LiveOn(d)) <= count[d] /\ count[d] \in Nat
    BY LiveFinite DEF LeasesCounted
  <2>2. CASE d = c
    <3>1. Cardinality(LiveOn(d) \ {r}) = Cardinality(LiveOn(d)) - 1
      BY <1>7, <2>1, <2>2, FS_RemoveElement
    <3>2. Cardinality(LiveOn(d)) # 0
      BY <1>7, <2>1, <2>2, FS_EmptySet
    <3>3. count'[d] = Less(count[d])
      BY <1>1, <1>4, <2>2
    <3>4. count[d] >= 1
      BY ONLY <2>1, <3>2
    <3>5. count'[d] = count[d] - 1
      BY ONLY <2>1, <3>3, <3>4 DEF Less
    <3>6. Cardinality(LiveOn(d)') = Cardinality(LiveOn(d)) - 1
      BY <1>5, <3>1
    <3> QED BY ONLY <2>1, <3>5, <3>6
  <2>3. CASE d # c
    <3>1. LiveOn(d)' = LiveOn(d)
      <4>1. LiveOn(d)' = LiveOn(d) \ {r}
        BY <1>5
      <4>2. r \notin LiveOn(d)
        BY <1>8, <2>3
      <4> QED BY ONLY <4>1, <4>2
    <3>2. count'[d] = count[d]
      BY <1>1, <2>3
    <3> QED BY <2>1, <3>1, <3>2
  <2> QED BY <2>2, <2>3
<1>10. ModelLeasesCounted'
  <2> SUFFICES ASSUME NEW d \in Creds, NEW n \in Models
               PROVE  Cardinality(LiveOnModel(d, n)') <= modelCount'[d][n]
    BY DEF ModelLeasesCounted
  <2>1. /\ IsFiniteSet(LiveOnModel(d, n)) /\ Cardinality(LiveOnModel(d, n)) \in Nat
        /\ Cardinality(LiveOnModel(d, n)) <= modelCount[d][n]
        /\ modelCount[d][n] \in Nat
    BY LiveFinite DEF ModelLeasesCounted
  <2>2. CASE d = c /\ n = m
    <3>1. m # NoModel
      BY <2>2
    <3>2. Cardinality(LiveOnModel(d, n) \ {r}) = Cardinality(LiveOnModel(d, n)) - 1
      BY <1>7, <2>1, <2>2, <3>1, FS_RemoveElement
    <3>3. Cardinality(LiveOnModel(d, n)) # 0
      BY <1>7, <2>1, <2>2, <3>1, FS_EmptySet
    <3>4. modelCount'[d][n] = Less(modelCount[d][n])
      BY <1>2, <1>4, <2>2, <3>1
    <3>5. modelCount[d][n] >= 1
      BY ONLY <2>1, <3>3
    <3>6. modelCount'[d][n] = modelCount[d][n] - 1
      BY ONLY <2>1, <3>4, <3>5 DEF Less
    <3>7. Cardinality(LiveOnModel(d, n)') = Cardinality(LiveOnModel(d, n)) - 1
      BY <1>6, <3>2
    <3> QED BY ONLY <2>1, <3>6, <3>7
  <2>3. CASE ~(d = c /\ n = m)
    <3>1. r \notin LiveOnModel(d, n)
      BY <2>3 DEF LiveOnModel, LiveOn, c, m
    <3>2. modelCount'[d][n] = modelCount[d][n]
      BY <1>2, <1>3, <1>4, <2>3
    <3>3. LiveOnModel(d, n)' = LiveOnModel(d, n) \ {r}
      BY <1>6
    <3>4. LiveOnModel(d, n)' = LiveOnModel(d, n)
      BY ONLY <3>1, <3>3
    <3> QED BY <2>1, <3>2, <3>4
  <2> QED BY <2>2, <2>3
<1>11. CountersOutliveLeases'
  <2> SUFFICES ASSUME NEW q \in Reservations, Live(q)'
               PROVE  /\ lease'[q] <= countTTL'[credOf[q]]
                      /\ modelOf[q] # NoModel =>
                           lease'[q] <= modelTTL'[credOf[q]][modelOf[q]]
    BY <1>1 DEF CountersOutliveLeases
  <2>1. q # r /\ lease'[q] = lease[q] /\ Live(q)
    BY <1>1 DEF Live
  <2>2. /\ lease[q] <= countTTL[credOf[q]]
        /\ modelOf[q] # NoModel => lease[q] <= modelTTL[credOf[q]][modelOf[q]]
    BY <2>1 DEF CountersOutliveLeases
  <2>3. credOf[q] \in Creds /\ (modelOf[q] # NoModel => modelOf[q] \in Models)
    BY DEF ModelArg
  <2>4. ASSUME credOf[q] = c PROVE count[c] > 1
    <3>1. q \in LiveOn(c)
      BY <2>1, <2>4 DEF LiveOn
    <3>2. LiveOn(c) # {r}
      BY <2>1, <3>1
    <3>3. /\ IsFiniteSet(LiveOn(c)) /\ Cardinality(LiveOn(c)) \in Nat
          /\ Cardinality(LiveOn(c)) <= count[c] /\ count[c] \in Nat
      BY <1>4, LiveFinite DEF LeasesCounted
    <3>4. ~(Cardinality(LiveOn(c)) <= 1)
      BY <1>7, <3>2, <3>3, OneElement
    <3> QED BY <3>3, <3>4
  <2>5. countTTL'[credOf[q]] = countTTL[credOf[q]]
    BY <1>1, <1>4, <2>3, <2>4
  <2>6. ASSUME modelOf[q] # NoModel
        PROVE  modelTTL'[credOf[q]][modelOf[q]] = modelTTL[credOf[q]][modelOf[q]]
    <3>1. CASE credOf[q] = c /\ modelOf[q] = m
      <4>1. q \in LiveOnModel(c, m) /\ m \in Models
        BY <2>1, <2>3, <2>6, <3>1 DEF LiveOnModel, LiveOn
      <4>2. LiveOnModel(c, m) # {r}
        BY <2>1, <4>1
      <4>3. /\ IsFiniteSet(LiveOnModel(c, m)) /\ Cardinality(LiveOnModel(c, m)) \in Nat
            /\ Cardinality(LiveOnModel(c, m)) <= modelCount[c][m]
            /\ modelCount[c][m] \in Nat
        BY <1>4, <4>1, LiveFinite DEF ModelLeasesCounted
      <4>4. ~(Cardinality(LiveOnModel(c, m)) <= 1)
        BY <1>7, <2>6, <3>1, <4>2, <4>3, OneElement
      <4>5. modelCount[c][m] > 1
        BY <4>3, <4>4
      <4> QED BY <1>2, <1>4, <2>6, <3>1, <4>5
    <3>2. CASE ~(credOf[q] = c /\ modelOf[q] = m)
      BY <1>2, <1>3, <1>4, <2>3, <2>6, <3>2
    <3> QED BY <3>1, <3>2
  <2> QED BY <2>1, <2>2, <2>5, <2>6
<1>12. CountWithinCap'
  <2> SUFFICES ASSUME NEW d \in Creds, MaxInFlight[d] > 0
               PROVE  count'[d] <= MaxInFlight[d]
    BY DEF CountWithinCap
  <2>1. count[d] \in Nat /\ count[d] <= MaxInFlight[d] /\ MaxInFlight[d] \in Nat
    BY DEF CountWithinCap
  <2>2. Less(count[d]) <= count[d] /\ Less(count[d]) \in Nat
    BY <2>1 DEF Less
  <2>3. count'[d] \in {count[d], Less(count[d])}
    BY <1>1, <1>4
  <2> QED BY <2>1, <2>2, <2>3
<1> QED BY <1>9, <1>10, <1>11, <1>12

\* A tick: leases only disappear, and where a counter key dies no lease is left.
LEMMA TickStep ==
  ASSUME RuntimeInv, TypeOK', Tick
  PROVE  RuntimeInv'
<1> USE RuntimeAssumption DEF RuntimeInv, TypeOK
<1>1. ASSUME NEW q \in Reservations, Live(q)'
      PROVE  /\ Live(q) /\ lease[q] \in Nat /\ lease[q] > 1
             /\ lease'[q] = lease[q] - 1
  BY <1>1 DEF Live, Tick, Elapse
<1>2. ASSUME NEW d \in Creds, LiveOn(d)' # {}
      PROVE  countTTL[d] > 1 /\ countTTL'[d] = countTTL[d] - 1 /\ count'[d] = count[d]
  <2>1. PICK q \in Reservations : Live(q)' /\ credOf[q] = d
    BY <1>2 DEF LiveOn, Tick
  <2>2. lease[q] <= countTTL[d] /\ countTTL[d] \in Nat
    BY <1>1, <2>1 DEF CountersOutliveLeases
  <2>3. countTTL[d] > 1
    BY <1>1, <2>1, <2>2
  <2> QED BY <2>2, <2>3 DEF Tick, Elapse
<1>3. ASSUME NEW d \in Creds, NEW n \in Models, LiveOnModel(d, n)' # {}
      PROVE  /\ modelTTL[d][n] > 1 /\ modelTTL'[d][n] = modelTTL[d][n] - 1
             /\ modelCount'[d][n] = modelCount[d][n]
  <2>1. PICK q \in Reservations : Live(q)' /\ credOf[q] = d /\ modelOf[q] = n
    BY <1>3 DEF LiveOnModel, LiveOn, Tick
  <2>2. lease[q] <= modelTTL[d][n] /\ modelTTL[d][n] \in Nat
    BY <1>1, <2>1 DEF CountersOutliveLeases
  <2>3. modelTTL[d][n] > 1
    BY <1>1, <2>1, <2>2
  <2> QED BY <2>2, <2>3 DEF Tick, Elapse
<1>4. LeasesCounted'
  <2> SUFFICES ASSUME NEW d \in Creds PROVE Cardinality(LiveOn(d)') <= count'[d]
    BY DEF LeasesCounted
  <2>1. LiveOn(d)' \in SUBSET LiveOn(d)
    BY <1>1 DEF LiveOn, Tick
  <2>2. /\ Cardinality(LiveOn(d)') <= Cardinality(LiveOn(d))
        /\ Cardinality(LiveOn(d)') \in Nat
    BY <2>1, LiveFinite, FS_Subset, FS_CardinalityType
  <2>3. /\ Cardinality(LiveOn(d)) <= count[d] /\ count[d] \in Nat
        /\ Cardinality(LiveOn(d)) \in Nat
    BY LiveFinite DEF LeasesCounted
  <2>4. CASE LiveOn(d)' = {}
    <3>1. Cardinality(LiveOn(d)') = 0
      BY <2>4, FS_EmptySet
    <3>2. count'[d] \in Nat
      OBVIOUS
    <3> QED BY <3>1, <3>2
  <2>5. CASE LiveOn(d)' # {}
    <3>1. count'[d] = count[d]
      BY <1>2, <2>5
    <3> QED BY ONLY <2>2, <2>3, <3>1
  <2> QED BY <2>4, <2>5
<1>5. ModelLeasesCounted'
  <2> SUFFICES ASSUME NEW d \in Creds, NEW n \in Models
               PROVE  Cardinality(LiveOnModel(d, n)') <= modelCount'[d][n]
    BY DEF ModelLeasesCounted
  <2>1. LiveOnModel(d, n)' \in SUBSET LiveOnModel(d, n)
    BY <1>1 DEF LiveOnModel, LiveOn, Tick
  <2>2. /\ Cardinality(LiveOnModel(d, n)') <= Cardinality(LiveOnModel(d, n))
        /\ Cardinality(LiveOnModel(d, n)') \in Nat
    BY <2>1, LiveFinite, FS_Subset, FS_CardinalityType
  <2>3. /\ Cardinality(LiveOnModel(d, n)) <= modelCount[d][n]
        /\ modelCount[d][n] \in Nat /\ Cardinality(LiveOnModel(d, n)) \in Nat
    BY LiveFinite DEF ModelLeasesCounted
  <2>4. CASE LiveOnModel(d, n)' = {}
    <3>1. Cardinality(LiveOnModel(d, n)') = 0
      BY <2>4, FS_EmptySet
    <3>2. modelCount'[d][n] \in Nat
      OBVIOUS
    <3> QED BY <3>1, <3>2
  <2>5. CASE LiveOnModel(d, n)' # {}
    <3>1. modelCount'[d][n] = modelCount[d][n]
      BY <1>3, <2>5
    <3> QED BY ONLY <2>2, <2>3, <3>1
  <2> QED BY <2>4, <2>5
<1>6. CountersOutliveLeases'
  <2> SUFFICES ASSUME NEW q \in Reservations, Live(q)'
               PROVE  /\ lease'[q] <= countTTL'[credOf[q]]
                      /\ modelOf[q] # NoModel =>
                           lease'[q] <= modelTTL'[credOf[q]][modelOf[q]]
    BY DEF CountersOutliveLeases, Tick
  <2>1. /\ lease[q] <= countTTL[credOf[q]]
        /\ modelOf[q] # NoModel => lease[q] <= modelTTL[credOf[q]][modelOf[q]]
        /\ lease[q] \in Nat /\ lease[q] > 1 /\ lease'[q] = lease[q] - 1
    BY <1>1 DEF CountersOutliveLeases
  <2>2. credOf[q] \in Creds /\ (modelOf[q] # NoModel => modelOf[q] \in Models)
    BY DEF ModelArg
  <2>3. /\ countTTL[credOf[q]] \in Nat
        /\ countTTL'[credOf[q]] = Elapse(countTTL[credOf[q]])
    BY <2>2 DEF Tick
  <2>4. ASSUME modelOf[q] # NoModel
        PROVE  /\ modelTTL[credOf[q]][modelOf[q]] \in Nat
               /\ modelTTL'[credOf[q]][modelOf[q]] = Elapse(modelTTL[credOf[q]][modelOf[q]])
    BY <2>2, <2>4 DEF Tick
  <2> QED BY ONLY <2>1, <2>3, <2>4 DEF Elapse
<1>7. CountWithinCap'
  <2> SUFFICES ASSUME NEW d \in Creds, MaxInFlight[d] > 0
               PROVE  count'[d] <= MaxInFlight[d]
    BY DEF CountWithinCap
  <2>1. count[d] <= MaxInFlight[d] /\ MaxInFlight[d] \in Nat
    BY DEF CountWithinCap
  <2>2. count'[d] \in {0, count[d]}
    BY DEF Tick
  <2> QED BY <2>1, <2>2
<1> QED BY <1>4, <1>5, <1>6, <1>7
-----------------------------------------------------------------------------
\* The inductive invariant holds in every reachable state of the runtime store.
THEOREM RuntimeInvariant == Spec => []RuntimeInv
<1>1. Init => RuntimeInv
  <2> SUFFICES ASSUME Init PROVE RuntimeInv
    OBVIOUS
  <2>1. TypeOK
    BY RuntimeAssumption DEF Init, TypeOK, ModelArg, NoKeys
  <2>2. \A q \in Reservations : ~Live(q)
    BY DEF Init, Live
  <2>3. \A c \in Creds : LiveOn(c) = {} /\ \A m \in Models : LiveOnModel(c, m) = {}
    BY <2>2 DEF LiveOn, LiveOnModel
  <2>4. LeasesCounted
    BY <2>3, FS_EmptySet DEF LeasesCounted, Init
  <2>7. ModelLeasesCounted
    <3> SUFFICES ASSUME NEW c \in Creds, NEW m \in Models
                 PROVE  Cardinality(LiveOnModel(c, m)) <= modelCount[c][m]
      BY DEF ModelLeasesCounted
    <3>1. LiveOnModel(c, m) = {} /\ modelCount[c][m] = 0
      BY <2>3 DEF Init, NoKeys
    <3> QED BY <3>1, FS_EmptySet
  <2>5. CountersOutliveLeases
    BY <2>2 DEF CountersOutliveLeases
  <2>6. CountWithinCap
    BY RuntimeAssumption DEF CountWithinCap, Init
  <2> QED BY <2>1, <2>4, <2>5, <2>6, <2>7 DEF RuntimeInv
<1>2. RuntimeInv /\ [Next]_vars => RuntimeInv'
  <2> SUFFICES ASSUME RuntimeInv, [Next]_vars PROVE RuntimeInv'
    OBVIOUS
  <2>1. TypeOK'
    BY TypeOKStep DEF RuntimeInv
  <2>2. ASSUME NEW r \in Reservations, NEW c \in Creds, NEW m \in ModelArg,
               TryReserve(r, c, m) \/ TryReserveReplyLost(r, c, m)
        PROVE  RuntimeInv'
    BY <2>1, <2>2, ReserveStep DEF TryReserve, TryReserveReplyLost, Fresh
  <2>3. ASSUME NEW r \in Reservations, Extend(r) PROVE RuntimeInv'
    BY <2>1, <2>3, ExtendStep
  <2>4. ASSUME NEW r \in Reservations, Release(r) PROVE RuntimeInv'
    <3>1. CASE Live(r)
      BY <2>1, <2>4, <3>1, ReleaseStep
    <3>2. CASE ~Live(r)
      BY <2>1, <2>4, <3>2, IdleStep DEF Release, ReleaseScript, leaseVars, counterVars
    <3> QED BY <3>1, <3>2
  <2>5. ASSUME NEW r \in Reservations,
               StartRenewal(r) \/ ExtendGone(r) \/ StopRenewal(r) \/ ReleaseLost(r)
        PROVE  RuntimeInv'
    BY <2>1, <2>5, IdleStep DEF StartRenewal, ExtendGone, StopRenewal, ReleaseLost
  <2>6. ASSUME NEW c \in Creds, NEW m \in ModelArg,
               ClearCooldown(c, m) \/ \E ttl \in 1..CooldownTTL : SetCooldown(c, m, ttl)
        PROVE  RuntimeInv'
    BY <2>1, <2>6, IdleStep DEF ClearCooldown, SetCooldown
  <2>7. ASSUME NEW dead \in SUBSET (held \cup renewing), Crash(dead) PROVE RuntimeInv'
    BY <2>1, <2>7, IdleStep DEF Crash
  <2>8. CASE Tick
    BY <2>1, <2>8, TickStep
  <2>9. CASE UNCHANGED vars
    BY <2>1, <2>9, IdleStep DEF vars
  <2> QED BY <2>2, <2>3, <2>4, <2>5, <2>6, <2>7, <2>8, <2>9 DEF Next
<1> QED BY <1>1, <1>2, PTL DEF Spec

\* max_in_flight bounds the live leases of every account in every reachable
\* state, for any number of processes, requests, crashes and lost replies.
THEOREM CapCorrect == Spec => []CapRespected
<1>1. RuntimeInv => CapRespected
  <2> SUFFICES ASSUME RuntimeInv, NEW c \in Creds, MaxInFlight[c] > 0
               PROVE  Cardinality(LiveOn(c)) <= MaxInFlight[c]
    BY DEF CapRespected
  <2>1. /\ Cardinality(LiveOn(c)) <= count[c] /\ count[c] <= MaxInFlight[c]
        /\ count[c] \in Nat /\ MaxInFlight[c] \in Nat
    BY RuntimeAssumption
    DEF RuntimeInv, TypeOK, LeasesCounted, CountWithinCap
  <2> QED BY <2>1, LiveFinite
<1> QED BY <1>1, RuntimeInvariant, PTL
-----------------------------------------------------------------------------
(***************************************************************************)
(* The store implements LeaseLimiter                                       *)
(***************************************************************************)

\* The leases granted in the abstract limiter.
Granted == [c \in Creds |-> LiveOn(c)]

\* A step in which leases only go away is a withdrawal.
LEMMA WithdrawStep ==
  ASSUME TypeOK, TypeOK', credOf' = credOf,
         \A q \in Reservations : Live(q)' => Live(q)
  PROVE  \E gone \in SUBSET Reservations : Limiter!Withdraw(gone)
<1> DEFINE gone == {q \in Reservations : ~Live(q)'}
<1>1. \A c \in Creds : LiveOn(c)' = LiveOn(c) \ gone
  BY DEF LiveOn
<1>2. Granted' = [c \in Creds |-> LiveOn(c) \ gone]
  BY <1>1 DEF Granted
<1>3. \A c \in Creds : Granted[c] = LiveOn(c)
  BY DEF Granted
<1>4. Granted' = [c \in Creds |-> Granted[c] \ gone]
  BY <1>2, <1>3
<1>5. Limiter!Withdraw(gone)
  BY <1>4 DEF Limiter!Withdraw, Granted
<1> QED BY <1>5

\* The instance's Cardinality is the one of FiniteSets.
LEMMA SameCardinality == \A S : Limiter!Cardinality(S) = Cardinality(S)
BY Zenon DEF Cardinality, Limiter!Cardinality

\* A successful reserveScript is a grant below the limit, although the script
\* compares the counter and not the number of live leases.
LEMMA GrantStep ==
  ASSUME NEW r \in Reservations, NEW c \in Creds, NEW m \in ModelArg,
         RuntimeInv, ~Live(r), ReserveScript(r, c, m)
  PROVE  Limiter!Grant(r, c)
<1> USE RuntimeAssumption DEF RuntimeInv, TypeOK
<1>1. \A d \in Creds : r \notin Granted[d]
  BY DEF Granted, LiveOn
<1>2. MaxInFlight[c] = 0 \/ Cardinality(Granted[c]) < MaxInFlight[c]
  <2>1. Cardinality(LiveOn(c)) <= count[c] /\ count[c] \in Nat /\ MaxInFlight[c] \in Nat
    BY DEF LeasesCounted
  <2>2. MaxInFlight[c] > 0 => count[c] < MaxInFlight[c]
    BY DEF ReserveScript, Admits
  <2>3. Granted[c] = LiveOn(c) /\ Cardinality(LiveOn(c)) \in Nat
    BY LiveFinite DEF Granted
  <2> QED BY ONLY <2>1, <2>2, <2>3
<1>3. ASSUME NEW d \in Creds
      PROVE  LiveOn(d)' = IF d = c THEN LiveOn(d) \cup {r} ELSE LiveOn(d)
  BY DEF LiveOn, Live, ReserveScript
<1>4. Granted' = [Granted EXCEPT ![c] = Granted[c] \cup {r}]
  BY <1>3 DEF Granted
<1> QED
  BY <1>1, <1>2, <1>4, SameCardinality DEF Limiter!Grant, Limiter!BelowLimit, Granted

\* The Redis keys, scripts, TTLs and crashes implement the plain limiter.
THEOREM ImplementsLimiter == Spec => LimiterSpec
<1>1. Init => Limiter!Init
  <2> SUFFICES ASSUME Init PROVE Granted = [c \in Creds |-> {}]
    BY DEF Limiter!Init, Granted
  <2>1. \A c \in Creds : LiveOn(c) = {}
    BY DEF Init, Live, LiveOn
  <2> QED BY <2>1 DEF Granted
<1>2. RuntimeInv /\ RuntimeInv' /\ [Next]_vars => [Limiter!Next]_Granted
  <2> SUFFICES ASSUME RuntimeInv, RuntimeInv', [Next]_vars PROVE [Limiter!Next]_Granted
    OBVIOUS
  <2>1. TypeOK /\ TypeOK'
    BY DEF RuntimeInv
  <2>2. ASSUME NEW r \in Reservations, NEW c \in Creds, NEW m \in ModelArg,
               TryReserve(r, c, m) \/ TryReserveReplyLost(r, c, m)
        PROVE  [Limiter!Next]_Granted
    <3>1. Limiter!Grant(r, c)
      BY <2>2, GrantStep DEF TryReserve, TryReserveReplyLost, Fresh
    <3>2. Limiter!Next
      BY <3>1 DEF Limiter!Next
    <3> QED BY <3>2
  <2>3. ASSUME credOf' = credOf, \A q \in Reservations : Live(q)' => Live(q)
        PROVE  [Limiter!Next]_Granted
    BY <2>1, <2>3, WithdrawStep DEF Limiter!Next
  <2>4. ASSUME NEW r \in Reservations, Extend(r) PROVE [Limiter!Next]_Granted
    <3>1. credOf' = credOf /\ \A q \in Reservations : Live(q)' => Live(q)
      BY <2>1, <2>4, RuntimeAssumption DEF Extend, ExtendScript, Live, TypeOK
    <3> QED BY <2>3, <3>1
  <2>5. ASSUME NEW r \in Reservations, Release(r) PROVE [Limiter!Next]_Granted
    <3>1. credOf' = credOf /\ \A q \in Reservations : Live(q)' => Live(q)
      BY <2>1, <2>5, RuntimeAssumption DEF Release, ReleaseScript, Live, TypeOK
    <3> QED BY <2>3, <3>1
  <2>6. CASE Tick
    <3>1. credOf' = credOf /\ \A q \in Reservations : Live(q)' => Live(q)
      BY <2>1, <2>6, RuntimeAssumption DEF Tick, Elapse, Live, TypeOK
    <3> QED BY <2>3, <3>1
  <2>7. ASSUME UNCHANGED leaseVars PROVE [Limiter!Next]_Granted
    <3>1. credOf' = credOf /\ \A q \in Reservations : Live(q)' => Live(q)
      BY <2>7 DEF leaseVars, Live
    <3> QED BY <2>3, <3>1
  <2>8. ASSUME NEW r \in Reservations,
               StartRenewal(r) \/ ExtendGone(r) \/ StopRenewal(r) \/ ReleaseLost(r)
        PROVE  [Limiter!Next]_Granted
    BY <2>7, <2>8 DEF StartRenewal, ExtendGone, StopRenewal, ReleaseLost
  <2>9. ASSUME NEW c \in Creds, NEW m \in ModelArg,
               ClearCooldown(c, m) \/ \E ttl \in 1..CooldownTTL : SetCooldown(c, m, ttl)
        PROVE  [Limiter!Next]_Granted
    BY <2>7, <2>9 DEF ClearCooldown, SetCooldown
  <2>10. ASSUME NEW dead \in SUBSET (held \cup renewing), Crash(dead) PROVE [Limiter!Next]_Granted
    BY <2>7, <2>10 DEF Crash
  <2>11. CASE UNCHANGED vars
    BY <2>7, <2>11 DEF vars
  <2> QED BY <2>2, <2>4, <2>5, <2>6, <2>8, <2>9, <2>10, <2>11 DEF Next
<1> QED
  BY <1>1, <1>2, RuntimeInvariant, PTL DEF Spec, LimiterSpec, Limiter!Spec, Granted
-----------------------------------------------------------------------------
(***************************************************************************)
(* The counters of an account's models                                     *)
(***************************************************************************)

\* The live leases without a model: only the account's counter knows them.
Plain(c) == LiveOnModel(c, NoModel)

WithinAccount ==
  \A c \in Creds : SumOver(modelCount[c], Models) + Cardinality(Plain(c)) <= count[c]

\* A counter key exists exactly as long as it counts something, and a model's
\* key does not outlive the account's.
ModelKeysAgree ==
  \A c \in Creds, m \in Models :
    /\ modelCount[c][m] > 0 <=> modelTTL[c][m] > 0
    /\ modelTTL[c][m] <= countTTL[c]

ModelInv == WithinAccount /\ ModelKeysAgree

LEMMA PlainFinite ==
  \A c \in Creds : IsFiniteSet(Plain(c)) /\ Cardinality(Plain(c)) \in Nat
<1> TAKE c \in Creds
<1>1. Plain(c) \in SUBSET Reservations
  BY DEF Plain, LiveOnModel, LiveOn
<1>2. IsFiniteSet(Plain(c))
  BY <1>1, RuntimeAssumption, FS_Subset
<1> QED BY <1>2, FS_CardinalityType

LEMMA SumOfModels ==
  ASSUME TypeOK
  PROVE  \A c \in Creds : /\ SumOver(modelCount[c], Models) \in Nat
                          /\ \A m \in Models : modelCount[c][m] <= SumOver(modelCount[c], Models)
<1> TAKE c \in Creds
<1>1. modelCount[c] \in [Models -> Nat]
  BY DEF TypeOK
<1> QED BY <1>1, ModelsAssumption, SumType

LEMMA IdleModels ==
  ASSUME ModelInv, UNCHANGED <<leaseVars, counterVars>>
  PROVE  ModelInv'
<1>1. count' = count /\ countTTL' = countTTL /\ modelCount' = modelCount /\ modelTTL' = modelTTL
  BY DEF counterVars
<1>2. \A c \in Creds : Plain(c)' = Plain(c)
  BY DEF Plain, LiveOnModel, LiveOn, Live, leaseVars
<1> QED BY <1>1, <1>2 DEF ModelInv, WithinAccount, ModelKeysAgree

\* reserveScript counts the lease at the account, and at its model or among
\* those without one.
LEMMA ReserveModels ==
  ASSUME NEW r \in Reservations, NEW c \in Creds, NEW m \in ModelArg,
         TypeOK, TypeOK', ModelInv, ~Live(r), ReserveScript(r, c, m)
  PROVE  ModelInv'
<1> USE RuntimeAssumption
<1>1. WithinAccount'
  <2> SUFFICES ASSUME NEW d \in Creds
               PROVE  SumOver(modelCount'[d], Models) + Cardinality(Plain(d)') <= count'[d]
    BY DEF WithinAccount
  <2> DEFINE sum == SumOver(modelCount[d], Models)
             card == Cardinality(Plain(d))
  <2>1. sum \in Nat /\ card \in Nat /\ IsFiniteSet(Plain(d)) /\ count[d] \in Nat /\ sum + card <= count[d]
    BY SumOfModels, PlainFinite DEF ModelInv, WithinAccount, TypeOK
  <2>2. CASE d # c
    <3>1. modelCount'[d] = modelCount[d] /\ count'[d] = count[d]
      BY <2>2 DEF ReserveScript, TypeOK
    <3>2. Plain(d)' = Plain(d)
      BY <2>2 DEF Plain, LiveOnModel, LiveOn, Live, ReserveScript, TypeOK
    <3> QED BY <2>1, <3>1, <3>2
  <2>3. CASE d = c /\ m = NoModel
    <3>1. modelCount'[d] = modelCount[d] /\ count'[d] = count[d] + 1
      BY <2>3 DEF ReserveScript, TypeOK
    <3>2. Plain(d)' = Plain(d) \cup {r}
      BY <2>3 DEF Plain, LiveOnModel, LiveOn, Live, ReserveScript, TypeOK
    <3>3. Cardinality(Plain(d) \cup {r}) <= card + 1 /\ Cardinality(Plain(d) \cup {r}) \in Nat
      BY <2>1, AddOne, FS_AddElement, FS_CardinalityType
    <3> HIDE DEF sum, card
    <3>4. sum + Cardinality(Plain(d) \cup {r}) <= count[d] + 1
      BY <2>1, <3>3
    <3> QED BY <3>1, <3>2, <3>4 DEF sum
  <2>4. CASE d = c /\ m # NoModel
    <3>1. m \in Models /\ count'[d] = count[d] + 1 /\ modelCount[d] \in [Models -> Nat]
      BY <2>4 DEF ReserveScript, TypeOK, ModelArg
    <3>2. modelCount'[d] = [modelCount[d] EXCEPT ![m] = modelCount[d][m] + 1]
      BY <2>4 DEF ReserveScript, TypeOK
    <3>3. Plain(d)' = Plain(d)
      BY <2>4 DEF Plain, LiveOnModel, LiveOn, Live, ReserveScript, TypeOK
    <3>4. modelCount[d][m] \in Nat /\ modelCount[d][m] + 1 \in Nat
      BY <3>1
    <3>5. SumOver(modelCount'[d], Models) = sum - modelCount[d][m] + (modelCount[d][m] + 1)
      BY <3>1, <3>2, <3>4, ModelsAssumption, SumUpdate
    <3> HIDE DEF sum, card
    <3>6. SumOver(modelCount'[d], Models) + card <= count[d] + 1
      BY <2>1, <3>4, <3>5
    <3> QED BY <3>1, <3>3, <3>6 DEF card
  <2> QED BY <2>2, <2>3, <2>4
<1>2. ModelKeysAgree'
  <2> SUFFICES ASSUME NEW d \in Creds, NEW n \in Models
               PROVE  /\ modelCount'[d][n] > 0 <=> modelTTL'[d][n] > 0
                      /\ modelTTL'[d][n] <= countTTL'[d]
    BY DEF ModelKeysAgree
  <2>1. /\ modelCount[d][n] > 0 <=> modelTTL[d][n] > 0
        /\ modelTTL[d][n] <= countTTL[d]
        /\ modelCount[d][n] \in Nat /\ modelTTL[d][n] \in 0..LeaseTTL /\ countTTL[d] \in 0..LeaseTTL
        /\ modelTTL'[d][n] \in 0..LeaseTTL
    BY DEF ModelInv, ModelKeysAgree, TypeOK
  <2>2. countTTL'[d] = IF d = c THEN LeaseTTL ELSE countTTL[d]
    BY DEF ReserveScript, TypeOK
  <2>3. CASE d = c /\ n = m
    <3>1. modelCount'[d][n] = modelCount[d][n] + 1 /\ modelTTL'[d][n] = LeaseTTL
      BY <2>3 DEF ReserveScript, TypeOK
    <3> QED BY <2>1, <2>2, <2>3, <3>1
  <2>4. CASE ~(d = c /\ n = m)
    <3>1. modelCount'[d][n] = modelCount[d][n] /\ modelTTL'[d][n] = modelTTL[d][n]
      BY <2>4 DEF ReserveScript, TypeOK, ModelArg
    <3> QED BY <2>1, <2>2, <3>1
  <2> QED BY <2>3, <2>4
<1> QED BY <1>1, <1>2 DEF ModelInv

\* extendScript changes no count, and no TTL passes the account's.
LEMMA ExtendModels ==
  ASSUME NEW r \in Reservations, RuntimeInv, TypeOK', ModelInv, Extend(r)
  PROVE  ModelInv'
<1> USE RuntimeAssumption
<1>0. TypeOK /\ CountersOutliveLeases
  BY DEF RuntimeInv
<1>1. \A d \in Creds : Plain(d)' = Plain(d)
  BY <1>0 DEF Plain, LiveOnModel, LiveOn, Live, Extend, ExtendScript, TypeOK
<1>2. WithinAccount'
  BY <1>1 DEF ModelInv, WithinAccount, Extend
<1>3. ModelKeysAgree'
  <2> SUFFICES ASSUME NEW d \in Creds, NEW n \in Models
               PROVE  /\ modelCount'[d][n] > 0 <=> modelTTL'[d][n] > 0
                      /\ modelTTL'[d][n] <= countTTL'[d]
    BY DEF ModelKeysAgree
  <2>1. /\ modelCount[d][n] > 0 <=> modelTTL[d][n] > 0
        /\ modelTTL[d][n] <= countTTL[d]
        /\ modelCount'[d][n] = modelCount[d][n]
        /\ modelTTL[d][n] \in 0..LeaseTTL /\ countTTL[d] \in 0..LeaseTTL
        /\ modelTTL'[d][n] \in 0..LeaseTTL
    BY <1>0 DEF ModelInv, ModelKeysAgree, TypeOK, Extend
  <2>2. modelTTL'[d][n] \in {modelTTL[d][n], IF modelTTL[d][n] > 0 THEN LeaseTTL ELSE 0}
        /\ (credOf[r] # d => modelTTL'[d][n] = modelTTL[d][n])
    BY <1>0 DEF Extend, ExtendScript, TypeOK, ModelArg
  <2>3. lease[r] > 0 /\ lease[r] <= countTTL[credOf[r]] /\ lease[r] \in Nat /\ credOf[r] \in Creds
    BY <1>0 DEF CountersOutliveLeases, Extend, Live, TypeOK
  <2>4. countTTL'[d] = IF d = credOf[r] THEN LeaseTTL ELSE countTTL[d]
    BY <1>0, <2>1, <2>3 DEF Extend, ExtendScript, TypeOK
  <2> QED BY <2>1, <2>2, <2>4
<1> QED BY <1>2, <1>3 DEF ModelInv

\* releaseScript takes a lease off both counters; where that deletes the
\* account's key, no model counts anything any more.
LEMMA ReleaseModels ==
  ASSUME NEW r \in Reservations, RuntimeInv, TypeOK', ModelInv, Release(r), Live(r)
  PROVE  ModelInv'
<1> USE RuntimeAssumption
<1> DEFINE c == credOf[r]
           m == modelOf[r]
<1>0. TypeOK /\ ModelLeasesCounted /\ LeasesCounted
  BY DEF RuntimeInv
<1>1. /\ lease' = [lease EXCEPT ![r] = 0] /\ credOf' = credOf /\ modelOf' = modelOf
      /\ count' = [count EXCEPT ![c] = Less(count[c])]
      /\ countTTL' = [countTTL EXCEPT ![c] = IF count[c] > 1 THEN countTTL[c] ELSE 0]
      /\ modelCount' = IF m = NoModel THEN modelCount
                       ELSE [modelCount EXCEPT ![c][m] = Less(modelCount[c][m])]
      /\ modelTTL' = IF m = NoModel THEN modelTTL
                     ELSE [modelTTL EXCEPT ![c][m] = IF modelCount[c][m] > 1 THEN modelTTL[c][m] ELSE 0]
  BY DEF Release, ReleaseScript
<1>2. c \in Creds /\ (m # NoModel => m \in Models)
  BY <1>0 DEF TypeOK, ModelArg
<1>3. r \in LiveOn(c) /\ r \in LiveOnModel(c, m)
  BY DEF LiveOn, LiveOnModel
<1>4. \A d \in Creds : Plain(d)' = Plain(d) \ {r}
  BY <1>0, <1>1 DEF Plain, LiveOnModel, LiveOn, Live, TypeOK
<1>5. \A d \in Creds : d # c => r \notin Plain(d)
  BY DEF Plain, LiveOnModel, LiveOn
<1>6. r \in Plain(c) <=> m = NoModel
  BY <1>3 DEF Plain, LiveOnModel
<1> HIDE DEF c, m
<1>7. count[c] \in Nat /\ count[c] >= 1
  <2>1. IsFiniteSet(LiveOn(c)) /\ Cardinality(LiveOn(c)) \in Nat
    BY <1>2, LiveFinite
  <2>2. Cardinality(LiveOn(c)) # 0
    BY <1>3, <2>1, FS_EmptySet
  <2>3. Cardinality(LiveOn(c)) <= count[c] /\ count[c] \in Nat
    BY <1>0, <1>2 DEF LeasesCounted, TypeOK
  <2> QED BY <2>1, <2>2, <2>3
<1>8. count'[c] = count[c] - 1
  BY <1>0, <1>1, <1>2, <1>7 DEF Less, TypeOK
<1>9. WithinAccount'
  <2> SUFFICES ASSUME NEW d \in Creds
               PROVE  SumOver(modelCount'[d], Models) + Cardinality(Plain(d)') <= count'[d]
    BY DEF WithinAccount
  <2> DEFINE sum == SumOver(modelCount[d], Models)
             card == Cardinality(Plain(d))
  <2>1. sum \in Nat /\ card \in Nat /\ IsFiniteSet(Plain(d)) /\ count[d] \in Nat /\ sum + card <= count[d]
    BY <1>0, SumOfModels, PlainFinite DEF ModelInv, WithinAccount, TypeOK
  <2>2. CASE d # c
    <3>1. modelCount'[d] = modelCount[d] /\ count'[d] = count[d]
      BY <1>0, <1>1, <2>2 DEF TypeOK
    <3>2. Plain(d)' = Plain(d)
      BY <1>4, <1>5, <2>2
    <3> QED BY <2>1, <3>1, <3>2
  <2>3. CASE d = c /\ m = NoModel
    <3>1. modelCount'[d] = modelCount[d] /\ count'[d] = count[d] - 1
      BY <1>1, <1>8, <2>3
    <3>2. Plain(d)' = Plain(d) \ {r} /\ r \in Plain(d)
      BY <1>4, <1>6, <2>3
    <3>3. Cardinality(Plain(d) \ {r}) = card - 1
      BY <2>1, <3>2, FS_RemoveElement
    <3> HIDE DEF sum, card
    <3>4. sum + Cardinality(Plain(d) \ {r}) <= count[d] - 1
      BY <2>1, <3>3
    <3> QED BY <3>1, <3>2, <3>4 DEF sum
  <2>4. CASE d = c /\ m # NoModel
    <3>1. m \in Models /\ count'[d] = count[d] - 1 /\ modelCount[d] \in [Models -> Nat]
      BY <1>0, <1>2, <1>8, <2>4 DEF TypeOK
    <3>2. modelCount[d][m] \in Nat /\ modelCount[d][m] >= 1
      <4>1. IsFiniteSet(LiveOnModel(c, m)) /\ Cardinality(LiveOnModel(c, m)) \in Nat
        BY <1>2, <3>1, LiveFinite
      <4>2. Cardinality(LiveOnModel(c, m)) # 0
        BY <1>3, <4>1, FS_EmptySet
      <4>3. Cardinality(LiveOnModel(c, m)) <= modelCount[d][m] /\ modelCount[d][m] \in Nat
        BY <1>0, <2>4, <3>1 DEF ModelLeasesCounted
      <4> QED BY <4>1, <4>2, <4>3
    <3>3. Less(modelCount[d][m]) = modelCount[d][m] - 1 /\ modelCount[d][m] - 1 \in Nat
      BY <3>2 DEF Less
    <3>4. modelCount'[d] = [modelCount[d] EXCEPT ![m] = modelCount[d][m] - 1]
      BY <1>0, <1>1, <2>4, <3>3 DEF TypeOK
    <3>5. SumOver(modelCount'[d], Models) = sum - modelCount[d][m] + (modelCount[d][m] - 1)
      BY <3>1, <3>3, <3>4, ModelsAssumption, SumUpdate
    <3>6. Plain(d)' = Plain(d)
      BY <1>4, <1>6, <2>4
    <3> HIDE DEF sum, card
    <3>7. SumOver(modelCount'[d], Models) + card <= count[d] - 1
      BY <2>1, <3>2, <3>5
    <3> QED BY <3>1, <3>6, <3>7 DEF card
  <2> QED BY <2>2, <2>3, <2>4
<1>10. ASSUME NEW d \in Creds, NEW n \in Models
       PROVE  /\ modelCount'[d][n] > 0 <=> modelTTL'[d][n] > 0
              /\ modelTTL'[d][n] <= modelTTL[d][n]
  <2>1. /\ modelCount[d][n] > 0 <=> modelTTL[d][n] > 0
        /\ modelCount[d][n] \in Nat /\ modelTTL[d][n] \in 0..LeaseTTL
    BY <1>0 DEF ModelInv, ModelKeysAgree, TypeOK
  <2>2. CASE d = c /\ n = m
    <3>1. /\ modelCount'[d][n] = Less(modelCount[d][n])
          /\ modelTTL'[d][n] = IF modelCount[d][n] > 1 THEN modelTTL[d][n] ELSE 0
      BY <1>0, <1>1, <2>2 DEF TypeOK
    <3> QED BY <2>1, <3>1 DEF Less
  <2>3. CASE ~(d = c /\ n = m)
    <3>1. modelCount'[d][n] = modelCount[d][n] /\ modelTTL'[d][n] = modelTTL[d][n]
      BY <1>0, <1>1, <1>2, <2>3 DEF TypeOK
    <3> QED BY <2>1, <3>1
  <2> QED BY <2>2, <2>3
<1>11. ModelKeysAgree'
  <2> SUFFICES ASSUME NEW d \in Creds, NEW n \in Models
               PROVE  modelTTL'[d][n] <= countTTL'[d]
    BY <1>10 DEF ModelKeysAgree
  <2>1. /\ modelTTL[d][n] <= countTTL[d] /\ modelTTL[d][n] \in Nat /\ countTTL[d] \in Nat
        /\ modelTTL'[d][n] \in Nat /\ modelCount'[d][n] \in Nat /\ modelTTL'[d][n] <= modelTTL[d][n]
    BY <1>0, <1>10 DEF ModelInv, ModelKeysAgree, TypeOK
  <2>2. CASE d # c \/ count[c] > 1
    <3>1. countTTL'[d] = countTTL[d]
      BY <1>0, <1>1, <2>2 DEF TypeOK
    <3> QED BY <2>1, <3>1
  <2>3. CASE d = c /\ ~(count[c] > 1)
    <3>1. count'[d] = 0
      BY <1>7, <1>8, <2>3
    <3>2. SumOver(modelCount'[d], Models) + Cardinality(Plain(d)') <= 0
      BY <1>9, <3>1 DEF WithinAccount
    <3>3. modelCount'[d] \in [Models -> Nat]
      BY DEF TypeOK
    <3>4. SumOver(modelCount'[d], Models) \in Nat /\ modelCount'[d][n] <= SumOver(modelCount'[d], Models)
      BY <3>3, ModelsAssumption, SumType
    <3>5. Cardinality(Plain(d)') \in Nat
      <4>1. IsFiniteSet(Plain(d) \ {r})
        BY PlainFinite, FS_Subset
      <4> QED BY <4>1, <1>4, FS_CardinalityType
    <3>6. modelCount'[d][n] = 0
      BY <2>1, <3>2, <3>4, <3>5
    <3>7. modelTTL'[d][n] = 0
      BY <1>10, <2>1, <3>6
    <3>8. countTTL'[d] = 0
      BY <1>0, <1>1, <2>3 DEF TypeOK
    <3> QED BY <3>7, <3>8
  <2> QED BY <2>2, <2>3
<1> QED BY <1>9, <1>11 DEF ModelInv

\* Where a tick ends the account's key, it ends all keys of its models too.
LEMMA TickModels ==
  ASSUME RuntimeInv, RuntimeInv', ModelInv, Tick
  PROVE  ModelInv'
<1> USE RuntimeAssumption
<1>0. TypeOK /\ TypeOK' /\ CountersOutliveLeases'
  BY DEF RuntimeInv
<1>1. ASSUME NEW d \in Creds, NEW n \in Models
      PROVE  /\ modelCount'[d][n] > 0 <=> modelTTL'[d][n] > 0
             /\ modelTTL'[d][n] <= countTTL'[d]
             /\ modelCount'[d][n] <= modelCount[d][n]
  <2>1. /\ modelCount[d][n] > 0 <=> modelTTL[d][n] > 0
        /\ modelTTL[d][n] <= countTTL[d]
        /\ modelCount[d][n] \in Nat /\ modelTTL[d][n] \in 0..LeaseTTL /\ countTTL[d] \in 0..LeaseTTL
    BY <1>0 DEF ModelInv, ModelKeysAgree, TypeOK
  <2>2. /\ modelTTL'[d][n] = Elapse(modelTTL[d][n]) /\ countTTL'[d] = Elapse(countTTL[d])
        /\ modelCount'[d][n] = IF Elapse(modelTTL[d][n]) = 0 THEN 0 ELSE modelCount[d][n]
    BY DEF Tick
  <2> QED BY <2>1, <2>2 DEF Elapse
<1>2. ModelKeysAgree'
  BY <1>1 DEF ModelKeysAgree
<1>3. WithinAccount'
  <2> SUFFICES ASSUME NEW d \in Creds
               PROVE  SumOver(modelCount'[d], Models) + Cardinality(Plain(d)') <= count'[d]
    BY DEF WithinAccount
  <2>1. modelCount'[d] \in [Models -> Nat] /\ modelCount[d] \in [Models -> Nat]
    BY <1>0 DEF TypeOK
  <2>2. Plain(d)' \in SUBSET Plain(d)
    BY <1>0 DEF Plain, LiveOnModel, LiveOn, Live, Tick, Elapse, TypeOK
  <2>3. CASE countTTL'[d] = 0
    <3>1. ASSUME NEW n \in Models PROVE modelCount'[d][n] = 0
      <4>1. modelTTL'[d][n] \in Nat /\ modelCount'[d][n] \in Nat
        BY <1>0 DEF TypeOK
      <4> QED BY <1>1, <2>3, <4>1
    <3>2. SumOver(modelCount'[d], Models) = 0
      BY <2>1, <3>1, ModelsAssumption, SumZero
    <3>3. Plain(d)' = {}
      <4> SUFFICES ASSUME NEW q \in Plain(d)' PROVE FALSE
        OBVIOUS
      <4>1. q \in Reservations /\ lease'[q] > 0 /\ credOf'[q] = d /\ Live(q)'
        BY DEF Plain, LiveOnModel, LiveOn, Live
      <4>2. lease'[q] <= countTTL'[d] /\ lease'[q] \in Nat
        BY <1>0, <4>1 DEF CountersOutliveLeases, TypeOK
      <4> QED BY <2>3, <4>1, <4>2
    <3>4. Cardinality(Plain(d)') = 0 /\ count'[d] \in Nat
      BY <1>0, <3>3, FS_EmptySet DEF TypeOK
    <3> QED BY <3>2, <3>4
  <2>4. CASE countTTL'[d] # 0
    <3>1. count'[d] = count[d]
      BY <2>4 DEF Tick
    <3>2. SumOver(modelCount'[d], Models) <= SumOver(modelCount[d], Models)
      BY <1>1, <2>1, ModelsAssumption, SumMonotone
    <3>3. SumOver(modelCount'[d], Models) \in Nat /\ SumOver(modelCount[d], Models) \in Nat
      BY <2>1, ModelsAssumption, SumType
    <3>4. Cardinality(Plain(d)') <= Cardinality(Plain(d)) /\ Cardinality(Plain(d)') \in Nat
      BY <2>2, PlainFinite, FS_Subset, FS_CardinalityType
    <3>5. SumOver(modelCount[d], Models) + Cardinality(Plain(d)) <= count[d]
          /\ count[d] \in Nat /\ Cardinality(Plain(d)) \in Nat
      BY <1>0, PlainFinite DEF ModelInv, WithinAccount, TypeOK
    <3> QED BY ONLY <3>1, <3>2, <3>3, <3>4, <3>5
  <2> QED BY <2>3, <2>4
<1> QED BY <1>2, <1>3 DEF ModelInv

\* The counters of an account's models and its live leases without a model
\* never add up to more than the account's own counter, for any number of
\* models and whatever expires first.
THEOREM ModelsWithinAccount == Spec => []ModelCountsWithinAccount
<1>1. Init => ModelInv
  <2> SUFFICES ASSUME Init PROVE ModelInv
    OBVIOUS
  <2>1. ASSUME NEW c \in Creds
        PROVE  SumOver(modelCount[c], Models) + Cardinality(Plain(c)) <= count[c]
    <3>1. modelCount[c] \in [Models -> Nat] /\ \A m \in Models : modelCount[c][m] = 0
      BY DEF Init, NoKeys
    <3>2. SumOver(modelCount[c], Models) = 0
      BY <3>1, ModelsAssumption, SumZero
    <3>3. Plain(c) = {} /\ count[c] = 0
      BY DEF Init, Plain, LiveOnModel, LiveOn, Live
    <3> QED BY <3>2, <3>3, FS_EmptySet
  <2>2. ModelKeysAgree
    BY DEF Init, ModelKeysAgree, NoKeys
  <2> QED BY <2>1, <2>2 DEF ModelInv, WithinAccount
<1>2. RuntimeInv /\ RuntimeInv' /\ ModelInv /\ [Next]_vars => ModelInv'
  <2> SUFFICES ASSUME RuntimeInv, RuntimeInv', ModelInv, [Next]_vars PROVE ModelInv'
    OBVIOUS
  <2>1. TypeOK /\ TypeOK'
    BY DEF RuntimeInv
  <2>2. ASSUME NEW r \in Reservations, NEW c \in Creds, NEW m \in ModelArg,
               TryReserve(r, c, m) \/ TryReserveReplyLost(r, c, m)
        PROVE  ModelInv'
    BY <2>1, <2>2, ReserveModels DEF TryReserve, TryReserveReplyLost, Fresh
  <2>3. ASSUME NEW r \in Reservations, Extend(r) PROVE ModelInv'
    BY <2>1, <2>3, ExtendModels
  <2>4. ASSUME NEW r \in Reservations, Release(r) PROVE ModelInv'
    <3>1. CASE Live(r)
      BY <2>1, <2>4, <3>1, ReleaseModels
    <3>2. CASE ~Live(r)
      BY <2>4, <3>2, IdleModels DEF Release, ReleaseScript, leaseVars, counterVars
    <3> QED BY <3>1, <3>2
  <2>5. ASSUME NEW r \in Reservations,
               StartRenewal(r) \/ ExtendGone(r) \/ StopRenewal(r) \/ ReleaseLost(r)
        PROVE  ModelInv'
    BY <2>5, IdleModels DEF StartRenewal, ExtendGone, StopRenewal, ReleaseLost
  <2>6. ASSUME NEW c \in Creds, NEW m \in ModelArg,
               ClearCooldown(c, m) \/ \E ttl \in 1..CooldownTTL : SetCooldown(c, m, ttl)
        PROVE  ModelInv'
    BY <2>6, IdleModels DEF ClearCooldown, SetCooldown
  <2>7. ASSUME NEW dead \in SUBSET (held \cup renewing), Crash(dead) PROVE ModelInv'
    BY <2>7, IdleModels DEF Crash
  <2>8. CASE Tick
    BY <2>8, TickModels
  <2>9. CASE UNCHANGED vars
    BY <2>9, IdleModels DEF vars
  <2> QED BY <2>2, <2>3, <2>4, <2>5, <2>6, <2>7, <2>8, <2>9 DEF Next
<1>3. ModelInv => ModelCountsWithinAccount
  BY DEF ModelInv, WithinAccount, ModelCountsWithinAccount, SumOver, Plain, MapThenSumSet, MapThenFoldSet
<1> QED BY <1>1, <1>2, <1>3, RuntimeInvariant, PTL DEF Spec
============================================================================
