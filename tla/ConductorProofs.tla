-------------------------- MODULE ConductorProofs --------------------------
(***************************************************************************)
(* Proofs about Conductor for any accounts, models, processes, requests,   *)
(* sessions, limits and faults.                                            *)
(***************************************************************************)
EXTENDS Conductor, FiniteSetTheorems, SequenceTheorems, WellFoundedInduction, TLAPS

-----------------------------------------------------------------------------
(***************************************************************************)
(* Trackers as sequences                                                   *)
(***************************************************************************)

\* The elements of a sequence.
LEMMA ElementsOf ==
  ASSUME NEW S, NEW s \in Seq(S), NEW x
  PROVE  x \in ToSet(s) <=> \E i \in 1..Len(s) : x = s[i]
BY DEF ToSet

\* reservationTracker.add: the new reservation joins the others.
LEMMA AppendedSet ==
  ASSUME NEW S, NEW s \in Seq(S), NEW x \in S
  PROVE  /\ Append(s, x) \in Seq(S)
         /\ ToSet(Append(s, x)) = ToSet(s) \cup {x}
         /\ IsInjective(s) /\ x \notin ToSet(s) => IsInjective(Append(s, x))
<1>1. /\ Append(s, x) \in Seq(S)
      /\ Len(Append(s, x)) = Len(s) + 1
      /\ \A i \in 1..Len(s) : Append(s, x)[i] = s[i]
      /\ Append(s, x)[Len(s) + 1] = x
      /\ Len(s) \in Nat
  BY AppendProperties, LenProperties
<1>2. ASSUME NEW y PROVE y \in ToSet(Append(s, x)) <=> y \in ToSet(s) \cup {x}
  <2>1. y \in ToSet(Append(s, x)) <=> \E i \in 1..Len(s) + 1 : y = Append(s, x)[i]
    <3> DEFINE t == Append(s, x)
    <3>1. t \in Seq(S) /\ Len(t) = Len(s) + 1
      BY <1>1
    <3> HIDE DEF t
    <3>2. y \in ToSet(t) <=> \E i \in 1..Len(s) + 1 : y = t[i]
      BY <3>1, ElementsOf
    <3> QED BY <3>2 DEF t
  <2>2. y \in ToSet(s) <=> \E i \in 1..Len(s) : y = s[i]
    BY ElementsOf
  <2>3. ASSUME NEW i \in 1..Len(s) PROVE i \in 1..Len(s) + 1 /\ Append(s, x)[i] = s[i]
    BY <1>1
  <2>4. ASSUME NEW i \in 1..Len(s) + 1, i \notin 1..Len(s) PROVE Append(s, x)[i] = x
    BY <1>1, <2>4
  <2>5. Len(s) + 1 \in 1..Len(s) + 1
    BY <1>1
  <2> QED BY <1>1, <2>1, <2>2, <2>3, <2>4, <2>5
<1>3. ASSUME IsInjective(s), x \notin ToSet(s) PROVE IsInjective(Append(s, x))
  <2> SUFFICES ASSUME NEW i \in 1..Len(s) + 1, NEW j \in 1..Len(s) + 1,
                      Append(s, x)[i] = Append(s, x)[j]
               PROVE  i = j
    BY <1>1 DEF IsInjective
  <2>1. CASE i \in 1..Len(s) /\ j \in 1..Len(s)
    BY <1>1, <1>3, <2>1 DEF IsInjective
  <2>2. CASE i = Len(s) + 1 /\ j \in 1..Len(s)
    BY <1>1, <1>3, <2>2, ElementsOf
  <2>3. CASE j = Len(s) + 1 /\ i \in 1..Len(s)
    BY <1>1, <1>3, <2>3, ElementsOf
  <2> QED BY <1>1, <2>1, <2>2, <2>3
<1> QED BY <1>1, <1>2, <1>3

\* reservationTracker.pop: one reservation leaves, the others stay.
LEMMA RemovedSet ==
  ASSUME NEW S, NEW s \in Seq(S), IsInjective(s), NEW k \in 1..Len(s)
  PROVE  /\ RemoveAt(s, k) \in Seq(S)
         /\ ToSet(RemoveAt(s, k)) = ToSet(s) \ {s[k]}
         /\ IsInjective(RemoveAt(s, k))
<1> DEFINE a == SubSeq(s, 1, k - 1)
           b == SubSeq(s, k + 1, Len(s))
           t == RemoveAt(s, k)
<1>1. Len(s) \in Nat /\ k \in Nat /\ k >= 1 /\ k <= Len(s)
  BY LenProperties
<1>2. /\ a \in Seq(S) /\ Len(a) = k - 1
      /\ \A i \in 1..k - 1 : a[i] = s[i]
  BY <1>1, SubSeqProperties
<1>3. /\ b \in Seq(S) /\ Len(b) = Len(s) - k
      /\ \A i \in 1..Len(s) - k : b[i] = s[k + i]
  BY <1>1, SubSeqProperties
<1>4. t = a \o b
  BY DEF RemoveAt
<1> HIDE DEF a, b, t
<1>5. /\ t \in Seq(S) /\ Len(t) = Len(s) - 1
      /\ \A i \in 1..Len(s) - 1 : t[i] = s[IF i < k THEN i ELSE i + 1]
  <2>1. t \in Seq(S) /\ Len(t) = Len(a) + Len(b)
    BY <1>2, <1>3, <1>4, ConcatProperties
  <2>2. ASSUME NEW i \in 1..Len(s) - 1 PROVE t[i] = s[IF i < k THEN i ELSE i + 1]
    <3>1. t[i] = IF i <= Len(a) THEN a[i] ELSE b[i - Len(a)]
      BY <1>1, <1>2, <1>3, <1>4, ConcatProperties
    <3>2. CASE i < k
      BY <1>1, <1>2, <3>1, <3>2
    <3>3. CASE i >= k
      <4>1. i - (k - 1) \in 1..Len(s) - k /\ k + (i - (k - 1)) = i + 1
        BY <1>1, <3>3
      <4>2. b[i - (k - 1)] = s[k + (i - (k - 1))]
        BY <1>3, <4>1
      <4> QED BY <1>1, <1>2, <3>1, <3>3, <4>1, <4>2
    <3> QED BY <1>1, <3>2, <3>3
  <2>3. Len(t) = Len(s) - 1
    BY <1>1, <1>2, <1>3, <2>1
  <2> QED BY <2>1, <2>2, <2>3
<1>6. ASSUME NEW i \in 1..Len(s) - 1, NEW j \in 1..Len(s) - 1, t[i] = t[j] PROVE i = j
  <2>1. s[IF i < k THEN i ELSE i + 1] = s[IF j < k THEN j ELSE j + 1]
    BY <1>5, <1>6
  <2>2. (IF i < k THEN i ELSE i + 1) = (IF j < k THEN j ELSE j + 1)
    BY <1>1, <2>1 DEF IsInjective
  <2> QED BY <1>1, <2>2
<1>7. ASSUME NEW y PROVE y \in ToSet(t) <=> y \in ToSet(s) /\ y # s[k]
  <2>1. ASSUME NEW i \in 1..Len(s) - 1 PROVE t[i] \in ToSet(s) /\ t[i] # s[k]
    <3>1. PICK j \in 1..Len(s) : j # k /\ t[i] = s[j]
      BY <1>1, <1>5
    <3> QED BY <3>1, ElementsOf DEF IsInjective
  <2>2. ASSUME NEW j \in 1..Len(s), j # k PROVE \E i \in 1..Len(s) - 1 : t[i] = s[j]
    <3>1. CASE j < k
      BY <1>1, <1>5, <3>1
    <3>2. CASE j > k
      <4>1. j - 1 \in 1..Len(s) - 1 /\ ~(j - 1 < k) /\ (j - 1) + 1 = j
        BY <1>1, <3>2
      <4> QED BY <1>5, <4>1
    <3> QED BY <1>1, <2>2, <3>1, <3>2
  <2>3. y \in ToSet(t) <=> \E i \in 1..Len(s) - 1 : y = t[i]
    BY <1>5, ElementsOf
  <2>4. y \in ToSet(s) <=> \E i \in 1..Len(s) : y = s[i]
    BY ElementsOf
  <2> QED BY <2>1, <2>2, <2>3, <2>4
<1> QED BY <1>5, <1>6, <1>7 DEF IsInjective, t

\* The maximum that pop's backwards loop finds.
LEMMA MaxExists ==
  ASSUME NEW n \in Nat, NEW I \in SUBSET (1..n), I # {}
  PROVE  Max(I) \in I
<1> DEFINE T == {k \in Nat : n - k \in I}
<1>1. T \subseteq Nat /\ T # {}
  <2>1. PICK i \in I : TRUE
    OBVIOUS
  <2>2. n - i \in Nat /\ n - (n - i) = i
    OBVIOUS
  <2> QED BY <2>2
<1>2. PICK k \in T : \A y \in T : ~(<<y, k>> \in OpToRel(<, Nat))
  <2> HIDE DEF T
  <2> QED BY <1>1, NatLessThanWellFounded, WFMin
<1>3. \A y \in T : ~(y < k)
  BY <1>2 DEF OpToRel
<1>4. \A j \in I : n - k >= j
  <2> SUFFICES ASSUME NEW j \in I PROVE n - k >= j
    OBVIOUS
  <2>1. n - j \in Nat /\ n - (n - j) = j
    OBVIOUS
  <2>2. n - j \in T
    BY <2>1
  <2> QED BY <1>3, <2>2
<1>5. \E x \in I : \A y \in I : x >= y
  BY <1>4
<1> QED BY <1>5 DEF Max

\* reservationTracker.pop returns a reservation of the wanted model when the
\* tracker has one.
LEMMA PopIndexFinds ==
  ASSUME NEW s \in Seq(Reservations), NEW m
  PROVE  /\ (\E r \in ToSet(s) : modelOf[r] = m) => PopIndex(s, m) # 0
         /\ PopIndex(s, m) # 0 => /\ PopIndex(s, m) \in 1..Len(s)
                                  /\ modelOf[s[PopIndex(s, m)]] = m
<1> DEFINE I == {i \in 1..Len(s) : modelOf[s[i]] = m}
<1>1. PopIndex(s, m) = IF I # {} THEN Max(I) ELSE 0
  BY DEF PopIndex, SelectLastInSeq
<1>2. Len(s) \in Nat /\ I \in SUBSET (1..Len(s))
  BY LenProperties
<1>3. I # {} => Max(I) \in I
  <2> HIDE DEF I
  <2> QED BY <1>2, MaxExists
<1>4. (\E r \in ToSet(s) : modelOf[r] = m) => I # {}
  BY ElementsOf
<1>5. I # {} => /\ Max(I) \in 1..Len(s) /\ Max(I) # 0
                /\ modelOf[s[Max(I)]] = m
  BY <1>2, <1>3
<1> QED BY <1>1, <1>4, <1>5
-----------------------------------------------------------------------------
(***************************************************************************)
(* Types, and the refinement of RedisRuntime                               *)
(***************************************************************************)

\* What the proofs need of the types of the Redis keys.
RedisTypes ==
    /\ lease \in [Reservations -> 0..LeaseTTL]
    /\ credOf \in [Reservations -> Creds]
    /\ modelOf \in [Reservations -> Redis!ModelArg]
    /\ held \in SUBSET Reservations
    /\ renewing \in SUBSET Reservations
    /\ count \in [Creds -> Nat]

\* A request's locals.
RequestTypes ==
    /\ pc \in [Requests -> {"idle", "local", "sync", "store", "pick", "reserve", "accepted",
                            "releaseRedis", "releaseLocal"} \cup Serving]
    /\ stage \in [Requests -> {"redis", "local", "pick", None}]
    /\ cand \in [Requests -> Creds \cup {None}]
    /\ res \in [Requests -> Reservations \cup {None}]
    /\ hadBinding \in [Requests -> BOOLEAN]
    /\ synced \in [Requests -> [Creds -> Nat]]
    /\ ctxDone \in SUBSET Requests

\* From tryReserve to the end of Release a request has an account.
CandKnown ==
    \A q \in Requests :
        pc[q] \in {"reserve", "accepted", "releaseRedis", "releaseLocal"} \cup Serving
            => cand[q] \in Creds

\* A process's tables and the affinity keys.
ProcessTypes ==
    /\ tracker \in [Procs -> [Creds -> Seq(Reservations)]]
    /\ renewCtx \in [Reservations -> Requests \cup {None}]
    /\ inFlight \in [Procs -> [Creds -> Nat]]
    /\ disabled \in [Procs -> SUBSET Creds]
    /\ cooling \in [Procs -> [Creds -> [Redis!ModelArg -> 0..CooldownTTL]]]
    /\ binding \in [Procs -> [Sessions -> Creds \cup {None}]]
    /\ redisBinding \in [Sessions -> Creds \cup {None}]
    /\ enabling \in SUBSET Creds

Types ==
    /\ RedisTypes
    /\ RequestTypes
    /\ CandKnown
    /\ ProcessTypes

\* Where the reservations are.  A reservation in a request's hand or in a
\* tracker is held, belongs to the process and is nowhere else; a held one is
\* in a hand or in a tracker; a tracker files it under its account, and the
\* one a request is about to track is for the request's account and model.
Holdings ==
    /\ \A q \in Carried : res[q] \in held /\ res[q] \in IdsOf[ProcOf[q]]
    /\ \A q, o \in Carried : res[q] = res[o] => q = o
    /\ \A p \in Procs, c \in Creds :
         /\ IsInjective(tracker[p][c])
         /\ \A r \in ToSet(tracker[p][c]) :
              /\ r \in held /\ r \in IdsOf[p] /\ credOf[r] = c
              /\ \A q \in Carried : res[q] # r
    /\ \A r \in held :
         \/ \E q \in Carried : res[q] = r
         \/ \E p \in Procs, c \in Creds : r \in ToSet(tracker[p][c])
    /\ \A q \in Requests : pc[q] = "accepted" =>
         credOf[res[q]] = cand[q] /\ modelOf[res[q]] = ModelFor[q]

\* A tracker has as many reservations of an account and a model as the
\* process has requests that are served by them.
SlotsCounted ==
    \A p \in Procs, c \in Creds, m \in Models :
        Cardinality(Tracked(p, c, m)) = Cardinality(ServedBy(p, c, m))

\* The inductive invariant.
ConductorInv ==
    /\ Types
    /\ Holdings
    /\ SlotsCounted

\* Updating one cell of a table of functions keeps its type.
LEMMA CellUpdate ==
  ASSUME NEW A, NEW B, NEW V, NEW f \in [A -> [B -> V]],
         NEW a \in A, NEW b \in B, NEW v \in V
  PROVE  [f EXCEPT ![a][b] = v] \in [A -> [B -> V]]
OBVIOUS

\* A step that leaves the Redis keys alone.
LEMMA RedisIdle ==
  ASSUME UNCHANGED redisVars
  PROVE  UNCHANGED Redis!vars
BY DEF redisVars, Redis!vars, Redis!leaseVars, Redis!counterVars

\* Every step of the Redis keys keeps their types.
LEMMA RedisTypesStep ==
  ASSUME RedisTypes, [Redis!Next]_(Redis!vars)
  PROVE  RedisTypes'
<1> USE ConductorAssumption DEF RedisTypes, Redis!ModelArg, Redis!leaseVars, Redis!counterVars
<1>1. ASSUME NEW r \in Reservations, NEW c \in Creds, NEW m \in Redis!ModelArg,
             Redis!ReserveScript(r, c, m),
             held' \in SUBSET Reservations, renewing' = renewing
      PROVE  RedisTypes'
  BY <1>1 DEF Redis!ReserveScript
<1>2. ASSUME NEW r \in Reservations, NEW c \in Creds, NEW m \in Redis!ModelArg,
             Redis!TryReserve(r, c, m) \/ Redis!TryReserveReplyLost(r, c, m)
      PROVE  RedisTypes'
  BY <1>1, <1>2 DEF Redis!TryReserve, Redis!TryReserveReplyLost
<1>3. ASSUME NEW r \in Reservations, Redis!Extend(r) PROVE RedisTypes'
  BY <1>3 DEF Redis!Extend, Redis!ExtendScript
<1>4. ASSUME NEW r \in Reservations,
             Redis!StartRenewal(r) \/ Redis!ExtendGone(r) \/ Redis!StopRenewal(r)
      PROVE  RedisTypes'
  BY <1>4 DEF Redis!StartRenewal, Redis!ExtendGone, Redis!StopRenewal
<1>5. ASSUME NEW r \in Reservations, Redis!Release(r) PROVE RedisTypes'
  <2>1. CASE Redis!Live(r)
    <3>1. count' = [count EXCEPT ![credOf[r]] = Redis!Less(@)]
      BY <1>5, <2>1 DEF Redis!Release, Redis!ReleaseScript
    <3>2. \A n \in Nat : Redis!Less(n) \in Nat
      BY DEF Redis!Less
    <3>3. count' \in [Creds -> Nat]
      BY <3>1, <3>2
    <3>4. lease' \in [Reservations -> 0..LeaseTTL]
      BY <1>5, <2>1 DEF Redis!Release, Redis!ReleaseScript
    <3> QED BY <1>5, <3>3, <3>4 DEF Redis!Release
  <2>2. CASE ~Redis!Live(r)
    BY <1>5, <2>2 DEF Redis!Release, Redis!ReleaseScript
  <2> QED BY <2>1, <2>2
<1>6. ASSUME NEW r \in Reservations, Redis!ReleaseLost(r) PROVE RedisTypes'
  BY <1>6 DEF Redis!ReleaseLost
<1>7. ASSUME NEW c \in Creds, NEW m \in Redis!ModelArg,
             Redis!ClearCooldown(c, m) \/ \E ttl \in 1..CooldownTTL : Redis!SetCooldown(c, m, ttl)
      PROVE  RedisTypes'
  BY <1>7 DEF Redis!ClearCooldown, Redis!SetCooldown
<1>8. ASSUME NEW dead \in SUBSET (held \cup renewing), Redis!Crash(dead) PROVE RedisTypes'
  BY <1>8 DEF Redis!Crash
<1>9. CASE Redis!Tick
  BY <1>9 DEF Redis!Tick, Redis!Elapse
<1>10. CASE UNCHANGED Redis!vars
  BY <1>10 DEF Redis!vars
<1> QED
  BY <1>2, <1>3, <1>4, <1>5, <1>6, <1>7, <1>8, <1>9, <1>10 DEF Redis!Next

\* Every step of a request changes the Redis keys as RedisRuntime allows.
LEMMA RequestRefines ==
  ASSUME Types, NEW q \in Requests, RequestStep(q)
  PROVE  [Redis!Next]_(Redis!vars)
<1> USE ConductorAssumption
<1> DEFINE c == cand[q]
           m == ModelFor[q]
<1>1. m \in Redis!ModelArg /\ NoModel \in Redis!ModelArg
  BY DEF Redis!ModelArg
<1>2. \A r \in IdsOf[ProcOf[q]] : r \in Reservations
  OBVIOUS
<1>3. \A r \in held : r \in Reservations
  BY DEF Types, RedisTypes
<1>4. pc[q] \in {"reserve", "accepted", "releaseRedis"} \cup Serving => c \in Creds
  BY DEF Types, CandKnown
<1>5. ASSUME UNCHANGED redisVars PROVE [Redis!Next]_(Redis!vars)
  BY <1>5, RedisIdle
<1>6. CASE \/ LookupRedisBinding(q) \/ LookupLocalBinding(q) \/ SyncInFlight(q)
           \/ StoreInFlight(q) \/ Pick(q) \/ NoReady(q) \/ ReserveRefused(q) \/ BindRedis(q)
           \/ MarkSuccess(q) \/ MarkRateLimit(q) \/ MarkAuthError(q) \/ MarkNothing(q)
           \/ PopReservation(q) \/ ReleaseLocal(q)
  BY <1>5, <1>6 DEF LookupRedisBinding, LookupLocalBinding, SyncInFlight, StoreInFlight,
     Pick, NoReady, ReserveRefused, BindRedis, MarkSuccess, MarkRateLimit, MarkAuthError,
     MarkNothing, PopReservation, ReleaseLocal
<1>7. CASE ReserveAccepted(q) \/ ReserveFails(q)
  <2>1. c \in Creds
    BY <1>4, <1>7 DEF ReserveAccepted, ReserveFails
  <2>2. \/ UNCHANGED redisVars
        \/ \E r \in IdsOf[ProcOf[q]] :
             Redis!TryReserve(r, c, m) \/ Redis!TryReserveReplyLost(r, c, m)
    BY <1>7 DEF ReserveAccepted, ReserveFails
  <2> QED BY <1>1, <1>2, <1>5, <2>1, <2>2 DEF Redis!Next
<1>8. CASE Track(q) \/ Rollback(q) \/ ReleaseRedis(q)
  <2>1. \/ Redis!StartRenewal(res[q]) \/ Redis!Release(res[q]) \/ Redis!ReleaseLost(res[q])
    BY <1>8 DEF Track, Rollback, ReleaseRedis
  <2>2. res[q] \in Reservations
    BY <1>3, <2>1 DEF Redis!StartRenewal, Redis!Release, Redis!ReleaseLost
  <2> QED BY <2>1, <2>2 DEF Redis!Next
<1>9. CASE Mirror(q)
  <2>1. c \in Creds
    BY <1>4, <1>9 DEF Mirror, MirrorCall, Serving
  <2>2. \/ UNCHANGED redisVars
        \/ Redis!ClearCooldown(c, m)
        \/ \E n \in {NoModel, m} : Redis!SetCooldown(c, n, CooldownTTL)
    BY <1>9 DEF Mirror, MirrorCall
  <2>3. ASSUME NEW n, Redis!SetCooldown(c, n, CooldownTTL) PROVE CooldownTTL \in 1..CooldownTTL
    BY <2>3 DEF Redis!SetCooldown
  <2> QED BY <1>1, <1>5, <2>1, <2>2, <2>3 DEF Redis!Next
<1> QED BY <1>6, <1>7, <1>8, <1>9 DEF RequestStep

\* So does every other step: renewals, operators, expiry, crashes and time.
LEMMA StepRefines ==
  ASSUME Types, [Next]_vars
  PROVE  [Redis!Next]_(Redis!vars)
<1> USE ConductorAssumption
<1>1. ASSUME UNCHANGED redisVars PROVE [Redis!Next]_(Redis!vars)
  BY <1>1, RedisIdle
<1>2. ASSUME NEW q \in Requests, Disconnect(q) PROVE [Redis!Next]_(Redis!vars)
  BY <1>1, <1>2 DEF Disconnect
<1>3. ASSUME NEW r \in Reservations, Renew(r) \/ RenewGone(r) \/ RenewCancelled(r)
      PROVE  [Redis!Next]_(Redis!vars)
  BY <1>3 DEF Renew, RenewGone, RenewCancelled, Redis!Next
<1>4. ASSUME NEW p \in Procs, NEW c \in Creds, Disable(p, c) \/ Enable(p, c)
      PROVE  [Redis!Next]_(Redis!vars)
  BY <1>1, <1>4 DEF Disable, Enable
<1>5. ASSUME NEW c \in Creds, EnableRedis(c) PROVE [Redis!Next]_(Redis!vars)
  BY <1>1, <1>5 DEF EnableRedis, Redis!Next, Redis!ModelArg
<1>6. ASSUME NEW s \in Sessions, BindingExpires(s) PROVE [Redis!Next]_(Redis!vars)
  BY <1>1, <1>6 DEF BindingExpires
<1>7. ASSUME NEW p \in Procs, Crash(p) PROVE [Redis!Next]_(Redis!vars)
  <2> DEFINE dead == IdsOf[p] \cap (held \cup renewing)
  <2>1. Redis!Crash(dead) /\ dead \in SUBSET (held \cup renewing)
    BY <1>7 DEF Crash
  <2>2. CASE dead = {}
    <3>1. held' = held /\ renewing' = renewing
      BY <2>1, <2>2 DEF Redis!Crash
    <3> QED BY <2>1, <3>1 DEF Redis!Crash, Redis!vars
  <2>3. CASE dead # {}
    BY <2>1, <2>3 DEF Redis!Next
  <2> QED BY <2>2, <2>3
<1>8. CASE Tick
  BY <1>8 DEF Tick, Redis!Next
<1>9. CASE UNCHANGED vars
  BY <1>1, <1>9 DEF vars
<1> QED
  BY <1>2, <1>3, <1>4, <1>5, <1>6, <1>7, <1>8, <1>9, RequestRefines DEF Next
-----------------------------------------------------------------------------
(***************************************************************************)
(* Every step keeps the types                                              *)
(***************************************************************************)

\* pop takes a reservation of the request's model out of the tracker: there is
\* one, because the request is being served.
LEMMA PopTypes ==
  ASSUME Types, NEW q \in Requests, pc[q] = "release",
         NEW i, i = PopIndex(tracker[ProcOf[q]][cand[q]], ModelFor[q]), i # 0
  PROVE  /\ i \in 1..Len(tracker[ProcOf[q]][cand[q]])
         /\ tracker[ProcOf[q]][cand[q]][i] \in Reservations
         /\ modelOf[tracker[ProcOf[q]][cand[q]][i]] = ModelFor[q]
<1> DEFINE s == tracker[ProcOf[q]][cand[q]]
<1>1. cand[q] \in Creds /\ ProcOf[q] \in Procs
  BY ConductorAssumption DEF Types, CandKnown, Serving
<1>2. s \in Seq(Reservations)
  BY <1>1 DEF Types, ProcessTypes
<1> HIDE DEF s
<1>3. i \in 1..Len(s) /\ modelOf[s[i]] = ModelFor[q]
  BY <1>2, PopIndexFinds DEF s
<1>4. s[i] \in Reservations
  BY <1>2, <1>3, ElementOfSeq
<1> QED BY <1>3, <1>4 DEF s

\* The end of HandleMessages.
LEMMA ReturnTypes ==
  ASSUME Types, NEW q \in Requests, Return(q)
  PROVE  /\ RequestTypes' /\ CandKnown'
         /\ renewCtx' \in [Reservations -> Requests \cup {None}]
<1>1. RequestTypes'
  BY DEF Return, Goto, Types, RequestTypes, Serving
<1>2. CandKnown'
  BY DEF Return, Goto, Types, RequestTypes, CandKnown, Serving
<1>3. renewCtx' \in [Reservations -> Requests \cup {None}]
  BY DEF Return, EndContext, Types, ProcessTypes
<1> QED BY <1>1, <1>2, <1>3

\* A refused attempt.
LEMMA RefusedTypes ==
  ASSUME Types, NEW q \in Requests, Refused(q)
  PROVE  /\ RequestTypes' /\ CandKnown'
         /\ renewCtx' \in [Reservations -> Requests \cup {None}]
<1>1. CASE Return(q)
  BY <1>1, ReturnTypes
<1>2. CASE ~Return(q)
  <2>1. RequestTypes'
    BY <1>2 DEF Refused, Goto, Types, RequestTypes, Serving
  <2>2. CandKnown'
    BY <1>2 DEF Refused, Goto, Types, RequestTypes, CandKnown, Serving
  <2>3. renewCtx' = renewCtx
    BY <1>2 DEF Refused
  <2> QED BY <2>1, <2>2, <2>3 DEF Types, ProcessTypes
<1> QED BY <1>1, <1>2

\* The steps of Acquire that look for an account.
LEMMA LookupTypes ==
  ASSUME Types, NEW q \in Requests,
         \/ LookupRedisBinding(q) \/ LookupLocalBinding(q) \/ SyncInFlight(q)
         \/ StoreInFlight(q) \/ Pick(q)
  PROVE  RequestTypes' /\ CandKnown' /\ ProcessTypes'
<1> USE ConductorAssumption
<1>1. CASE LookupRedisBinding(q)
  <2>1. ProcessTypes'
    BY <1>1 DEF LookupRedisBinding, processVars, Types, ProcessTypes
  <2>2. CASE Goto(q, "local") /\ UNCHANGED <<stage, cand, hadBinding>>
    BY <1>1, <2>1, <2>2 DEF LookupRedisBinding, Goto, Types, RequestTypes, CandKnown, Serving
  <2>3. CASE /\ SessionOf[q] # None /\ redisBinding[SessionOf[q]] # None
             /\ Attempt(q, "redis", redisBinding[SessionOf[q]])
             /\ hadBinding' = [hadBinding EXCEPT ![q] = TRUE]
    <3>1. redisBinding[SessionOf[q]] \in Creds
      BY <2>3 DEF Types, ProcessTypes
    <3>2. RequestTypes'
      BY <1>1, <2>3, <3>1 DEF LookupRedisBinding, Attempt, Goto, Types, RequestTypes, Serving
    <3>3. CandKnown'
      BY <1>1, <2>3, <3>1 DEF LookupRedisBinding, Attempt, Goto, Types, RequestTypes, CandKnown
    <3> QED BY <2>1, <3>2, <3>3
  <2> QED BY <1>1, <2>2, <2>3 DEF LookupRedisBinding
<1>2. CASE LookupLocalBinding(q)
  <2>1. ProcessTypes'
    BY <1>2 DEF LookupLocalBinding, processVars, Types, ProcessTypes
  <2>2. CASE Goto(q, "sync") /\ UNCHANGED <<stage, cand, hadBinding>>
    BY <1>2, <2>1, <2>2 DEF LookupLocalBinding, Goto, Types, RequestTypes, CandKnown, Serving
  <2>3. CASE /\ SessionOf[q] # None /\ binding[ProcOf[q]][SessionOf[q]] # None
             /\ Attempt(q, "local", binding[ProcOf[q]][SessionOf[q]])
             /\ hadBinding' = [hadBinding EXCEPT ![q] = TRUE]
    <3>1. binding[ProcOf[q]][SessionOf[q]] \in Creds
      BY <2>3 DEF Types, ProcessTypes
    <3>2. RequestTypes'
      BY <1>2, <2>3, <3>1 DEF LookupLocalBinding, Attempt, Goto, Types, RequestTypes, Serving
    <3>3. CandKnown'
      BY <1>2, <2>3, <3>1 DEF LookupLocalBinding, Attempt, Goto, Types, RequestTypes, CandKnown
    <3> QED BY <2>1, <3>2, <3>3
  <2> QED BY <1>2, <2>2, <2>3 DEF LookupLocalBinding
<1>3. CASE SyncInFlight(q)
  <2>1. count \in [Creds -> Nat]
    BY DEF Types, RedisTypes
  <2>2. synced' \in [Requests -> [Creds -> Nat]]
    BY <1>3, <2>1 DEF SyncInFlight, Types, RequestTypes
  <2>6. Goto(q, "store") \/ Goto(q, "pick")
    BY <1>3 DEF SyncInFlight
  <2>7. UNCHANGED <<stage, cand, res, hadBinding, ctxDone>>
    BY <1>3 DEF SyncInFlight
  <2>8. RequestTypes'
    BY <2>2, <2>6, <2>7 DEF Goto, Types, RequestTypes
  <2>3. CandKnown'
    BY <1>3 DEF SyncInFlight, Goto, Types, RequestTypes, CandKnown, Serving
  <2>4. ProcessTypes'
    BY <1>3 DEF SyncInFlight, processVars, Types, ProcessTypes
  <2> QED BY <2>3, <2>4, <2>8
<1>4. CASE StoreInFlight(q)
  <2>1. RequestTypes' /\ CandKnown'
    BY <1>4 DEF StoreInFlight, Goto, NoSync, Types, RequestTypes, CandKnown, Serving
  <2>2. ProcessTypes'
    BY <1>4 DEF StoreInFlight, Types, RequestTypes, ProcessTypes
  <2> QED BY <2>1, <2>2
<1>5. CASE Pick(q)
  <2>1. ASSUME NEW p, NEW R PROVE Picks(p, R) \subseteq R
    BY DEF Picks
  <2>2. PICK c \in Creds : Attempt(q, "pick", c)
    BY <1>5, <2>1 DEF Pick, ReadySet
  <2>3. RequestTypes' /\ CandKnown'
    BY <1>5, <2>2 DEF Pick, Attempt, Goto, Types, RequestTypes, CandKnown, Serving
  <2>4. ProcessTypes'
    BY <1>5 DEF Pick, processVars, Types, ProcessTypes
  <2> QED BY <2>3, <2>4
<1> QED BY <1>1, <1>2, <1>3, <1>4, <1>5
\* tryReserve, its rollback, trackReservation and SetAffinity.
LEMMA ReserveTypes ==
  ASSUME Types, Holdings, NEW q \in Requests,
         \/ NoReady(q) \/ ReserveAccepted(q) \/ ReserveRefused(q) \/ ReserveFails(q)
         \/ Track(q) \/ Rollback(q) \/ BindRedis(q)
  PROVE  RequestTypes' /\ CandKnown' /\ ProcessTypes'
<1> USE ConductorAssumption
<1>1. CASE NoReady(q) \/ ReserveRefused(q) \/ ReserveFails(q) \/ Rollback(q)
  <2>1. UNCHANGED <<redisBinding, tracker, inFlight, disabled, cooling, binding, enabling>>
    BY <1>1 DEF NoReady, ReserveRefused, ReserveFails, Rollback
  <2>2. Return(q) \/ Refused(q)
    BY <1>1 DEF NoReady, ReserveRefused, ReserveFails, Rollback
  <2>3. /\ RequestTypes' /\ CandKnown'
        /\ renewCtx' \in [Reservations -> Requests \cup {None}]
    BY <2>2, ReturnTypes, RefusedTypes
  <2> QED BY <2>1, <2>3 DEF Types, ProcessTypes
<1>2. CASE ReserveAccepted(q)
  <2>1. PICK r \in Reservations : res' = [res EXCEPT ![q] = r]
    BY <1>2 DEF ReserveAccepted
  <2>2. Goto(q, "accepted") /\ pc[q] = "reserve"
    BY <1>2 DEF ReserveAccepted
  <2>3. UNCHANGED <<redisBinding, stage, cand, hadBinding, synced, ctxDone, processVars>>
    BY <1>2 DEF ReserveAccepted
  <2>4. RequestTypes'
    BY <2>1, <2>2, <2>3 DEF Goto, Types, RequestTypes
  <2>5. CandKnown'
    BY <2>2, <2>3 DEF Goto, Types, RequestTypes, CandKnown
  <2> QED BY <2>3, <2>4, <2>5 DEF processVars, Types, ProcessTypes
<1>3. CASE Track(q)
  <2> DEFINE p == ProcOf[q]
             c == cand[q]
             s == SessionOf[q]
             t == tracker[p][c]
  <2>1. pc[q] = "accepted" /\ p \in Procs /\ c \in Creds /\ q \in Carried
    BY <1>3 DEF Track, Carried, Types, CandKnown
  <2>2. res[q] \in Reservations
    BY <2>1 DEF Holdings, Types, RedisTypes
  <2>3. Goto(q, "bind") \/ Goto(q, "active")
    BY <1>3 DEF Track
  <2>4. /\ res' = [res EXCEPT ![q] = None]
        /\ stage' = [stage EXCEPT ![q] = None]
        /\ hadBinding' = [hadBinding EXCEPT ![q] = FALSE]
        /\ UNCHANGED <<redisBinding, cand, synced, ctxDone, disabled, cooling, enabling>>
    BY <1>3 DEF Track
  <2>5. RequestTypes'
    BY <2>3, <2>4 DEF Goto, Types, RequestTypes, Serving
  <2>6. CandKnown'
    BY <2>1, <2>3, <2>4 DEF Goto, Types, RequestTypes, CandKnown
  <2>7. tracker' \in [Procs -> [Creds -> Seq(Reservations)]]
    <3>1. t \in Seq(Reservations)
      BY <2>1 DEF Types, ProcessTypes
    <3>2. Append(t, res[q]) \in Seq(Reservations)
      BY <2>2, <3>1, AppendedSet
    <3>3. tracker' = [tracker EXCEPT ![p][c] = Append(t, res[q])]
      BY <1>3 DEF Track
    <3> HIDE DEF p, c, t
    <3> QED BY <2>1, <3>2, <3>3 DEF Types, ProcessTypes
  <2>8. renewCtx' \in [Reservations -> Requests \cup {None}]
    BY <1>3, <2>2 DEF Track, Types, ProcessTypes
  <2>9. inFlight' \in [Procs -> [Creds -> Nat]]
    BY <1>3, <2>1 DEF Track, Types, ProcessTypes
  <2>10. binding' \in [Procs -> [Sessions -> Creds \cup {None}]]
    <3>1. (s \in Sessions /\ binding' = [binding EXCEPT ![p][s] = c]) \/ binding' = binding
      BY <1>3 DEF Track
    <3> DEFINE V == Creds \cup {None}
    <3>2. binding \in [Procs -> [Sessions -> V]] /\ c \in V
      BY <2>1 DEF Types, ProcessTypes
    <3> HIDE DEF p, c, s, V
    <3>3. binding' \in [Procs -> [Sessions -> V]]
      <4>1. CASE binding' = binding
        BY <3>2, <4>1
      <4>2. CASE s \in Sessions /\ binding' = [binding EXCEPT ![p][s] = c]
        <5>1. [binding EXCEPT ![p][s] = c] \in [Procs -> [Sessions -> V]]
          BY ONLY <2>1, <3>2, <4>2, CellUpdate
        <5> QED BY <4>2, <5>1
      <4> QED BY <3>1, <4>1, <4>2
    <3> QED BY <3>3 DEF V
  <2> QED BY <2>4, <2>5, <2>6, <2>7, <2>8, <2>9, <2>10 DEF Types, ProcessTypes
<1>4. CASE BindRedis(q)
  <2>1. pc[q] = "bind" /\ Goto(q, "active") /\ cand[q] \in Creds
    BY <1>4 DEF BindRedis, Types, CandKnown, Serving
  <2>2. UNCHANGED <<stage, cand, res, hadBinding, synced, ctxDone, processVars>>
    BY <1>4 DEF BindRedis
  <2>3. RequestTypes'
    BY <2>1, <2>2 DEF Goto, Types, RequestTypes, Serving
  <2>4. CandKnown'
    BY <2>1, <2>2 DEF Goto, Types, RequestTypes, CandKnown
  <2>5. redisBinding' \in [Sessions -> Creds \cup {None}]
    BY <1>4, <2>1 DEF BindRedis, Types, ProcessTypes
  <2> QED BY <2>2, <2>3, <2>4, <2>5 DEF processVars, Types, ProcessTypes
<1> QED BY <1>1, <1>2, <1>3, <1>4

\* A step that only moves a request that has its account along.
LEMMA MoveTypes ==
  ASSUME Types, NEW q \in Requests, KeepRequest, cand[q] \in Creds,
         NEW next \in {"releaseRedis", "releaseLocal"} \cup Serving, Goto(q, next)
  PROVE  RequestTypes' /\ CandKnown'
<1>1. UNCHANGED <<stage, cand, res, hadBinding, synced, ctxDone>>
  BY DEF KeepRequest
<1>2. RequestTypes'
  BY <1>1 DEF Goto, Types, RequestTypes
<1>3. CandKnown'
  BY <1>1 DEF Goto, Types, RequestTypes, CandKnown
<1> QED BY <1>2, <1>3

\* The outcome.
LEMMA MarkTypes ==
  ASSUME Types, NEW q \in Requests,
         \/ MarkSuccess(q) \/ MarkRateLimit(q) \/ MarkAuthError(q) \/ MarkNothing(q)
         \/ Mirror(q)
  PROVE  RequestTypes' /\ CandKnown' /\ ProcessTypes'
<1> USE ConductorAssumption
<1> DEFINE p == ProcOf[q]
           c == cand[q]
<1>1. p \in Procs /\ c \in Creds
  <2>1. pc[q] \in Serving
    BY DEF MarkSuccess, MarkRateLimit, MarkAuthError, MarkNothing, Mirror, MirrorCall, Serving
  <2> QED BY <2>1 DEF Types, CandKnown
<1>2. /\ KeepRequest
      /\ \E next \in Serving : Goto(q, next)
  BY DEF MarkSuccess, MarkRateLimit, MarkAuthError, MarkNothing, Mirror, MirrorCall, Serving
<1>3. RequestTypes' /\ CandKnown'
  BY <1>1, <1>2, MoveTypes
<1>4. ASSUME NEW row \in [Redis!ModelArg -> 0..CooldownTTL],
             cooling' = [cooling EXCEPT ![p][c] = row]
      PROVE  cooling' \in [Procs -> [Creds -> [Redis!ModelArg -> 0..CooldownTTL]]]
  <2> HIDE DEF p, c
  <2> QED BY <1>1, <1>4 DEF Types, ProcessTypes
<1>5. cooling[p][c] \in [Redis!ModelArg -> 0..CooldownTTL]
  BY <1>1 DEF Types, ProcessTypes
<1>6. CASE MarkSuccess(q)
  <2> DEFINE row == [m \in Redis!ModelArg |->
                       IF m \in {NoModel, ModelFor[q]} THEN 0 ELSE cooling[p][c][m]]
  <2>1. row \in [Redis!ModelArg -> 0..CooldownTTL]
    BY <1>5
  <2>2. cooling' = [cooling EXCEPT ![p][c] = row]
    BY <1>6 DEF MarkSuccess
  <2>3. UNCHANGED <<redisBinding, tracker, renewCtx, inFlight, disabled, binding, enabling>>
    BY <1>6 DEF MarkSuccess
  <2> HIDE DEF row
  <2>4. cooling' \in [Procs -> [Creds -> [Redis!ModelArg -> 0..CooldownTTL]]]
    BY <1>4, <2>1, <2>2
  <2> QED BY <1>3, <2>3, <2>4 DEF Types, ProcessTypes
<1>7. CASE MarkRateLimit(q)
  <2> DEFINE row == [m \in Redis!ModelArg |->
                       IF m \in {NoModel, ModelFor[q]} THEN CooldownTTL ELSE cooling[p][c][m]]
  <2>1. row \in [Redis!ModelArg -> 0..CooldownTTL]
    BY <1>5
  <2>2. cooling' = cooling \/ cooling' = [cooling EXCEPT ![p][c] = row]
    BY <1>7 DEF MarkRateLimit
  <2>3. UNCHANGED <<redisBinding, tracker, renewCtx, inFlight, disabled, binding, enabling>>
    BY <1>7 DEF MarkRateLimit
  <2> HIDE DEF row
  <2>4. cooling' \in [Procs -> [Creds -> [Redis!ModelArg -> 0..CooldownTTL]]]
    BY <1>4, <2>1, <2>2 DEF Types, ProcessTypes
  <2> QED BY <1>3, <2>3, <2>4 DEF Types, ProcessTypes
<1>8. CASE MarkAuthError(q)
  BY <1>1, <1>3, <1>8 DEF MarkAuthError, Types, ProcessTypes
<1>9. CASE MarkNothing(q) \/ Mirror(q)
  <2>1. UNCHANGED <<redisBinding, processVars>>
    BY <1>9 DEF MarkNothing, Mirror, MirrorCall
  <2> QED BY <1>3, <2>1 DEF processVars, Types, ProcessTypes
<1> QED BY <1>6, <1>7, <1>8, <1>9

\* Release.
LEMMA ReleaseTypes ==
  ASSUME Types, Holdings, NEW q \in Requests,
         PopReservation(q) \/ ReleaseRedis(q) \/ ReleaseLocal(q)
  PROVE  RequestTypes' /\ CandKnown' /\ ProcessTypes'
<1> USE ConductorAssumption
<1> DEFINE p == ProcOf[q]
           c == cand[q]
           s == tracker[p][c]
<1>1. p \in Procs /\ c \in Creds
  BY DEF PopReservation, ReleaseRedis, ReleaseLocal, Serving, Types, CandKnown
<1>2. s \in Seq(Reservations) /\ IsInjective(s)
  BY <1>1 DEF Types, ProcessTypes, Holdings
<1>3. CASE PopReservation(q)
  <2> DEFINE i == PopIndex(s, ModelFor[q])
  <2>1. UNCHANGED <<redisBinding, stage, cand, hadBinding, synced, ctxDone, inFlight,
                    disabled, cooling, binding, enabling>>
    BY <1>3 DEF PopReservation
  <2>2. CASE i = 0
    <3>1. Goto(q, "releaseLocal") /\ UNCHANGED <<tracker, renewCtx, res>>
      BY <1>3, <2>2 DEF PopReservation
    <3>2. RequestTypes' /\ CandKnown'
      BY <1>1, <2>1, <3>1, MoveTypes DEF KeepRequest
    <3> QED BY <2>1, <3>1, <3>2 DEF Types, ProcessTypes
  <2>3. CASE i # 0
    <3>1. pc[q] = "release"
      BY <1>3 DEF PopReservation
    <3>2. i \in 1..Len(s) /\ s[i] \in Reservations
      BY <2>3, <3>1, PopTypes
    <3>3. /\ tracker' = [tracker EXCEPT ![p][c] = RemoveAt(s, i)]
          /\ renewCtx' = [renewCtx EXCEPT ![s[i]] = None]
          /\ res' = [res EXCEPT ![q] = s[i]]
          /\ Goto(q, "releaseRedis")
      BY <1>3, <2>3 DEF PopReservation
    <3> HIDE DEF i
    <3>4. RemoveAt(s, i) \in Seq(Reservations)
      BY <1>2, <3>2, RemovedSet
    <3> HIDE DEF p, c, s
    <3>5. tracker' \in [Procs -> [Creds -> Seq(Reservations)]]
      BY <1>1, <3>3, <3>4 DEF Types, ProcessTypes
    <3>6. renewCtx' \in [Reservations -> Requests \cup {None}]
      BY <3>2, <3>3 DEF Types, ProcessTypes
    <3>7. RequestTypes'
      BY <2>1, <3>2, <3>3 DEF Goto, Types, RequestTypes
    <3>8. CandKnown'
      BY <1>1, <2>1, <3>3 DEF Goto, Types, RequestTypes, CandKnown, c
    <3> QED BY <2>1, <3>5, <3>6, <3>7, <3>8 DEF Types, ProcessTypes
  <2> QED BY <2>2, <2>3
<1>4. CASE ReleaseRedis(q)
  <2>1. /\ res' = [res EXCEPT ![q] = None]
        /\ Goto(q, "releaseLocal")
        /\ UNCHANGED <<redisBinding, stage, cand, hadBinding, synced, ctxDone, processVars>>
    BY <1>4 DEF ReleaseRedis
  <2>2. RequestTypes'
    BY <2>1 DEF Goto, Types, RequestTypes
  <2>3. CandKnown'
    BY <1>1, <2>1 DEF Goto, Types, RequestTypes, CandKnown
  <2> QED BY <2>1, <2>2, <2>3 DEF processVars, Types, ProcessTypes
<1>5. CASE ReleaseLocal(q)
  <2>1. Return(q) /\ UNCHANGED <<redisBinding, tracker, disabled, cooling, binding, enabling>>
    BY <1>5 DEF ReleaseLocal
  <2>2. inFlight' \in [Procs -> [Creds -> Nat]]
    BY <1>1, <1>5 DEF ReleaseLocal, Types, ProcessTypes
  <2> QED BY <2>1, <2>2, ReturnTypes DEF Types, ProcessTypes
<1> QED BY <1>3, <1>4, <1>5
\* Clients, operators, expiry and crashes.
LEMMA OtherTypes ==
  ASSUME Types,
         \/ \E q \in Requests : Disconnect(q)
         \/ \E r \in Reservations : Renew(r) \/ RenewGone(r) \/ RenewCancelled(r)
         \/ \E p \in Procs, c \in Creds : Disable(p, c) \/ Enable(p, c)
         \/ \E c \in Creds : EnableRedis(c)
         \/ \E s \in Sessions : BindingExpires(s)
         \/ \E p \in Procs : Crash(p)
         \/ Tick
         \/ UNCHANGED vars
  PROVE  RequestTypes' /\ CandKnown' /\ ProcessTypes'
<1> USE ConductorAssumption
<1>1. ASSUME UNCHANGED requestVars PROVE RequestTypes' /\ CandKnown'
  BY <1>1 DEF requestVars, Types, RequestTypes, CandKnown
<1>2. NoModel \in Redis!ModelArg
  BY DEF Redis!ModelArg
<1>3. ASSUME NEW q \in Requests, Disconnect(q) PROVE RequestTypes' /\ CandKnown' /\ ProcessTypes'
  <2>1. UNCHANGED <<redisBinding, pc, stage, cand, res, hadBinding, synced, tracker, inFlight,
                    disabled, cooling, binding, enabling>>
    BY <1>3 DEF Disconnect
  <2>2. RequestTypes' /\ CandKnown'
    BY <1>3, <2>1 DEF Disconnect, Types, RequestTypes, CandKnown
  <2>3. renewCtx' \in [Reservations -> Requests \cup {None}]
    BY <1>3 DEF Disconnect, EndContext, Types, ProcessTypes
  <2> QED BY <2>1, <2>2, <2>3 DEF Types, ProcessTypes
<1>4. ASSUME NEW r \in Reservations, Renew(r) \/ RenewGone(r) \/ RenewCancelled(r)
      PROVE  RequestTypes' /\ CandKnown' /\ ProcessTypes'
  <2>1. UNCHANGED <<redisBinding, requestVars, processVars>>
    BY <1>4 DEF Renew, RenewGone, RenewCancelled, KeepAllButRedis
  <2> QED BY <1>1, <2>1 DEF processVars, Types, ProcessTypes
<1>5. ASSUME NEW p \in Procs, NEW c \in Creds, Disable(p, c)
      PROVE  RequestTypes' /\ CandKnown' /\ ProcessTypes'
  <2>1. disabled' \in [Procs -> SUBSET Creds]
    BY <1>5 DEF Disable, Types, ProcessTypes
  <2>2. UNCHANGED <<redisBinding, requestVars, tracker, renewCtx, inFlight, cooling, binding,
                    enabling>>
    BY <1>5 DEF Disable
  <2> QED BY <1>1, <2>1, <2>2 DEF Types, ProcessTypes
<1>6. ASSUME NEW p \in Procs, NEW c \in Creds, Enable(p, c)
      PROVE  RequestTypes' /\ CandKnown' /\ ProcessTypes'
  <2>1. disabled' \in [Procs -> SUBSET Creds] /\ enabling' \in SUBSET Creds
    BY <1>6 DEF Enable, Types, ProcessTypes
  <2>2. cooling' \in [Procs -> [Creds -> [Redis!ModelArg -> 0..CooldownTTL]]]
    <3>1. cooling' = [cooling EXCEPT ![p][c] = [cooling[p][c] EXCEPT ![NoModel] = 0]]
      BY <1>6 DEF Enable, Types, ProcessTypes
    <3>2. [cooling[p][c] EXCEPT ![NoModel] = 0] \in [Redis!ModelArg -> 0..CooldownTTL]
      BY <1>2 DEF Types, ProcessTypes
    <3> QED BY <3>1, <3>2 DEF Types, ProcessTypes
  <2>3. UNCHANGED <<redisBinding, requestVars, tracker, renewCtx, inFlight, binding>>
    BY <1>6 DEF Enable
  <2> QED BY <1>1, <2>1, <2>2, <2>3 DEF Types, ProcessTypes
<1>7. ASSUME NEW c \in Creds, EnableRedis(c) PROVE RequestTypes' /\ CandKnown' /\ ProcessTypes'
  <2>1. /\ enabling' \in SUBSET Creds
        /\ UNCHANGED <<redisBinding, requestVars, tracker, renewCtx, inFlight, disabled,
                       cooling, binding>>
    BY <1>7 DEF EnableRedis, Types, ProcessTypes
  <2> QED BY <1>1, <2>1 DEF Types, ProcessTypes
<1>8. ASSUME NEW s \in Sessions, BindingExpires(s)
      PROVE  RequestTypes' /\ CandKnown' /\ ProcessTypes'
  <2>1. UNCHANGED <<requestVars, tracker, renewCtx, inFlight, disabled, cooling, enabling>>
    BY <1>8 DEF BindingExpires
  <2>2. redisBinding' \in [Sessions -> Creds \cup {None}]
    BY <1>8 DEF BindingExpires, Types, ProcessTypes
  <2>3. binding' \in [Procs -> [Sessions -> Creds \cup {None}]]
    <3>1. binding' = binding \/ \E p \in Procs : binding' = [binding EXCEPT ![p][s] = None]
      BY <1>8 DEF BindingExpires
    <3> DEFINE V == Creds \cup {None}
    <3>2. binding \in [Procs -> [Sessions -> V]] /\ None \in V
      BY DEF Types, ProcessTypes
    <3> HIDE DEF V
    <3>3. binding' \in [Procs -> [Sessions -> V]]
      <4>1. CASE binding' = binding
        BY <3>2, <4>1
      <4>2. ASSUME NEW p \in Procs, binding' = [binding EXCEPT ![p][s] = None]
            PROVE  binding' \in [Procs -> [Sessions -> V]]
        <5>1. [binding EXCEPT ![p][s] = None] \in [Procs -> [Sessions -> V]]
          BY ONLY <3>2, p \in Procs, s \in Sessions, CellUpdate
        <5> QED BY <4>2, <5>1
      <4> QED BY <3>1, <4>1, <4>2
    <3> QED BY <3>3 DEF V
  <2> QED BY <1>1, <2>1, <2>2, <2>3 DEF Types, ProcessTypes
<1>9. ASSUME NEW p \in Procs, Crash(p) PROVE RequestTypes' /\ CandKnown' /\ ProcessTypes'
  <2> DEFINE mine == {q \in Requests : ProcOf[q] = p}
  <2>1. /\ pc' = [q \in Requests |-> IF q \in mine THEN "idle" ELSE pc[q]]
        /\ stage' = [q \in Requests |-> IF q \in mine THEN None ELSE stage[q]]
        /\ cand' = [q \in Requests |-> IF q \in mine THEN None ELSE cand[q]]
        /\ res' = [q \in Requests |-> IF q \in mine THEN None ELSE res[q]]
        /\ hadBinding' = [q \in Requests |-> IF q \in mine THEN FALSE ELSE hadBinding[q]]
        /\ synced' = [q \in Requests |-> IF q \in mine THEN NoSync ELSE synced[q]]
        /\ ctxDone' = ctxDone \ mine
    BY <1>9 DEF Crash
  <2>2. RequestTypes'
    <3>1. NoSync \in [Creds -> Nat]
      BY DEF NoSync
    <3>2. synced' \in [Requests -> [Creds -> Nat]] /\ hadBinding' \in [Requests -> BOOLEAN]
      BY <2>1, <3>1 DEF Types, RequestTypes
    <3> QED BY <2>1, <3>2 DEF Types, RequestTypes
  <2>3. CandKnown'
    BY <2>1 DEF Types, RequestTypes, CandKnown, Serving
  <2>4. /\ renewCtx' \in [Reservations -> Requests \cup {None}]
        /\ inFlight' \in [Procs -> [Creds -> Nat]]
        /\ binding' \in [Procs -> [Sessions -> Creds \cup {None}]]
        /\ UNCHANGED <<redisBinding, enabling>>
    BY <1>9 DEF Crash, Types, ProcessTypes
  <2>5. tracker' \in [Procs -> [Creds -> Seq(Reservations)]]
    <3> DEFINE none == [c \in Creds |-> <<>>]
    <3>1. none \in [Creds -> Seq(Reservations)] /\ tracker' = [tracker EXCEPT ![p] = none]
      BY <1>9, EmptySeq DEF Crash
    <3> HIDE DEF none
    <3> QED BY <3>1 DEF Types, ProcessTypes
  <2>6. disabled' \in [Procs -> SUBSET Creds]
    <3>1. PICK saved \in SUBSET UNION {disabled[o] : o \in Procs} :
            disabled' = [disabled EXCEPT ![p] = saved]
      BY <1>9 DEF Crash
    <3>2. saved \subseteq Creds
      BY <3>1 DEF Types, ProcessTypes
    <3> QED BY <3>1, <3>2 DEF Types, ProcessTypes
  <2>7. cooling' \in [Procs -> [Creds -> [Redis!ModelArg -> 0..CooldownTTL]]]
    <3> DEFINE none == [c \in Creds |-> [m \in Redis!ModelArg |-> 0]]
    <3>1. none \in [Creds -> [Redis!ModelArg -> 0..CooldownTTL]]
      OBVIOUS
    <3>2. cooling' = [cooling EXCEPT ![p] = none]
      BY <1>9 DEF Crash
    <3> HIDE DEF none
    <3> QED BY <3>1, <3>2 DEF Types, ProcessTypes
  <2> QED BY <2>2, <2>3, <2>4, <2>5, <2>6, <2>7 DEF Types, ProcessTypes
<1>10. CASE Tick
  <2>1. /\ cooling' = [p \in Procs |-> [c \in Creds |-> [m \in Redis!ModelArg |->
                         Redis!Elapse(cooling[p][c][m])]]]
        /\ UNCHANGED <<redisBinding, requestVars, tracker, renewCtx, inFlight, disabled,
                       binding, enabling>>
    BY <1>10 DEF Tick
  <2>2. \A n \in 0..CooldownTTL : Redis!Elapse(n) \in 0..CooldownTTL
    BY DEF Redis!Elapse
  <2>3. cooling' \in [Procs -> [Creds -> [Redis!ModelArg -> 0..CooldownTTL]]]
    BY <2>1, <2>2 DEF Types, ProcessTypes
  <2> QED BY <1>1, <2>1, <2>3 DEF Types, ProcessTypes
<1>11. CASE UNCHANGED vars
  BY <1>1, <1>11 DEF vars, processVars, Types, ProcessTypes
<1> QED BY <1>3, <1>4, <1>5, <1>6, <1>7, <1>8, <1>9, <1>10, <1>11

\* The next-state relation keeps the types.
LEMMA TypesStep ==
  ASSUME Types, Holdings, [Next]_vars
  PROVE  Types'
<1>1. RedisTypes'
  BY StepRefines, RedisTypesStep DEF Types
<1>2. ASSUME NEW q \in Requests, RequestStep(q)
      PROVE  RequestTypes' /\ CandKnown' /\ ProcessTypes'
  BY <1>2, LookupTypes, ReserveTypes, MarkTypes, ReleaseTypes DEF RequestStep
<1>3. RequestTypes' /\ CandKnown' /\ ProcessTypes'
  <2>1. \/ \E q \in Requests : RequestStep(q)
        \/ \E q \in Requests : Disconnect(q)
        \/ \E r \in Reservations : Renew(r) \/ RenewGone(r) \/ RenewCancelled(r)
        \/ \E p \in Procs, c \in Creds : Disable(p, c) \/ Enable(p, c)
        \/ \E c \in Creds : EnableRedis(c)
        \/ \E s \in Sessions : BindingExpires(s)
        \/ \E p \in Procs : Crash(p)
        \/ Tick
        \/ UNCHANGED vars
    BY DEF Next
  <2> QED BY <1>2, <2>1, OtherTypes
<1> QED BY <1>1, <1>3 DEF Types
-----------------------------------------------------------------------------
(***************************************************************************)
(* Steps that move no reservation                                          *)
(***************************************************************************)

\* A request keeps its reservation and its account, or has none before and after.
SameRole(q) ==
    /\ pc'[q] = "accepted" <=> pc[q] = "accepted"
    /\ pc'[q] = "releaseRedis" <=> pc[q] = "releaseRedis"
    /\ pc'[q] \in Serving <=> pc[q] \in Serving
    /\ pc[q] \in {"accepted", "releaseRedis"} => res'[q] = res[q]
    /\ pc[q] \in {"accepted"} \cup Serving => cand'[q] = cand[q]

\* A held reservation stays the one of its account and model.
KeysStable == \A r \in held : credOf'[r] = credOf[r] /\ modelOf'[r] = modelOf[r]

\* Only request q moves.
OnlyMoves(q) ==
    \A o \in Requests \ {q} : pc'[o] = pc[o] /\ res'[o] = res[o] /\ cand'[o] = cand[o]

\* When no reservation moves, what is held stays accounted for.
LEMMA QuietStep ==
  ASSUME ConductorInv, KeysStable, UNCHANGED <<held, tracker>>,
         \A q \in Requests : SameRole(q)
  PROVE  Holdings' /\ SlotsCounted'
<1>1. /\ Carried' = Carried
      /\ \A q \in Carried : res'[q] = res[q]
  BY DEF Carried, SameRole
<1>2. Holdings'
  BY <1>1 DEF Holdings, ConductorInv, KeysStable, SameRole, Carried
<1>3. ASSUME NEW p \in Procs, NEW c \in Creds, NEW m \in Models
      PROVE  Tracked(p, c, m)' = Tracked(p, c, m)
  BY DEF Tracked, Holdings, ConductorInv, KeysStable
<1>4. ASSUME NEW p \in Procs, NEW c \in Creds, NEW m \in Models
      PROVE  ServedBy(p, c, m)' = ServedBy(p, c, m)
  BY DEF ServedBy, SameRole
<1> QED BY <1>2, <1>3, <1>4 DEF SlotsCounted, ConductorInv

\* A request's step moves no other request.
LEMMA RequestMovesAlone ==
  ASSUME Types, NEW q \in Requests, RequestStep(q)
  PROVE  OnlyMoves(q)
<1> USE DEF OnlyMoves, Types, RequestTypes, Goto
<1>1. ASSUME Return(q) PROVE OnlyMoves(q)
  BY <1>1 DEF Return
<1>2. ASSUME Refused(q) PROVE OnlyMoves(q)
  BY <1>1, <1>2 DEF Refused
<1>3. CASE LookupRedisBinding(q)
  BY <1>3 DEF LookupRedisBinding, Attempt
<1>4. CASE LookupLocalBinding(q)
  BY <1>4 DEF LookupLocalBinding, Attempt
<1>5. CASE SyncInFlight(q) \/ StoreInFlight(q)
  BY <1>5 DEF SyncInFlight, StoreInFlight
<1>6. CASE Pick(q)
  BY <1>6 DEF Pick, Attempt
<1>7. CASE NoReady(q) \/ ReserveRefused(q) \/ ReserveFails(q) \/ Rollback(q) \/ ReleaseLocal(q)
  BY <1>1, <1>2, <1>7 DEF NoReady, ReserveRefused, ReserveFails, Rollback, ReleaseLocal
<1>8. CASE ReserveAccepted(q)
  BY <1>8 DEF ReserveAccepted
<1>9. CASE Track(q) \/ ReleaseRedis(q)
  BY <1>9 DEF Track, ReleaseRedis
<1>10. CASE BindRedis(q) \/ MarkSuccess(q) \/ MarkRateLimit(q) \/ MarkAuthError(q)
            \/ MarkNothing(q)
  BY <1>10 DEF BindRedis, MarkSuccess, MarkRateLimit, MarkAuthError, MarkNothing, KeepRequest
<1>11. CASE Mirror(q)
  BY <1>11 DEF Mirror, MirrorCall, KeepRequest
<1>12. CASE PopReservation(q)
  BY <1>12 DEF PopReservation
<1> QED
  BY <1>3, <1>4, <1>5, <1>6, <1>7, <1>8, <1>9, <1>10, <1>11, <1>12 DEF RequestStep

\* The steps of a request that move no reservation.
LEMMA QuietRequest ==
  ASSUME ConductorInv, NEW q \in Requests, RequestStep(q),
         \/ LookupRedisBinding(q) \/ LookupLocalBinding(q) \/ SyncInFlight(q)
         \/ StoreInFlight(q) \/ Pick(q) \/ NoReady(q) \/ ReserveRefused(q) \/ ReserveFails(q)
         \/ BindRedis(q) \/ MarkSuccess(q) \/ MarkRateLimit(q) \/ MarkAuthError(q)
         \/ MarkNothing(q) \/ Mirror(q) \/ ReleaseLocal(q)
  PROVE  Holdings' /\ SlotsCounted'
<1> USE DEF ConductorInv
<1>1. OnlyMoves(q)
  BY RequestMovesAlone
<1>2. ASSUME NEW o \in Requests, o # q PROVE SameRole(o)
  BY <1>1, <1>2 DEF OnlyMoves, SameRole
<1>3. UNCHANGED tracker
  BY DEF LookupRedisBinding, LookupLocalBinding, SyncInFlight, StoreInFlight, Pick, NoReady,
     ReserveRefused, ReserveFails, BindRedis, MarkSuccess, MarkRateLimit, MarkAuthError,
     MarkNothing, Mirror, MirrorCall, ReleaseLocal, processVars
<1>4. ASSUME UNCHANGED redisVars PROVE UNCHANGED held /\ KeysStable
  BY <1>4 DEF redisVars, KeysStable
<1>5. UNCHANGED held /\ KeysStable
  <2>1. CASE ReserveFails(q)
    <3>1. CASE UNCHANGED redisVars
      BY <1>4, <3>1
    <3>2. ASSUME NEW r \in IdsOf[ProcOf[q]],
                 Redis!TryReserveReplyLost(r, cand[q], ModelFor[q])
          PROVE  UNCHANGED held /\ KeysStable
      <4>1. r \notin held /\ held' = held
        BY <3>2 DEF Redis!TryReserveReplyLost, Redis!Fresh
      <4>2. /\ credOf' = [credOf EXCEPT ![r] = cand[q]]
            /\ modelOf' = [modelOf EXCEPT ![r] = ModelFor[q]]
        BY <3>2 DEF Redis!TryReserveReplyLost, Redis!ReserveScript
      <4> QED BY <4>1, <4>2 DEF KeysStable, Types, RedisTypes
    <3> QED BY <2>1, <3>1, <3>2 DEF ReserveFails
  <2>2. CASE Mirror(q)
    BY <1>4, <2>2 DEF Mirror, MirrorCall, Redis!ClearCooldown, Redis!SetCooldown,
       Redis!leaseVars, KeysStable
  <2>3. CASE ~ReserveFails(q) /\ ~Mirror(q)
    BY <1>4, <2>3 DEF LookupRedisBinding, LookupLocalBinding, SyncInFlight, StoreInFlight,
       Pick, NoReady, ReserveRefused, BindRedis, MarkSuccess, MarkRateLimit,
       MarkAuthError, MarkNothing, ReleaseLocal
  <2> QED BY <2>1, <2>2, <2>3
<1>6. SameRole(q)
  <2> USE DEF SameRole, Types, RequestTypes, Serving, Goto
  <2>1. CASE LookupRedisBinding(q) \/ LookupLocalBinding(q) \/ Pick(q)
    <3>1. /\ pc[q] \in {"idle", "local", "pick"}
          /\ pc'[q] \in {"local", "sync", "reserve"}
      BY <2>1 DEF LookupRedisBinding, LookupLocalBinding, Pick, Attempt
    <3> QED BY <3>1
  <2>2. CASE SyncInFlight(q) \/ StoreInFlight(q)
    <3>1. /\ pc[q] \in {"sync", "store"}
          /\ pc'[q] \in {"store", "pick"}
      BY <2>2 DEF SyncInFlight, StoreInFlight
    <3> QED BY <3>1
  <2>3. CASE NoReady(q) \/ ReserveRefused(q) \/ ReserveFails(q) \/ ReleaseLocal(q)
    <3>1. /\ pc[q] \in {"pick", "reserve", "releaseLocal"}
          /\ pc'[q] \in {"idle", "local", "sync"}
      BY <2>3 DEF NoReady, ReserveRefused, ReserveFails, ReleaseLocal, Refused, Return
    <3> QED BY <3>1
  <2>4. CASE BindRedis(q) \/ MarkSuccess(q) \/ MarkRateLimit(q) \/ MarkAuthError(q)
             \/ MarkNothing(q)
    <3>1. /\ pc[q] \in {"bind", "active"} /\ cand' = cand
          /\ pc'[q] \in {"active", "clear", "cool", "coolAuth", "release"}
      BY <2>4 DEF BindRedis, MarkSuccess, MarkRateLimit, MarkAuthError, MarkNothing,
         KeepRequest
    <3> QED BY <3>1
  <2>5. CASE Mirror(q)
    <3>1. /\ pc[q] \in {"clear", "cool", "coolModel", "coolAuth"} /\ cand' = cand
          /\ pc'[q] \in {"coolModel", "release"}
      BY <2>5 DEF Mirror, MirrorCall, KeepRequest
    <3> QED BY <3>1
  <2> QED BY <2>1, <2>2, <2>3, <2>4, <2>5
<1> QED BY <1>2, <1>3, <1>5, <1>6, QuietStep

\* Clients, renewals, operators, expiry and time move no reservation.
LEMMA QuietOther ==
  ASSUME ConductorInv,
         \/ \E q \in Requests : Disconnect(q)
         \/ \E r \in Reservations : Renew(r) \/ RenewGone(r) \/ RenewCancelled(r)
         \/ \E p \in Procs, c \in Creds : Disable(p, c) \/ Enable(p, c)
         \/ \E c \in Creds : EnableRedis(c)
         \/ \E s \in Sessions : BindingExpires(s)
         \/ Tick
         \/ UNCHANGED vars
  PROVE  Holdings' /\ SlotsCounted'
<1>1. UNCHANGED <<pc, cand, res, tracker>>
  BY DEF Disconnect, Renew, RenewGone, RenewCancelled, KeepAllButRedis, Disable, Enable,
     EnableRedis, BindingExpires, Tick, vars, requestVars, processVars
<1>2. UNCHANGED <<held, credOf, modelOf>>
  BY DEF Disconnect, Renew, RenewGone, RenewCancelled, Disable, Enable, EnableRedis,
     BindingExpires, Tick, vars, redisVars, Redis!Extend, Redis!ExtendGone,
     Redis!StopRenewal, Redis!ClearCooldown, Redis!Tick, Redis!leaseVars
<1>3. \A q \in Requests : SameRole(q)
  BY <1>1 DEF SameRole
<1> QED BY <1>1, <1>2, <1>3, QuietStep DEF KeysStable
-----------------------------------------------------------------------------
(***************************************************************************)
(* Steps that move a reservation                                           *)
(***************************************************************************)

\* The requests an account serves and the reservations of a tracker are
\* finitely many.
LEMMA SlotsFinite ==
  ASSUME ConductorInv, NEW p \in Procs, NEW c \in Creds, NEW m
  PROVE  IsFiniteSet(ServedBy(p, c, m)) /\ IsFiniteSet(Tracked(p, c, m))
<1>1. ServedBy(p, c, m) \subseteq Requests
  BY DEF ServedBy
<1>2. Tracked(p, c, m) \subseteq Reservations
  BY ConductorAssumption DEF Tracked, ConductorInv, Holdings, Types, RedisTypes
<1> QED BY <1>1, <1>2, FS_Subset, ConductorAssumption

\* TryReserve was accepted: the request has the fresh reservation in hand.
LEMMA AcceptedStep ==
  ASSUME ConductorInv, NEW q \in Requests, RequestStep(q), ReserveAccepted(q)
  PROVE  Holdings' /\ SlotsCounted'
<1> USE DEF ConductorInv
<1>1. OnlyMoves(q)
  BY RequestMovesAlone
<1>2. PICK r \in IdsOf[ProcOf[q]] :
        Redis!TryReserve(r, cand[q], ModelFor[q]) /\ res' = [res EXCEPT ![q] = r]
  BY DEF ReserveAccepted
<1>3. r \in Reservations
  BY ConductorAssumption
<1>4. r \notin held /\ held' = held \cup {r}
  BY <1>2 DEF Redis!TryReserve, Redis!Fresh
<1>5. /\ credOf' = [credOf EXCEPT ![r] = cand[q]]
      /\ modelOf' = [modelOf EXCEPT ![r] = ModelFor[q]]
  BY <1>2 DEF Redis!TryReserve, Redis!ReserveScript
<1>6. /\ credOf'[r] = cand[q] /\ modelOf'[r] = ModelFor[q]
      /\ \A x \in held : credOf'[x] = credOf[x] /\ modelOf'[x] = modelOf[x]
  BY <1>3, <1>4, <1>5 DEF Types, RedisTypes
<1>7. /\ pc[q] = "reserve" /\ pc'[q] = "accepted" /\ res'[q] = r /\ cand' = cand
      /\ tracker' = tracker
  BY <1>2 DEF ReserveAccepted, Goto, processVars, Types, RequestTypes
<1>8. Carried' = Carried \cup {q} /\ q \notin Carried
  BY <1>1, <1>7 DEF Carried, OnlyMoves
<1>9. \A o \in Carried : res'[o] = res[o] /\ pc'[o] = pc[o]
  BY <1>1, <1>8 DEF OnlyMoves, Carried
<1>10. Holdings'
  <2>1. \A o \in Carried' : res'[o] \in held' /\ res'[o] \in IdsOf[ProcOf[o]]
    BY <1>4, <1>7, <1>8, <1>9 DEF Holdings
  <2>2. \A o, u \in Carried' : res'[o] = res'[u] => o = u
    BY <1>4, <1>7, <1>8, <1>9 DEF Holdings
  <2>3. ASSUME NEW p \in Procs, NEW c \in Creds
        PROVE  /\ IsInjective(tracker'[p][c])
               /\ \A x \in ToSet(tracker'[p][c]) :
                    /\ x \in held' /\ x \in IdsOf[p] /\ credOf'[x] = c
                    /\ \A o \in Carried' : res'[o] # x
    BY <1>4, <1>6, <1>7, <1>8, <1>9 DEF Holdings
  <2>4. ASSUME NEW x \in held'
        PROVE  \/ \E o \in Carried' : res'[o] = x
               \/ \E p \in Procs, c \in Creds : x \in ToSet(tracker'[p][c])
    BY <1>4, <1>7, <1>8, <1>9 DEF Holdings
  <2>5. ASSUME NEW o \in Requests, pc'[o] = "accepted"
        PROVE  credOf'[res'[o]] = cand'[o] /\ modelOf'[res'[o]] = ModelFor[o]
    BY <1>1, <1>6, <1>7, <2>5 DEF Holdings, OnlyMoves, Carried
  <2> QED BY <2>1, <2>2, <2>3, <2>4, <2>5 DEF Holdings
<1>11. ASSUME NEW p \in Procs, NEW c \in Creds, NEW m \in Models
       PROVE  /\ Tracked(p, c, m)' = Tracked(p, c, m)
              /\ ServedBy(p, c, m)' = ServedBy(p, c, m)
  <2>1. Tracked(p, c, m)' = Tracked(p, c, m)
    BY <1>6, <1>7 DEF Tracked, Holdings
  <2>2. ServedBy(p, c, m)' = ServedBy(p, c, m)
    BY <1>1, <1>7 DEF ServedBy, OnlyMoves, Serving
  <2> QED BY <2>1, <2>2
<1> QED BY <1>10, <1>11 DEF SlotsCounted

\* A request lets the reservation in its hand go (rollback and Release): it is
\* held no more, and nothing else changes place.
LEMMA DropStep ==
  ASSUME ConductorInv, NEW q \in Requests, OnlyMoves(q), q \in Carried,
         held' = held \ {res[q]}, UNCHANGED <<credOf, modelOf, tracker>>,
         pc'[q] \notin {"accepted", "releaseRedis"} \cup Serving
  PROVE  Holdings' /\ SlotsCounted'
<1> USE DEF ConductorInv
<1>1. Carried' = Carried \ {q}
  BY DEF Carried, OnlyMoves
<1>2. \A o \in Carried' : res'[o] = res[o] /\ pc'[o] = pc[o]
  BY <1>1 DEF OnlyMoves, Carried
<1>3. Holdings'
  <2>1. \A o \in Carried' : res'[o] \in held' /\ res'[o] \in IdsOf[ProcOf[o]]
    BY <1>1, <1>2 DEF Holdings
  <2>2. \A o, u \in Carried' : res'[o] = res'[u] => o = u
    BY <1>1, <1>2 DEF Holdings
  <2>3. ASSUME NEW p \in Procs, NEW c \in Creds
        PROVE  /\ IsInjective(tracker'[p][c])
               /\ \A x \in ToSet(tracker'[p][c]) :
                    /\ x \in held' /\ x \in IdsOf[p] /\ credOf'[x] = c
                    /\ \A o \in Carried' : res'[o] # x
    BY <1>1, <1>2 DEF Holdings
  <2>4. ASSUME NEW x \in held'
        PROVE  \/ \E o \in Carried' : res'[o] = x
               \/ \E p \in Procs, c \in Creds : x \in ToSet(tracker'[p][c])
    BY <1>1, <1>2 DEF Holdings
  <2>5. ASSUME NEW o \in Requests, pc'[o] = "accepted"
        PROVE  credOf'[res'[o]] = cand'[o] /\ modelOf'[res'[o]] = ModelFor[o]
    BY <2>5 DEF Holdings, OnlyMoves
  <2> QED BY <2>1, <2>2, <2>3, <2>4, <2>5 DEF Holdings
<1>4. ASSUME NEW p \in Procs, NEW c \in Creds, NEW m \in Models
      PROVE  /\ Tracked(p, c, m)' = Tracked(p, c, m)
             /\ ServedBy(p, c, m)' = ServedBy(p, c, m)
  <2>1. Tracked(p, c, m)' = Tracked(p, c, m)
    BY DEF Tracked
  <2>2. ServedBy(p, c, m)' = ServedBy(p, c, m)
    BY DEF ServedBy, OnlyMoves, Serving, Carried
  <2> QED BY <2>1, <2>2
<1> QED BY <1>3, <1>4 DEF SlotsCounted

\* The rollback of tryReserve, and Release's call to Redis.
LEMMA LetGoStep ==
  ASSUME ConductorInv, NEW q \in Requests, RequestStep(q), Rollback(q) \/ ReleaseRedis(q)
  PROVE  Holdings' /\ SlotsCounted'
<1> USE DEF ConductorInv
<1>1. OnlyMoves(q)
  BY RequestMovesAlone
<1>2. q \in Carried
  BY DEF Rollback, ReleaseRedis, Carried
<1>3. Redis!Release(res[q]) \/ Redis!ReleaseLost(res[q])
  BY DEF Rollback, ReleaseRedis
<1>4. held' = held \ {res[q]} /\ UNCHANGED <<credOf, modelOf>>
  BY <1>3 DEF Redis!Release, Redis!ReleaseLost, Redis!leaseVars
<1>5. UNCHANGED tracker
  BY DEF Rollback, ReleaseRedis, processVars
<1>6. pc'[q] \in {"idle", "local", "sync", "releaseLocal"}
  BY DEF Rollback, ReleaseRedis, Refused, Return, Goto, Types, RequestTypes
<1>7. pc'[q] \notin {"accepted", "releaseRedis"} \cup Serving
  BY <1>6 DEF Serving
<1> QED BY <1>1, <1>2, <1>4, <1>5, <1>7, DropStep
\* trackReservation: the reservation goes from the request's hand into the
\* tracker of its account, and the request counts as served by it.
LEMMA TrackStep ==
  ASSUME ConductorInv, NEW q \in Requests, RequestStep(q), Track(q)
  PROVE  Holdings' /\ SlotsCounted'
<1> USE DEF ConductorInv
<1> DEFINE p == ProcOf[q]
           c == cand[q]
           s == tracker[p][c]
           r == res[q]
<1>1. OnlyMoves(q)
  BY RequestMovesAlone
<1>2. /\ pc[q] = "accepted" /\ q \in Carried
      /\ p \in Procs /\ c \in Creds /\ ModelFor[q] \in Models
  BY ConductorAssumption DEF Track, Carried, Types, CandKnown
<1>3. /\ r \in held /\ r \in IdsOf[p] /\ r \in Reservations
      /\ credOf[r] = c /\ modelOf[r] = ModelFor[q]
  BY <1>2 DEF Holdings, Types, RedisTypes
<1>4. s \in Seq(Reservations) /\ IsInjective(s) /\ r \notin ToSet(s)
  BY <1>2 DEF Holdings, Types, ProcessTypes
<1>5. /\ Append(s, r) \in Seq(Reservations)
      /\ ToSet(Append(s, r)) = ToSet(s) \cup {r}
      /\ IsInjective(Append(s, r))
  BY <1>3, <1>4, AppendedSet
<1>6. tracker' = [tracker EXCEPT ![p][c] = Append(s, r)]
  BY DEF Track
<1>7. /\ pc'[q] \in {"bind", "active"} /\ cand' = cand
  BY DEF Track, Goto, Types, RequestTypes
<1>8. UNCHANGED <<held, credOf, modelOf>>
  BY DEF Track, Redis!StartRenewal, Redis!leaseVars
<1> HIDE DEF p, c, s, r
<1>9. \A o \in Procs, d \in Creds :
        /\ ToSet(tracker'[o][d]) =
             IF o = p /\ d = c THEN ToSet(tracker[o][d]) \cup {r} ELSE ToSet(tracker[o][d])
        /\ IsInjective(tracker[o][d]) => IsInjective(tracker'[o][d])
  <2>1. \A o \in Procs, d \in Creds :
          tracker'[o][d] = IF o = p /\ d = c THEN Append(s, r) ELSE tracker[o][d]
    <3> DEFINE n == Append(s, r)
    <3>1. tracker' = [tracker EXCEPT ![p][c] = n]
      BY <1>6
    <3> HIDE DEF n
    <3>2. \A o \in Procs, d \in Creds :
            tracker'[o][d] = IF o = p /\ d = c THEN n ELSE tracker[o][d]
      BY <1>2, <3>1 DEF Types, ProcessTypes
    <3> QED BY <3>2 DEF n
  <2> QED BY <1>5, <2>1 DEF s
<1>10. Carried' = Carried \ {q}
  BY <1>1, <1>7 DEF Carried, OnlyMoves
<1>11. \A o \in Carried' : res'[o] = res[o] /\ pc'[o] = pc[o]
  BY <1>1, <1>10 DEF OnlyMoves, Carried
<1>12. \A o \in Carried' : res[o] # r
  BY <1>2, <1>10 DEF Holdings, r
<1>13. Holdings'
  <2>1. \A o \in Carried' : res'[o] \in held' /\ res'[o] \in IdsOf[ProcOf[o]]
    BY <1>8, <1>10, <1>11 DEF Holdings
  <2>2. \A o, u \in Carried' : res'[o] = res'[u] => o = u
    BY <1>10, <1>11 DEF Holdings
  <2>3. ASSUME NEW o \in Procs, NEW d \in Creds
        PROVE  /\ IsInjective(tracker'[o][d])
               /\ \A x \in ToSet(tracker'[o][d]) :
                    /\ x \in held' /\ x \in IdsOf[o] /\ credOf'[x] = d
                    /\ \A u \in Carried' : res'[u] # x
    <3>1. IsInjective(tracker'[o][d])
      BY <1>9 DEF Holdings
    <3>2. ASSUME NEW x \in ToSet(tracker'[o][d])
          PROVE  x \in held' /\ x \in IdsOf[o] /\ credOf'[x] = d
      <4>1. x \in ToSet(tracker[o][d]) \/ (o = p /\ d = c /\ x = r)
        BY <1>9, <3>2
      <4> QED BY <1>3, <1>8, <4>1 DEF Holdings
    <3>3. ASSUME NEW x \in ToSet(tracker'[o][d]), NEW u \in Carried' PROVE res'[u] # x
      <4>1. x \in ToSet(tracker[o][d]) \/ x = r
        BY <1>9, <3>3
      <4> QED BY <1>10, <1>11, <1>12, <4>1 DEF Holdings
    <3> QED BY <3>1, <3>2, <3>3
  <2>4. ASSUME NEW x \in held'
        PROVE  \/ \E o \in Carried' : res'[o] = x
               \/ \E o \in Procs, d \in Creds : x \in ToSet(tracker'[o][d])
    <3>1. CASE x = r
      BY <1>2, <1>9, <3>1
    <3>2. CASE x # r
      <4>1. \/ \E o \in Carried : res[o] = x
            \/ \E o \in Procs, d \in Creds : x \in ToSet(tracker[o][d])
        BY <1>8 DEF Holdings
      <4>2. ASSUME NEW o \in Carried, res[o] = x PROVE \E u \in Carried' : res'[u] = x
        BY <1>10, <1>11, <3>2, <4>2 DEF r
      <4> QED BY <1>9, <4>1, <4>2
    <3> QED BY <3>1, <3>2
  <2>5. ASSUME NEW o \in Requests, pc'[o] = "accepted"
        PROVE  credOf'[res'[o]] = cand'[o] /\ modelOf'[res'[o]] = ModelFor[o]
    BY <1>1, <1>7, <1>8, <2>5 DEF Holdings, OnlyMoves
  <2> QED BY <2>1, <2>2, <2>3, <2>4, <2>5 DEF Holdings
<1>14. ASSUME NEW o \in Procs, NEW d \in Creds, NEW m \in Models
       PROVE  Cardinality(Tracked(o, d, m)') = Cardinality(ServedBy(o, d, m)')
  <2>1. Cardinality(Tracked(o, d, m)) = Cardinality(ServedBy(o, d, m))
    BY DEF SlotsCounted
  <2>2. IsFiniteSet(Tracked(o, d, m)) /\ IsFiniteSet(ServedBy(o, d, m))
    BY SlotsFinite
  <2>3. CASE o = p /\ d = c /\ m = ModelFor[q]
    <3>1. Tracked(o, d, m)' = Tracked(o, d, m) \cup {r} /\ r \notin Tracked(o, d, m)
      BY <1>3, <1>4, <1>8, <1>9, <2>3 DEF Tracked, s
    <3>2. ServedBy(o, d, m)' = ServedBy(o, d, m) \cup {q} /\ q \notin ServedBy(o, d, m)
      BY <1>1, <1>2, <1>7, <2>3 DEF ServedBy, OnlyMoves, Serving, p, c
    <3>3. Cardinality(Tracked(o, d, m)') = Cardinality(Tracked(o, d, m)) + 1
      BY <2>2, <3>1, FS_AddElement
    <3>4. Cardinality(ServedBy(o, d, m)') = Cardinality(ServedBy(o, d, m)) + 1
      BY <2>2, <3>2, FS_AddElement
    <3> QED BY <2>1, <3>3, <3>4
  <2>4. CASE ~(o = p /\ d = c /\ m = ModelFor[q])
    <3>1. Tracked(o, d, m)' = Tracked(o, d, m)
      BY <1>3, <1>8, <1>9, <2>4 DEF Tracked
    <3>2. ServedBy(o, d, m)' = ServedBy(o, d, m)
      BY <1>1, <1>2, <1>7, <2>4 DEF ServedBy, OnlyMoves, Serving, p, c
    <3> QED BY <2>1, <3>1, <3>2
  <2> QED BY <2>3, <2>4
<1> QED BY <1>13, <1>14 DEF SlotsCounted

\* reservationTracker.pop in Release: the tracker has a reservation for the
\* request, which goes into its hand.
LEMMA PopStep ==
  ASSUME ConductorInv, NEW q \in Requests, RequestStep(q), PopReservation(q)
  PROVE  Holdings' /\ SlotsCounted'
<1> USE DEF ConductorInv
<1> DEFINE p == ProcOf[q]
           c == cand[q]
           s == tracker[p][c]
           i == PopIndex(s, ModelFor[q])
           r == s[i]
<1>1. OnlyMoves(q)
  BY RequestMovesAlone
<1>2. /\ pc[q] = "release"
      /\ p \in Procs /\ c \in Creds /\ ModelFor[q] \in Models
  BY ConductorAssumption DEF PopReservation, Types, CandKnown, Serving
<1>3. s \in Seq(Reservations) /\ IsInjective(s)
  BY <1>2 DEF Holdings, Types, ProcessTypes
<1>4. i # 0
  <2> DEFINE T == Tracked(p, c, ModelFor[q])
             V == ServedBy(p, c, ModelFor[q])
  <2>1. q \in V
    BY <1>2 DEF ServedBy, Serving
  <2>2. Cardinality(T) = Cardinality(V)
    BY <1>2 DEF SlotsCounted
  <2>3. IsFiniteSet(T) /\ IsFiniteSet(V)
    BY <1>2, SlotsFinite
  <2>4. T # {}
    <3> HIDE DEF T, V
    <3> QED BY <2>1, <2>2, <2>3, FS_EmptySet
  <2>5. \E x \in ToSet(s) : modelOf[x] = ModelFor[q]
    BY <2>4 DEF Tracked
  <2> HIDE DEF s
  <2> QED BY <1>3, <2>5, PopIndexFinds
<1>5. i \in 1..Len(s) /\ r \in Reservations /\ modelOf[r] = ModelFor[q]
  BY <1>2, <1>4, PopTypes
<1>6. /\ tracker' = [tracker EXCEPT ![p][c] = RemoveAt(s, i)]
      /\ res' = [res EXCEPT ![q] = r]
      /\ Goto(q, "releaseRedis")
      /\ UNCHANGED <<redisVars, cand>>
  BY <1>4 DEF PopReservation
<1> HIDE DEF i
<1>7. r \in ToSet(s)
  BY <1>3, <1>5, ElementsOf
<1>8. /\ RemoveAt(s, i) \in Seq(Reservations)
      /\ ToSet(RemoveAt(s, i)) = ToSet(s) \ {r}
      /\ IsInjective(RemoveAt(s, i))
  BY <1>3, <1>5, RemovedSet
<1>9. r \in held /\ r \in IdsOf[p] /\ credOf[r] = c /\ \A o \in Carried : res[o] # r
  BY <1>2, <1>7 DEF Holdings
<1>10. /\ pc'[q] = "releaseRedis" /\ res'[q] = r /\ cand' = cand
       /\ UNCHANGED <<held, credOf, modelOf>>
  BY <1>6 DEF Goto, redisVars, Types, RequestTypes
<1> HIDE DEF p, c, s, r
<1>11. \A o \in Procs, d \in Creds :
         /\ ToSet(tracker'[o][d]) =
              IF o = p /\ d = c THEN ToSet(tracker[o][d]) \ {r} ELSE ToSet(tracker[o][d])
         /\ IsInjective(tracker[o][d]) => IsInjective(tracker'[o][d])
  <2>1. \A o \in Procs, d \in Creds :
          tracker'[o][d] = IF o = p /\ d = c THEN RemoveAt(s, i) ELSE tracker[o][d]
    <3> DEFINE n == RemoveAt(s, i)
    <3>1. tracker' = [tracker EXCEPT ![p][c] = n]
      BY <1>6
    <3> HIDE DEF n
    <3>2. \A o \in Procs, d \in Creds :
            tracker'[o][d] = IF o = p /\ d = c THEN n ELSE tracker[o][d]
      BY <1>2, <3>1 DEF Types, ProcessTypes
    <3> QED BY <3>2 DEF n
  <2> QED BY <1>8, <2>1 DEF s
<1>12. Carried' = Carried \cup {q} /\ q \notin Carried
  BY <1>1, <1>2, <1>10 DEF Carried, OnlyMoves
<1>13. \A o \in Carried : res'[o] = res[o] /\ pc'[o] = pc[o]
  BY <1>1, <1>12 DEF OnlyMoves, Carried
<1>14. \A o \in Procs, d \in Creds : r \in ToSet(tracker[o][d]) => o = p /\ d = c
  BY <1>2, <1>9, ConductorAssumption DEF Holdings
<1>15. Holdings'
  <2>1. \A o \in Carried' : res'[o] \in held' /\ res'[o] \in IdsOf[ProcOf[o]]
    BY <1>9, <1>10, <1>12, <1>13 DEF Holdings, p
  <2>2. \A o, u \in Carried' : res'[o] = res'[u] => o = u
    BY <1>9, <1>10, <1>12, <1>13 DEF Holdings
  <2>3. ASSUME NEW o \in Procs, NEW d \in Creds
        PROVE  /\ IsInjective(tracker'[o][d])
               /\ \A x \in ToSet(tracker'[o][d]) :
                    /\ x \in held' /\ x \in IdsOf[o] /\ credOf'[x] = d
                    /\ \A u \in Carried' : res'[u] # x
    <3>1. \A x \in ToSet(tracker'[o][d]) : x \in ToSet(tracker[o][d]) /\ x # r
      BY <1>11, <1>14
    <3>2. IsInjective(tracker'[o][d])
      BY <1>11 DEF Holdings
    <3>3. ASSUME NEW x \in ToSet(tracker'[o][d])
          PROVE  x \in held' /\ x \in IdsOf[o] /\ credOf'[x] = d
      BY <1>10, <3>1, <3>3 DEF Holdings
    <3>4. ASSUME NEW x \in ToSet(tracker'[o][d]), NEW u \in Carried' PROVE res'[u] # x
      BY <1>10, <1>12, <1>13, <3>1, <3>4 DEF Holdings
    <3> QED BY <3>2, <3>3, <3>4
  <2>4. ASSUME NEW x \in held'
        PROVE  \/ \E o \in Carried' : res'[o] = x
               \/ \E o \in Procs, d \in Creds : x \in ToSet(tracker'[o][d])
    <3>1. CASE x = r
      BY <1>10, <1>12, <3>1
    <3>2. CASE x # r
      <4>1. \/ \E o \in Carried : res[o] = x
            \/ \E o \in Procs, d \in Creds : x \in ToSet(tracker[o][d])
        BY <1>10 DEF Holdings
      <4> QED BY <1>11, <1>12, <1>13, <3>2, <4>1
    <3> QED BY <3>1, <3>2
  <2>5. ASSUME NEW o \in Requests, pc'[o] = "accepted"
        PROVE  credOf'[res'[o]] = cand'[o] /\ modelOf'[res'[o]] = ModelFor[o]
    BY <1>1, <1>10, <2>5 DEF Holdings, OnlyMoves
  <2> QED BY <2>1, <2>2, <2>3, <2>4, <2>5 DEF Holdings
<1>16. ASSUME NEW o \in Procs, NEW d \in Creds, NEW m \in Models
       PROVE  Cardinality(Tracked(o, d, m)') = Cardinality(ServedBy(o, d, m)')
  <2>1. Cardinality(Tracked(o, d, m)) = Cardinality(ServedBy(o, d, m))
    BY DEF SlotsCounted
  <2>2. IsFiniteSet(Tracked(o, d, m)) /\ IsFiniteSet(ServedBy(o, d, m))
    BY SlotsFinite
  <2>3. CASE o = p /\ d = c /\ m = ModelFor[q]
    <3>1. Tracked(o, d, m)' = Tracked(o, d, m) \ {r} /\ r \in Tracked(o, d, m)
      BY <1>5, <1>7, <1>10, <1>11, <2>3 DEF Tracked, s, r
    <3>2. ServedBy(o, d, m)' = ServedBy(o, d, m) \ {q} /\ q \in ServedBy(o, d, m)
      BY <1>1, <1>2, <1>10, <2>3 DEF ServedBy, OnlyMoves, Serving, p, c
    <3>3. Cardinality(Tracked(o, d, m)') = Cardinality(Tracked(o, d, m)) - 1
      BY <2>2, <3>1, FS_RemoveElement
    <3>4. Cardinality(ServedBy(o, d, m)') = Cardinality(ServedBy(o, d, m)) - 1
      BY <2>2, <3>2, FS_RemoveElement
    <3> QED BY <2>1, <3>3, <3>4
  <2>4. CASE ~(o = p /\ d = c /\ m = ModelFor[q])
    <3>1. Tracked(o, d, m)' = Tracked(o, d, m)
      BY <1>5, <1>10, <1>11, <1>14, <2>4 DEF Tracked, r, s
    <3>2. ServedBy(o, d, m)' = ServedBy(o, d, m)
      BY <1>1, <1>2, <1>10, <2>4 DEF ServedBy, OnlyMoves, Serving, p, c
    <3> QED BY <2>1, <3>1, <3>2
  <2> QED BY <2>3, <2>4
<1> QED BY <1>15, <1>16 DEF SlotsCounted
\* A process dies: its requests and trackers lose their reservations, which
\* are its own ids, so those of the other processes are untouched.
LEMMA CrashStep ==
  ASSUME ConductorInv, NEW p \in Procs, Crash(p)
  PROVE  Holdings' /\ SlotsCounted'
<1> USE DEF ConductorInv
<1> DEFINE mine == {q \in Requests : ProcOf[q] = p}
<1>1. /\ pc' = [q \in Requests |-> IF q \in mine THEN "idle" ELSE pc[q]]
      /\ cand' = [q \in Requests |-> IF q \in mine THEN None ELSE cand[q]]
      /\ res' = [q \in Requests |-> IF q \in mine THEN None ELSE res[q]]
      /\ tracker' = [tracker EXCEPT ![p] = [c \in Creds |-> <<>>]]
  BY DEF Crash
<1>2. held' = held \ IdsOf[p] /\ UNCHANGED <<credOf, modelOf>>
  BY DEF Crash, Redis!Crash, Redis!leaseVars
<1>3. \A c \in Creds : tracker'[p][c] = <<>>
  BY <1>1 DEF Types, ProcessTypes
<1>4. \A o \in Procs \ {p}, c \in Creds : tracker'[o][c] = tracker[o][c]
  BY <1>1 DEF Types, ProcessTypes
<1>5. Carried' = Carried \ mine
  BY <1>1 DEF Carried
<1>6. \A q \in Carried' : res'[q] = res[q] /\ ProcOf[q] \in Procs \ {p}
  BY <1>1, <1>5, ConductorAssumption DEF Carried
<1>7. \A o \in Procs \ {p} : \A r \in IdsOf[o] : r \notin IdsOf[p]
  BY ConductorAssumption
<1>8. ToSet(<<>>) = {} /\ IsInjective(<<>>)
  BY DEF ToSet, IsInjective
<1>9. Holdings'
  <2>1. \A q \in Carried' : res'[q] \in held' /\ res'[q] \in IdsOf[ProcOf[q]]
    BY <1>2, <1>5, <1>6, <1>7 DEF Holdings
  <2>2. \A q, o \in Carried' : res'[q] = res'[o] => q = o
    BY <1>5, <1>6 DEF Holdings
  <2>3. ASSUME NEW o \in Procs, NEW c \in Creds
        PROVE  /\ IsInjective(tracker'[o][c])
               /\ \A r \in ToSet(tracker'[o][c]) :
                    /\ r \in held' /\ r \in IdsOf[o] /\ credOf'[r] = c
                    /\ \A q \in Carried' : res'[q] # r
    <3>1. CASE o = p
      BY <1>3, <1>8, <3>1
    <3>2. CASE o # p
      <4>1. tracker'[o][c] = tracker[o][c]
        BY <1>4, <3>2
      <4>2. ASSUME NEW r \in ToSet(tracker[o][c])
            PROVE  r \in held' /\ r \in IdsOf[o] /\ credOf'[r] = c
        BY <1>2, <1>7, <3>2 DEF Holdings
      <4>3. ASSUME NEW r \in ToSet(tracker[o][c]), NEW q \in Carried' PROVE res'[q] # r
        BY <1>5, <1>6 DEF Holdings
      <4> QED BY <4>1, <4>2, <4>3 DEF Holdings
    <3> QED BY <3>1, <3>2
  <2>4. ASSUME NEW r \in held'
        PROVE  \/ \E q \in Carried' : res'[q] = r
               \/ \E o \in Procs, c \in Creds : r \in ToSet(tracker'[o][c])
    <3>1. r \in held /\ r \notin IdsOf[p]
      BY <1>2
    <3>2. ASSUME NEW q \in Carried, res[q] = r PROVE \E o \in Carried' : res'[o] = r
      <4>1. q \notin mine
        BY <3>1, <3>2 DEF Holdings
      <4> QED BY <1>5, <1>6, <3>2, <4>1
    <3>3. ASSUME NEW o \in Procs, NEW c \in Creds, r \in ToSet(tracker[o][c])
          PROVE  r \in ToSet(tracker'[o][c])
      <4>1. o # p
        BY <3>1, <3>3 DEF Holdings
      <4> QED BY <1>4, <3>3, <4>1
    <3> QED BY <3>1, <3>2, <3>3 DEF Holdings
  <2>5. ASSUME NEW q \in Requests, pc'[q] = "accepted"
        PROVE  credOf'[res'[q]] = cand'[q] /\ modelOf'[res'[q]] = ModelFor[q]
    BY <1>1, <1>2, <2>5 DEF Holdings
  <2> QED BY <2>1, <2>2, <2>3, <2>4, <2>5 DEF Holdings
<1>10. ASSUME NEW o \in Procs, NEW c \in Creds, NEW m \in Models
       PROVE  Cardinality(Tracked(o, c, m)') = Cardinality(ServedBy(o, c, m)')
  <2>1. CASE o = p
    <3>1. Tracked(o, c, m)' = {}
      BY <1>3, <1>8, <2>1 DEF Tracked
    <3>2. ServedBy(o, c, m)' = {}
      BY <1>1, <2>1 DEF ServedBy, Serving
    <3> QED BY <3>1, <3>2
  <2>2. CASE o # p
    <3>1. Tracked(o, c, m)' = Tracked(o, c, m)
      BY <1>2, <1>4, <2>2 DEF Tracked
    <3>2. ServedBy(o, c, m)' = ServedBy(o, c, m)
      BY <1>1, <2>2 DEF ServedBy
    <3> QED BY <3>1, <3>2 DEF SlotsCounted
  <2> QED BY <2>1, <2>2
<1> QED BY <1>9, <1>10 DEF SlotsCounted
-----------------------------------------------------------------------------
(***************************************************************************)
(* The invariant and what follows from it                                  *)
(***************************************************************************)

\* At the start no reservation is held.
LEMMA ConductorInit == Init => ConductorInv
<1> SUFFICES ASSUME Init PROVE ConductorInv
  OBVIOUS
<1> USE ConductorAssumption
<1>1. RedisTypes
  BY DEF Init, Redis!Init, RedisTypes, Redis!ModelArg
<1>2. RequestTypes /\ CandKnown
  BY DEF Init, RequestTypes, CandKnown, Serving, NoSync
<1>3. ProcessTypes
  <2>1. \A p \in Procs : [c \in Creds |-> <<>>] \in [Creds -> Seq(Reservations)]
    BY EmptySeq
  <2>2. tracker \in [Procs -> [Creds -> Seq(Reservations)]]
    BY <2>1 DEF Init
  <2> QED BY <2>2 DEF Init, ProcessTypes
<1>4. /\ Carried = {} /\ held = {}
      /\ \A p \in Procs, c \in Creds : tracker[p][c] = <<>>
  BY DEF Init, Redis!Init, Carried
<1>5. ToSet(<<>>) = {} /\ IsInjective(<<>>)
  BY DEF ToSet, IsInjective
<1>6. Holdings
  BY <1>4, <1>5 DEF Holdings, Carried, Init
<1>7. SlotsCounted
  <2> SUFFICES ASSUME NEW p \in Procs, NEW c \in Creds, NEW m \in Models
               PROVE  Cardinality(Tracked(p, c, m)) = Cardinality(ServedBy(p, c, m))
    BY DEF SlotsCounted
  <2>1. Tracked(p, c, m) = {}
    BY <1>4, <1>5 DEF Tracked
  <2>2. ServedBy(p, c, m) = {}
    BY DEF Init, ServedBy, Serving
  <2> QED BY <2>1, <2>2
<1> QED BY <1>1, <1>2, <1>3, <1>6, <1>7 DEF ConductorInv, Types

\* Every step preserves the invariant.
LEMMA ConductorStep == ConductorInv /\ [Next]_vars => ConductorInv'
<1> SUFFICES ASSUME ConductorInv, [Next]_vars PROVE ConductorInv'
  OBVIOUS
<1>1. Types'
  BY TypesStep DEF ConductorInv
<1>2. ASSUME NEW q \in Requests, RequestStep(q) PROVE Holdings' /\ SlotsCounted'
  <2>1. CASE ReserveAccepted(q)
    BY <1>2, <2>1, AcceptedStep
  <2>2. CASE Rollback(q) \/ ReleaseRedis(q)
    BY <1>2, <2>2, LetGoStep
  <2>3. CASE Track(q)
    BY <1>2, <2>3, TrackStep
  <2>4. CASE PopReservation(q)
    BY <1>2, <2>4, PopStep
  <2>5. CASE \/ LookupRedisBinding(q) \/ LookupLocalBinding(q) \/ SyncInFlight(q)
             \/ StoreInFlight(q) \/ Pick(q) \/ NoReady(q) \/ ReserveRefused(q)
             \/ ReserveFails(q) \/ BindRedis(q) \/ MarkSuccess(q) \/ MarkRateLimit(q)
             \/ MarkAuthError(q) \/ MarkNothing(q) \/ Mirror(q) \/ ReleaseLocal(q)
    BY <1>2, <2>5, QuietRequest
  <2> QED BY <1>2, <2>1, <2>2, <2>3, <2>4, <2>5 DEF RequestStep
<1>3. Holdings' /\ SlotsCounted'
  <2>1. \/ \E q \in Requests : RequestStep(q)
        \/ \E p \in Procs : Crash(p)
        \/ \E q \in Requests : Disconnect(q)
        \/ \E r \in Reservations : Renew(r) \/ RenewGone(r) \/ RenewCancelled(r)
        \/ \E p \in Procs, c \in Creds : Disable(p, c) \/ Enable(p, c)
        \/ \E c \in Creds : EnableRedis(c)
        \/ \E s \in Sessions : BindingExpires(s)
        \/ Tick
        \/ UNCHANGED vars
    BY DEF Next
  <2> QED BY <1>2, <2>1, CrashStep, QuietOther
<1> QED BY <1>1, <1>3 DEF ConductorInv

\* The reservations are where Acquire and Release believe them to be, in any
\* interleaving of any number of requests and processes, whatever fails.
THEOREM ConductorInvariant == Spec => []ConductorInv
BY ConductorInit, ConductorStep, PTL DEF Spec

\* The conductor's and the scheduler's state is well typed; no in-flight counter
\* goes below zero although SyncInFlight overwrites it between an acquire and
\* its release.
THEOREM ConductorTypes == Spec => []TypeOK
<1>1. ConductorInv => TypeOK
  BY DEF ConductorInv, Types, RequestTypes, ProcessTypes, Holdings, TypeOK
<1> QED BY <1>1, ConductorInvariant, PTL

\* No reservation is lost or released twice: the trackers and the requests'
\* hands hold each exactly once, one per request being served.
THEOREM NoSlotLost == Spec => []SlotsAccounted
<1>1. ConductorInv => SlotsAccounted
  <2> SUFFICES ASSUME ConductorInv PROVE SlotsAccounted
    OBVIOUS
  <2> USE DEF ConductorInv
  <2>1. \A r : r \in InTrackers <=> \E p \in Procs, c \in Creds : r \in ToSet(tracker[p][c])
    BY DEF InTrackers
  <2>2. held = {res[q] : q \in Carried} \cup InTrackers
    BY <2>1 DEF Holdings
  <2>3. \A q \in Carried : res[q] \notin InTrackers /\ \A o \in Carried \ {q} : res[o] # res[q]
    BY <2>1 DEF Holdings
  <2>4. \A p \in Procs, c \in Creds :
          /\ IsInjective(tracker[p][c])
          /\ \A r \in ToSet(tracker[p][c]) : credOf[r] = c
    BY DEF Holdings
  <2> QED BY <2>2, <2>3, <2>4 DEF SlotsAccounted, SlotsCounted
<1> QED BY <1>1, ConductorInvariant, PTL

\* Whatever the conductor does, Redis sees a behaviour of RedisRuntime, so what
\* is proved there of the leases and the limit holds of the proxy.
THEOREM RefinesRedis == Spec => ImplementsRedisRuntime
<1>1. Init => Redis!Init
  BY DEF Init
<1>2. ConductorInv /\ [Next]_vars => [Redis!Next]_(Redis!vars)
  BY StepRefines DEF ConductorInv
<1> QED BY <1>1, <1>2, ConductorInvariant, PTL DEF Spec, ImplementsRedisRuntime, Redis!Spec
-----------------------------------------------------------------------------
(***************************************************************************)
(* Without failures no lease is left behind                                *)
(***************************************************************************)

NoFailures == Faults \cap {"redis", "crash", "client"} = {}

\* No client leaves, and every live lease is held.
OwnedLeases ==
    /\ ctxDone = {}
    /\ \A r \in Reservations : lease[r] > 0 => r \in held

\* Without failures every step keeps every live lease in somebody's hands.
LEMMA OwnedStep ==
  ASSUME NoFailures, ConductorInv, OwnedLeases, [Next]_vars
  PROVE  OwnedLeases'
<1> USE ConductorAssumption DEF ConductorInv
<1>1. ASSUME UNCHANGED <<lease, held>>, ctxDone' \subseteq ctxDone PROVE OwnedLeases'
  BY <1>1 DEF OwnedLeases
<1>2. \A q \in Requests : ~CallFails(q)
  BY DEF CallFails, NoFailures, OwnedLeases
<1>3. ASSUME NEW q \in Requests, Return(q) \/ Refused(q) PROVE ctxDone' \subseteq ctxDone
  BY <1>3 DEF Return, Refused
<1>4. ASSUME NEW q \in Requests, Redis!Release(res[q]), ctxDone' \subseteq ctxDone
      PROVE  OwnedLeases'
  <2>1. res[q] \in Reservations /\ held' = held \ {res[q]}
    BY <1>4 DEF Redis!Release, Types, RedisTypes
  <2>2. lease'[res[q]] = 0 /\ \A r \in Reservations \ {res[q]} : lease'[r] = lease[r]
    <3>1. CASE Redis!Live(res[q])
      <4>1. lease' = [lease EXCEPT ![res[q]] = 0]
        BY <1>4, <3>1 DEF Redis!Release, Redis!ReleaseScript
      <4> QED BY <2>1, <4>1 DEF Types, RedisTypes
    <3>2. CASE ~Redis!Live(res[q])
      <4>1. lease' = lease /\ lease[res[q]] = 0
        BY <1>4, <2>1, <3>2
           DEF Redis!Release, Redis!ReleaseScript, Redis!Live, Types, RedisTypes
      <4> QED BY <4>1
    <3> QED BY <3>1, <3>2
  <2>3. ASSUME NEW r \in Reservations, lease'[r] > 0 PROVE r \in held'
    BY <2>1, <2>2, <2>3 DEF OwnedLeases
  <2> QED BY <1>4, <2>3 DEF OwnedLeases
<1>5. ASSUME NEW q \in Requests, RequestStep(q) PROVE OwnedLeases'
  <2>1. CASE ReserveAccepted(q)
    <3>1. PICK r \in IdsOf[ProcOf[q]] : Redis!TryReserve(r, cand[q], ModelFor[q])
      BY <2>1 DEF ReserveAccepted
    <3>2. /\ lease' = [lease EXCEPT ![r] = LeaseTTL] /\ held' = held \cup {r}
      BY <3>1 DEF Redis!TryReserve, Redis!ReserveScript
    <3>3. ctxDone' = ctxDone
      BY <2>1 DEF ReserveAccepted
    <3> QED BY <3>2, <3>3 DEF OwnedLeases, Types, RedisTypes
  <2>2. CASE ReserveFails(q)
    BY <1>2, <2>2 DEF ReserveFails
  <2>3. CASE Rollback(q)
    BY <1>2, <1>3, <1>4, <2>3 DEF Rollback
  <2>4. CASE ReleaseRedis(q)
    BY <1>4, <2>4 DEF ReleaseRedis, NoFailures
  <2>5. CASE Track(q)
    BY <1>1, <2>5 DEF Track, Redis!StartRenewal, Redis!leaseVars
  <2>6. CASE Mirror(q)
    BY <1>1, <2>6 DEF Mirror, MirrorCall, KeepRequest, redisVars, Redis!ClearCooldown,
       Redis!SetCooldown, Redis!leaseVars
  <2>7. CASE \/ LookupRedisBinding(q) \/ LookupLocalBinding(q) \/ SyncInFlight(q)
             \/ StoreInFlight(q) \/ Pick(q) \/ BindRedis(q) \/ MarkSuccess(q)
             \/ MarkRateLimit(q) \/ MarkAuthError(q) \/ MarkNothing(q) \/ PopReservation(q)
    <3>1. UNCHANGED redisVars /\ UNCHANGED ctxDone
      BY <2>7 DEF LookupRedisBinding, LookupLocalBinding, SyncInFlight, StoreInFlight, Pick,
         BindRedis, MarkSuccess, MarkRateLimit, MarkAuthError, MarkNothing,
         PopReservation, KeepRequest
    <3> QED BY <1>1, <3>1 DEF redisVars
  <2>8. CASE NoReady(q) \/ ReserveRefused(q) \/ ReleaseLocal(q)
    BY <1>1, <1>3, <2>8 DEF NoReady, ReserveRefused, ReleaseLocal, redisVars
  <2> QED BY <1>5, <2>1, <2>2, <2>3, <2>4, <2>5, <2>6, <2>7, <2>8 DEF RequestStep
<1>6. ASSUME NEW q \in Requests, Disconnect(q) PROVE OwnedLeases'
  BY <1>6 DEF Disconnect, NoFailures
<1>7. ASSUME NEW r \in Reservations, Renew(r) PROVE OwnedLeases'
  <2>1. lease[r] > 0 /\ lease' = [lease EXCEPT ![r] = LeaseTTL] /\ UNCHANGED <<held, ctxDone>>
    BY <1>7 DEF Renew, Redis!Extend, Redis!ExtendScript, Redis!Live, KeepAllButRedis, requestVars
  <2> QED BY <2>1 DEF OwnedLeases, Types, RedisTypes
<1>8. ASSUME NEW r \in Reservations, RenewGone(r) \/ RenewCancelled(r) PROVE OwnedLeases'
  BY <1>1, <1>8 DEF RenewGone, RenewCancelled, Redis!ExtendGone, Redis!StopRenewal,
     Redis!leaseVars, KeepAllButRedis, requestVars
<1>9. ASSUME NEW p \in Procs, NEW c \in Creds, Disable(p, c) \/ Enable(p, c) PROVE OwnedLeases'
  BY <1>1, <1>9 DEF Disable, Enable, redisVars, requestVars
<1>10. ASSUME NEW c \in Creds, EnableRedis(c) PROVE OwnedLeases'
  BY <1>1, <1>10 DEF EnableRedis, Redis!ClearCooldown, Redis!leaseVars, redisVars, requestVars
<1>11. ASSUME NEW s \in Sessions, BindingExpires(s) PROVE OwnedLeases'
  BY <1>1, <1>11 DEF BindingExpires, redisVars, requestVars
<1>12. ASSUME NEW p \in Procs, Crash(p) PROVE OwnedLeases'
  BY <1>12 DEF Crash, NoFailures
<1>13. CASE Tick
  <2>1. /\ lease' = [r \in Reservations |-> Redis!Elapse(lease[r])]
        /\ UNCHANGED <<held, ctxDone>>
    BY <1>13 DEF Tick, Redis!Tick, requestVars
  <2>2. \A n \in 0..LeaseTTL : Redis!Elapse(n) > 0 => n > 0
    BY DEF Redis!Elapse
  <2> QED BY <2>1, <2>2 DEF OwnedLeases, Types, RedisTypes
<1>14. CASE UNCHANGED vars
  BY <1>1, <1>14 DEF vars, redisVars, requestVars
<1> QED
  BY <1>5, <1>6, <1>7, <1>8, <1>9, <1>10, <1>11, <1>12, <1>13, <1>14 DEF Next

\* When no call fails, no client leaves and no process dies, every live lease
\* has an owner that will release it: no early return, refusal or rollback of
\* Acquire leaves one behind.
THEOREM NoLeaseOrphaned == Spec => []NoOrphanLeases
<1>1. CASE NoFailures
  <2>1. Init => OwnedLeases
    BY DEF Init, Redis!Init, OwnedLeases
  <2>2. ConductorInv /\ OwnedLeases /\ [Next]_vars => OwnedLeases'
    BY <1>1, OwnedStep
  <2>3. OwnedLeases => NoOrphanLeases
    BY DEF OwnedLeases, NoOrphanLeases
  <2> QED BY <2>1, <2>2, <2>3, ConductorInvariant, PTL DEF Spec
<1>2. CASE ~NoFailures
  <2>1. NoOrphanLeases
    BY <1>2 DEF NoOrphanLeases, NoFailures
  <2> QED BY <2>1, PTL
<1> QED BY <1>1, <1>2
-----------------------------------------------------------------------------
(***************************************************************************)
(* Sticky sessions                                                         *)
(***************************************************************************)

\* A session's requests come one after the other.
SessionsSerial ==
    \A q, o \in Requests : SessionOf[q] # None /\ SessionOf[q] = SessionOf[o] => q = o

\* A request that found no binding, and one about to bind, has a session that
\* is still unbound in Redis.
UnboundUntilBind ==
    /\ ctxDone = {}
    /\ \A q \in Requests :
         /\ pc[q] = "bind" => SessionOf[q] # None
         /\ SessionOf[q] # None
              /\ (\/ pc[q] = "bind"
                  \/ /\ pc[q] \in {"local", "sync", "store", "pick", "reserve", "accepted"}
                     /\ ~hadBinding[q])
              => redisBinding[SessionOf[q]] = None

\* Every step keeps it, and none replaces a binding by another.
LEMMA StickyStep ==
  ASSUME SessionsSerial, Faults \cap {"redis", "client"} = {},
         ConductorInv, UnboundUntilBind, [Next]_vars
  PROVE  /\ UnboundUntilBind'
         /\ \A s \in Sessions :
              redisBinding[s] # None => redisBinding'[s] \in {redisBinding[s], None}
<1> DEFINE Sticky == \A s \in Sessions :
              redisBinding[s] # None => redisBinding'[s] \in {redisBinding[s], None}
<1> USE ConductorAssumption DEF ConductorInv
<1>1. \A q \in Requests : ~CallFails(q)
  BY DEF CallFails, UnboundUntilBind
<1>2. ASSUME NEW q \in Requests, UNCHANGED redisBinding, ctxDone' \subseteq ctxDone,
             \A o \in Requests \ {q} : pc'[o] = pc[o] /\ hadBinding'[o] = hadBinding[o],
             \/ pc'[q] \notin {"local", "sync", "store", "pick", "reserve", "accepted", "bind"}
             \/ /\ pc'[q] \in {"local", "sync", "store", "pick", "reserve", "accepted"}
                /\ \/ hadBinding'[q]
                   \/ SessionOf[q] = None
                   \/ redisBinding[SessionOf[q]] = None
             \/ /\ pc'[q] = "bind"
                /\ SessionOf[q] # None
                /\ redisBinding[SessionOf[q]] = None
      PROVE  UnboundUntilBind' /\ Sticky
  BY <1>2 DEF UnboundUntilBind
<1>3. ASSUME NEW q \in Requests, Return(q)
      PROVE  /\ ctxDone' \subseteq ctxDone /\ pc'[q] = "idle"
             /\ \A o \in Requests \ {q} : pc'[o] = pc[o] /\ hadBinding'[o] = hadBinding[o]
  BY <1>3 DEF Return, Goto, Types, RequestTypes
<1>4. ASSUME NEW q \in Requests, RequestStep(q) PROVE UnboundUntilBind' /\ Sticky
  <2> USE DEF Goto, Types, RequestTypes
  <2>1. CASE LookupRedisBinding(q)
    <3>1. /\ UNCHANGED <<redisBinding, ctxDone>>
          /\ \A o \in Requests \ {q} : pc'[o] = pc[o] /\ hadBinding'[o] = hadBinding[o]
          /\ \/ pc'[q] = "reserve" /\ hadBinding'[q]
             \/ /\ pc'[q] = "local"
                /\ SessionOf[q] = None \/ redisBinding[SessionOf[q]] = None
      BY <1>1, <2>1 DEF LookupRedisBinding, Attempt
    <3> QED BY <1>2, <3>1
  <2>2. CASE LookupLocalBinding(q) \/ SyncInFlight(q) \/ StoreInFlight(q) \/ Pick(q)
             \/ ReserveAccepted(q)
    <3>1. /\ UNCHANGED <<redisBinding, ctxDone>>
          /\ \A o \in Requests \ {q} : pc'[o] = pc[o] /\ hadBinding'[o] = hadBinding[o]
          /\ pc[q] \in {"local", "sync", "store", "pick", "reserve"}
          /\ pc'[q] \in {"sync", "store", "pick", "reserve", "accepted"}
          /\ hadBinding[q] => hadBinding'[q]
      BY <2>2 DEF LookupLocalBinding, SyncInFlight, StoreInFlight, Pick, ReserveAccepted,
         Attempt
    <3>2. hadBinding[q] \/ SessionOf[q] = None \/ redisBinding[SessionOf[q]] = None
      BY <3>1 DEF UnboundUntilBind
    <3> QED BY <1>2, <3>1, <3>2
  <2>3. CASE NoReady(q) \/ ReserveFails(q) \/ ReleaseLocal(q)
    BY <1>2, <1>3, <2>3 DEF NoReady, ReserveFails, ReleaseLocal
  <2>4. CASE ReserveRefused(q) \/ Rollback(q)
    <3>1. Refused(q) /\ UNCHANGED redisBinding /\ pc[q] \in {"reserve", "accepted"}
      BY <2>4 DEF ReserveRefused, Rollback
    <3>2. CASE Return(q)
      BY <1>2, <1>3, <3>1, <3>2
    <3>3. CASE ~Return(q)
      <4>1. /\ UNCHANGED <<ctxDone, hadBinding>> /\ pc'[q] \in {"local", "sync"}
            /\ \A o \in Requests \ {q} : pc'[o] = pc[o]
        BY <3>1, <3>3 DEF Refused
      <4>2. hadBinding[q] \/ SessionOf[q] = None \/ redisBinding[SessionOf[q]] = None
        BY <3>1 DEF UnboundUntilBind
      <4> QED BY <1>2, <3>1, <4>1, <4>2
    <3> QED BY <3>2, <3>3
  <2>5. CASE Track(q)
    <3>1. /\ UNCHANGED <<redisBinding, ctxDone>> /\ pc[q] = "accepted"
          /\ \A o \in Requests \ {q} : pc'[o] = pc[o] /\ hadBinding'[o] = hadBinding[o]
          /\ \/ pc'[q] = "active"
             \/ pc'[q] = "bind" /\ SessionOf[q] # None /\ ~hadBinding[q]
      BY <2>5 DEF Track
    <3>2. hadBinding[q] \/ SessionOf[q] = None \/ redisBinding[SessionOf[q]] = None
      BY <3>1 DEF UnboundUntilBind
    <3> QED BY <1>2, <3>1, <3>2
  <2>6. CASE BindRedis(q)
    <3>1. /\ pc[q] = "bind" /\ UNCHANGED <<ctxDone, hadBinding>>
          /\ pc' = [pc EXCEPT ![q] = "active"]
          /\ redisBinding' = [redisBinding EXCEPT ![SessionOf[q]] = cand[q]]
      BY <1>1, <2>6 DEF BindRedis
    <3>2. SessionOf[q] \in Sessions /\ redisBinding[SessionOf[q]] = None
      BY <3>1 DEF UnboundUntilBind
    <3>3. \A s \in Sessions \ {SessionOf[q]} : redisBinding'[s] = redisBinding[s]
      BY <3>1, <3>2 DEF ProcessTypes
    <3>4. Sticky
      BY <3>2, <3>3
    <3>5. ASSUME NEW o \in Requests, o # q, SessionOf[o] # None
          PROVE  redisBinding'[SessionOf[o]] = redisBinding[SessionOf[o]]
      BY <3>2, <3>3, <3>5 DEF SessionsSerial
    <3>6. UnboundUntilBind'
      BY <3>1, <3>5 DEF UnboundUntilBind
    <3> QED BY <3>4, <3>6
  <2>7. CASE \/ MarkSuccess(q) \/ MarkRateLimit(q) \/ MarkAuthError(q) \/ MarkNothing(q)
             \/ Mirror(q) \/ PopReservation(q) \/ ReleaseRedis(q)
    <3>1. /\ UNCHANGED <<redisBinding, ctxDone, hadBinding>>
          /\ \A o \in Requests \ {q} : pc'[o] = pc[o]
          /\ pc'[q] \in {"clear", "cool", "coolModel", "coolAuth", "release", "releaseRedis",
                         "releaseLocal"}
      BY <2>7 DEF MarkSuccess, MarkRateLimit, MarkAuthError, MarkNothing, Mirror, MirrorCall,
         PopReservation, ReleaseRedis, KeepRequest
    <3> QED BY <1>2, <3>1
  <2> QED BY <1>4, <2>1, <2>2, <2>3, <2>4, <2>5, <2>6, <2>7 DEF RequestStep
<1>5. ASSUME UNCHANGED <<pc, hadBinding, ctxDone>>, UNCHANGED redisBinding
      PROVE  UnboundUntilBind' /\ Sticky
  BY <1>5 DEF UnboundUntilBind
<1>6. ASSUME NEW q \in Requests, Disconnect(q) PROVE UnboundUntilBind' /\ Sticky
  BY <1>6 DEF Disconnect
<1>7. CASE \/ \E r \in Reservations : Renew(r) \/ RenewGone(r) \/ RenewCancelled(r)
           \/ \E p \in Procs, c \in Creds : Disable(p, c) \/ Enable(p, c)
           \/ \E c \in Creds : EnableRedis(c)
           \/ Tick
           \/ UNCHANGED vars
  BY <1>5, <1>7 DEF Renew, RenewGone, RenewCancelled, KeepAllButRedis, Disable, Enable,
     EnableRedis, Tick, vars, requestVars
<1>8. ASSUME NEW s \in Sessions, BindingExpires(s) PROVE UnboundUntilBind' /\ Sticky
  <2>1. \A t \in Sessions : redisBinding'[t] \in {redisBinding[t], None}
    BY <1>8 DEF BindingExpires, Types, ProcessTypes
  <2>2. UNCHANGED <<pc, hadBinding, ctxDone>>
    BY <1>8 DEF BindingExpires, requestVars
  <2> QED BY <2>1, <2>2 DEF UnboundUntilBind
<1>9. ASSUME NEW p \in Procs, Crash(p) PROVE UnboundUntilBind' /\ Sticky
  <2>1. /\ \A q \in Requests : pc'[q] = "idle" \/ (pc'[q] = pc[q] /\ hadBinding'[q] = hadBinding[q])
        /\ ctxDone' \subseteq ctxDone
        /\ UNCHANGED redisBinding
    BY <1>9 DEF Crash
  <2> QED BY <2>1 DEF UnboundUntilBind
<1> QED BY <1>4, <1>6, <1>7, <1>8, <1>9 DEF Next

\* Sticky-on-recovery: as long as a session's requests come one after the other
\* and the affinity lookup does not fail, a fallback to another account never
\* replaces the session's binding.
THEOREM BindingIsSticky ==
  ASSUME SessionsSerial, Faults \cap {"redis", "client"} = {}
  PROVE  Spec => BindingSticky
<1>1. Init => UnboundUntilBind
  BY DEF Init, UnboundUntilBind
<1>2. ConductorInv /\ UnboundUntilBind /\ [Next]_vars =>
        /\ UnboundUntilBind'
        /\ \A s \in Sessions :
             redisBinding[s] # None => redisBinding'[s] \in {redisBinding[s], None}
  BY StickyStep
<1> QED BY <1>1, <1>2, ConductorInvariant, PTL DEF Spec, BindingSticky
-----------------------------------------------------------------------------
(***************************************************************************)
(* The lease of a long request                                             *)
(***************************************************************************)

\* A process serves at most one request of a model at a time, so that pop
\* cannot give one request the reservation of another.
NoSwaps ==
    \A q, o \in Requests : ProcOf[q] = ProcOf[o] /\ ModelFor[q] = ModelFor[o] => q = o

\* A granted reservation has its lease until it is tracked, and from then on a
\* renewal goroutine that lives as long as the request does.
KeptAlive ==
    /\ \A q \in Requests : pc[q] = "accepted" => lease[res[q]] > 0
    /\ \A q \in Requests : pc[q] \in Serving /\ q \notin ctxDone =>
         \A r \in Tracked(ProcOf[q], cand[q], ModelFor[q]) :
             r \in renewing /\ renewCtx[r] = q /\ lease[r] > 0

\* A step that takes no life from a held lease, stops no renewal of a request
\* that goes on and tracks nothing new keeps the leases alive.
LEMMA KeptAliveStable ==
  ASSUME ConductorInv, KeptAlive,
         \A q \in Requests : pc'[q] = "accepted" =>
             pc[q] = "accepted" /\ res'[q] = res[q],
         \A q \in Requests : pc'[q] \in Serving /\ q \notin ctxDone' =>
             /\ pc[q] \in Serving /\ q \notin ctxDone /\ cand'[q] = cand[q]
             /\ \A r \in Tracked(ProcOf[q], cand[q], ModelFor[q])' :
                  /\ r \in Tracked(ProcOf[q], cand[q], ModelFor[q])
                  /\ renewCtx[r] = q => renewCtx'[r] = q
                  /\ renewCtx[r] = q /\ r \in renewing /\ lease[r] > 0 => r \in renewing',
         \A r \in held : lease[r] > 0 =>
             lease'[r] > 0 \/ \E q \in Carried : res[q] = r /\ pc'[q] # "accepted"
  PROVE  KeptAlive'
<1> USE DEF ConductorInv
<1>1. ASSUME NEW q \in Requests, pc'[q] = "accepted" PROVE lease'[res'[q]] > 0
  <2>1. pc[q] = "accepted" /\ res'[q] = res[q] /\ q \in Carried
    BY <1>1 DEF Carried
  <2>2. lease[res[q]] > 0 /\ res[q] \in held
    BY <2>1 DEF KeptAlive, Holdings
  <2>3. ASSUME NEW o \in Carried, res[o] = res[q] PROVE o = q
    BY <2>1, <2>3 DEF Holdings
  <2> QED BY <1>1, <2>1, <2>2, <2>3
<1>2. ASSUME NEW q \in Requests, pc'[q] \in Serving, q \notin ctxDone',
             NEW r \in Tracked(ProcOf[q], cand[q], ModelFor[q])'
      PROVE  r \in renewing' /\ renewCtx'[r] = q /\ lease'[r] > 0
  <2>1. pc[q] \in Serving /\ q \notin ctxDone /\ cand'[q] = cand[q]
    BY <1>2
  <2>2. /\ r \in Tracked(ProcOf[q], cand[q], ModelFor[q])
        /\ renewCtx[r] = q => renewCtx'[r] = q
        /\ renewCtx[r] = q /\ r \in renewing /\ lease[r] > 0 => r \in renewing'
    BY <1>2
  <2>3. r \in renewing /\ renewCtx[r] = q /\ lease[r] > 0
    BY <2>1, <2>2 DEF KeptAlive
  <2>4. r \in ToSet(tracker[ProcOf[q]][cand[q]]) /\ ProcOf[q] \in Procs /\ cand[q] \in Creds
    BY <2>1, <2>2, ConductorAssumption DEF Tracked, Types, CandKnown
  <2>5. r \in held /\ \A o \in Carried : res[o] # r
    BY <2>4 DEF Holdings
  <2> QED BY <2>2, <2>3, <2>5
<1> QED BY <1>1, <1>2 DEF KeptAlive
\* The steps of a request that track nothing and reserve nothing.
LEMMA KeptAliveMove ==
  ASSUME ConductorInv, KeptAlive, NEW q \in Requests, OnlyMoves(q), KeysStable,
         tracker' = tracker, renewing' = renewing,
         \A o \in Requests \ {q} :
             /\ o \in ctxDone' <=> o \in ctxDone
             /\ \A r \in Reservations : renewCtx[r] = o => renewCtx'[r] = o,
         pc'[q] # "accepted",
         pc'[q] \in Serving => /\ pc[q] \in Serving /\ cand'[q] = cand[q]
                               /\ UNCHANGED <<ctxDone, renewCtx>>,
         \A r \in held : lease'[r] = lease[r] \/ (q \in Carried /\ r = res[q])
  PROVE  KeptAlive'
<1> USE DEF ConductorInv
<1>1. ASSUME NEW o \in Requests, pc'[o] = "accepted"
      PROVE  pc[o] = "accepted" /\ res'[o] = res[o]
  BY <1>1 DEF OnlyMoves
<1>2. ASSUME NEW o \in Requests, pc'[o] \in Serving, o \notin ctxDone'
      PROVE  /\ pc[o] \in Serving /\ o \notin ctxDone /\ cand'[o] = cand[o]
             /\ \A r \in Tracked(ProcOf[o], cand[o], ModelFor[o])' :
                  /\ r \in Tracked(ProcOf[o], cand[o], ModelFor[o])
                  /\ renewCtx[r] = o => renewCtx'[r] = o
                  /\ renewCtx[r] = o /\ r \in renewing /\ lease[r] > 0 => r \in renewing'
  <2>1. pc[o] \in Serving /\ o \notin ctxDone /\ cand'[o] = cand[o]
    BY <1>2 DEF OnlyMoves
  <2>2. ProcOf[o] \in Procs /\ cand[o] \in Creds
    BY <2>1, ConductorAssumption DEF Types, CandKnown
  <2>3. ASSUME NEW r \in Tracked(ProcOf[o], cand[o], ModelFor[o])'
        PROVE  r \in Tracked(ProcOf[o], cand[o], ModelFor[o]) /\ r \in Reservations
    <3>1. r \in ToSet(tracker[ProcOf[o]][cand[o]]) /\ modelOf'[r] = ModelFor[o]
      BY <2>1, <2>3 DEF Tracked
    <3>2. r \in held
      BY <2>2, <3>1 DEF Holdings
    <3> QED BY <3>1, <3>2 DEF Tracked, KeysStable, Types, RedisTypes
  <2>4. ASSUME NEW r \in Reservations, renewCtx[r] = o PROVE renewCtx'[r] = o
    BY <1>2, <2>4
  <2> QED BY <2>1, <2>3, <2>4
<1>3. ASSUME NEW r \in held, lease[r] > 0
      PROVE  lease'[r] > 0 \/ \E o \in Carried : res[o] = r /\ pc'[o] # "accepted"
  BY <1>3
<1> QED BY <1>1, <1>2, <1>3, KeptAliveStable

\* What the end of a request's context leaves to the other requests.
LEMMA EndKeepsOthers ==
  ASSUME Types, NEW q \in Requests, Return(q) \/ Refused(q)
  PROVE  /\ \A o \in Requests \ {q} :
              /\ o \in ctxDone' <=> o \in ctxDone
              /\ \A r \in Reservations : renewCtx[r] = o => renewCtx'[r] = o
         /\ pc'[q] \in {"idle", "local", "sync"}
<1>1. CASE Return(q)
  BY <1>1 DEF Return, EndContext, Goto, Types, RequestTypes
<1>2. CASE ~Return(q)
  BY <1>2 DEF Refused, Goto, Types, RequestTypes
<1> QED BY <1>1, <1>2

\* All steps of a request but the reservation, the tracking and the pop.
LEMMA KeptAliveQuiet ==
  ASSUME ConductorInv, KeptAlive, NEW q \in Requests, RequestStep(q),
         ~ReserveAccepted(q), ~Track(q), ~PopReservation(q)
  PROVE  KeptAlive'
<1> USE DEF ConductorInv
<1>1. OnlyMoves(q)
  BY RequestMovesAlone
<1>2. ASSUME UNCHANGED redisVars
      PROVE  KeysStable /\ renewing' = renewing /\ \A r \in held : lease'[r] = lease[r]
  BY <1>2 DEF redisVars, KeysStable
<1>3. CASE LookupRedisBinding(q) \/ LookupLocalBinding(q) \/ Pick(q)
  <2>1. /\ pc'[q] \in {"local", "sync", "reserve"}
        /\ UNCHANGED redisVars /\ UNCHANGED <<ctxDone, processVars>>
    BY <1>3 DEF LookupRedisBinding, LookupLocalBinding, Pick, Attempt, Goto, Types, RequestTypes
  <2>2. pc'[q] # "accepted" /\ pc'[q] \notin Serving /\ UNCHANGED <<tracker, renewCtx, ctxDone>>
    BY <2>1 DEF Serving, processVars
  <2> QED BY <1>1, <1>2, <2>1, <2>2, KeptAliveMove
<1>4. CASE SyncInFlight(q) \/ StoreInFlight(q)
  <2>1. /\ pc'[q] \in {"store", "pick"}
        /\ UNCHANGED redisVars /\ UNCHANGED <<ctxDone, tracker, renewCtx>>
    BY <1>4 DEF SyncInFlight, StoreInFlight, Goto, processVars, Types, RequestTypes
  <2>2. pc'[q] # "accepted" /\ pc'[q] \notin Serving
    BY <2>1 DEF Serving
  <2> QED BY <1>1, <1>2, <2>1, <2>2, KeptAliveMove
<1>5. CASE NoReady(q) \/ ReserveRefused(q) \/ ReleaseLocal(q)
  <2>1. (Return(q) \/ Refused(q)) /\ UNCHANGED redisVars /\ UNCHANGED tracker
    BY <1>5 DEF NoReady, ReserveRefused, ReleaseLocal
  <2>2. pc'[q] # "accepted" /\ pc'[q] \notin Serving
    BY <2>1, EndKeepsOthers DEF Serving
  <2> QED BY <1>1, <1>2, <2>1, <2>2, EndKeepsOthers, KeptAliveMove
<1>6. CASE ReserveFails(q)
  <2>1. Return(q) /\ UNCHANGED tracker
    BY <1>6 DEF ReserveFails
  <2>2. pc'[q] # "accepted" /\ pc'[q] \notin Serving
    BY <2>1, EndKeepsOthers DEF Serving
  <2>3. KeysStable /\ renewing' = renewing /\ \A r \in held : lease'[r] = lease[r]
    <3>1. ASSUME NEW r \in IdsOf[ProcOf[q]],
                 Redis!TryReserveReplyLost(r, cand[q], ModelFor[q])
          PROVE  KeysStable /\ renewing' = renewing /\ \A x \in held : lease'[x] = lease[x]
      <4>1. r \notin held /\ renewing' = renewing
        BY <3>1 DEF Redis!TryReserveReplyLost, Redis!Fresh
      <4>2. /\ credOf' = [credOf EXCEPT ![r] = cand[q]]
            /\ modelOf' = [modelOf EXCEPT ![r] = ModelFor[q]]
            /\ lease' = [lease EXCEPT ![r] = LeaseTTL]
        BY <3>1 DEF Redis!TryReserveReplyLost, Redis!ReserveScript
      <4> QED BY <4>1, <4>2 DEF KeysStable, Types, RedisTypes
    <3> QED BY <1>2, <1>6, <3>1 DEF ReserveFails
  <2> QED BY <1>1, <2>1, <2>2, <2>3, EndKeepsOthers, KeptAliveMove
<1>7. CASE Rollback(q) \/ ReleaseRedis(q)
  <2>1. q \in Carried
    BY <1>7 DEF Rollback, ReleaseRedis, Carried
  <2>2. Redis!Release(res[q]) \/ Redis!ReleaseLost(res[q])
    BY <1>7 DEF Rollback, ReleaseRedis
  <2>3. KeysStable /\ renewing' = renewing
    BY <2>2 DEF Redis!Release, Redis!ReleaseLost, Redis!leaseVars, KeysStable
  <2>4. \A r \in held : lease'[r] = lease[r] \/ r = res[q]
    BY <2>2 DEF Redis!Release, Redis!ReleaseLost, Redis!ReleaseScript, Redis!leaseVars,
       Types, RedisTypes
  <2>5. /\ \A o \in Requests \ {q} :
             /\ o \in ctxDone' <=> o \in ctxDone
             /\ \A r \in Reservations : renewCtx[r] = o => renewCtx'[r] = o
        /\ pc'[q] \in {"idle", "local", "sync", "releaseLocal"}
        /\ tracker' = tracker
    BY <1>7, EndKeepsOthers
       DEF Rollback, ReleaseRedis, Goto, processVars, Types, RequestTypes
  <2>6. pc'[q] # "accepted" /\ pc'[q] \notin Serving
    BY <2>5 DEF Serving
  <2> QED BY <1>1, <2>1, <2>3, <2>4, <2>5, <2>6, KeptAliveMove
<1>8. CASE BindRedis(q) \/ MarkSuccess(q) \/ MarkRateLimit(q) \/ MarkAuthError(q)
           \/ MarkNothing(q)
  <2>1. /\ UNCHANGED redisVars /\ UNCHANGED <<cand, ctxDone, tracker, renewCtx>>
        /\ pc[q] \in {"bind", "active"}
        /\ pc'[q] \in {"active", "clear", "cool", "coolAuth", "release"}
    BY <1>8 DEF BindRedis, MarkSuccess, MarkRateLimit, MarkAuthError, MarkNothing, KeepRequest,
       Goto, processVars, Types, RequestTypes
  <2>2. pc'[q] # "accepted" /\ pc[q] \in Serving
    BY <2>1 DEF Serving
  <2> QED BY <1>1, <1>2, <2>1, <2>2, KeptAliveMove
<1>9. CASE Mirror(q)
  <2>1. /\ UNCHANGED <<lease, credOf, modelOf, renewing>>
        /\ UNCHANGED <<cand, ctxDone, tracker, renewCtx>>
    BY <1>9 DEF Mirror, MirrorCall, Redis!ClearCooldown, Redis!SetCooldown, Redis!leaseVars,
       redisVars, KeepRequest, processVars
  <2>2. /\ pc[q] \in {"clear", "cool", "coolModel", "coolAuth"}
        /\ pc'[q] \in {"coolModel", "release"}
    BY <1>9 DEF Mirror, MirrorCall, Goto, Types, RequestTypes
  <2>3. pc'[q] # "accepted" /\ pc[q] \in Serving
    BY <2>2 DEF Serving
  <2> QED BY <1>1, <2>1, <2>3, KeptAliveMove DEF KeysStable
<1> QED BY <1>3, <1>4, <1>5, <1>6, <1>7, <1>8, <1>9 DEF RequestStep
\* The accepted reservation starts with a full lease.
LEMMA KeptAliveAccepted ==
  ASSUME ConductorInv, KeptAlive, NEW q \in Requests, RequestStep(q), ReserveAccepted(q)
  PROVE  KeptAlive'
<1> USE DEF ConductorInv
<1>1. OnlyMoves(q)
  BY RequestMovesAlone
<1>2. PICK r \in IdsOf[ProcOf[q]] :
        Redis!TryReserve(r, cand[q], ModelFor[q]) /\ res' = [res EXCEPT ![q] = r]
  BY DEF ReserveAccepted
<1>3. r \in Reservations /\ r \notin held /\ renewing' = renewing
  BY <1>2, ConductorAssumption DEF Redis!TryReserve, Redis!Fresh
<1>4. /\ lease' = [lease EXCEPT ![r] = LeaseTTL]
      /\ modelOf' = [modelOf EXCEPT ![r] = ModelFor[q]]
  BY <1>2 DEF Redis!TryReserve, Redis!ReserveScript
<1>5. /\ lease'[r] > 0
      /\ \A x \in held : lease'[x] = lease[x] /\ modelOf'[x] = modelOf[x]
  BY <1>3, <1>4, ConductorAssumption DEF Types, RedisTypes
<1>6. /\ pc'[q] = "accepted" /\ res'[q] = r /\ cand' = cand
      /\ UNCHANGED <<tracker, renewCtx, ctxDone>>
  BY <1>2 DEF ReserveAccepted, Goto, processVars, Types, RequestTypes
<1>7. ASSUME NEW o \in Requests, pc'[o] = "accepted" PROVE lease'[res'[o]] > 0
  <2>1. CASE o = q
    BY <1>5, <1>6, <2>1
  <2>2. CASE o # q
    <3>1. pc[o] = "accepted" /\ res'[o] = res[o] /\ o \in Carried
      BY <1>1, <1>7, <2>2 DEF OnlyMoves, Carried
    <3> QED BY <1>5, <3>1 DEF KeptAlive, Holdings
  <2> QED BY <2>1, <2>2
<1>8. ASSUME NEW o \in Requests, pc'[o] \in Serving, o \notin ctxDone',
             NEW x \in Tracked(ProcOf[o], cand[o], ModelFor[o])'
      PROVE  x \in renewing' /\ renewCtx'[x] = o /\ lease'[x] > 0
  <2>1. pc[o] \in Serving /\ o \notin ctxDone
    BY <1>1, <1>6, <1>8 DEF OnlyMoves, Serving
  <2>2. ProcOf[o] \in Procs /\ cand[o] \in Creds
    BY <2>1, ConductorAssumption DEF Types, CandKnown
  <2>3. x \in ToSet(tracker[ProcOf[o]][cand[o]]) /\ modelOf'[x] = ModelFor[o]
    BY <1>6, <1>8 DEF Tracked
  <2>4. x \in held
    BY <2>2, <2>3 DEF Holdings
  <2>5. x \in Tracked(ProcOf[o], cand[o], ModelFor[o])
    BY <1>5, <2>3, <2>4 DEF Tracked
  <2> QED BY <1>3, <1>5, <1>6, <2>1, <2>4, <2>5 DEF KeptAlive
<1> QED BY <1>7, <1>8 DEF KeptAlive

\* trackReservation starts the renewal of a reservation that no other request
\* can take for its own.
LEMMA KeptAliveTrack ==
  ASSUME NoSwaps, ConductorInv, KeptAlive, NEW q \in Requests, RequestStep(q), Track(q)
  PROVE  KeptAlive'
<1> USE DEF ConductorInv
<1> DEFINE p == ProcOf[q]
           c == cand[q]
           s == tracker[p][c]
           r == res[q]
<1>1. OnlyMoves(q)
  BY RequestMovesAlone
<1>2. /\ pc[q] = "accepted" /\ q \in Carried
      /\ p \in Procs /\ c \in Creds /\ ModelFor[q] \in Models
  BY ConductorAssumption DEF Track, Carried, Types, CandKnown
<1>3. /\ r \in Reservations /\ modelOf[r] = ModelFor[q] /\ lease[r] > 0
      /\ \A o \in Procs, d \in Creds : r \notin ToSet(tracker[o][d])
  BY <1>2 DEF Holdings, Types, RedisTypes, KeptAlive
<1>4. s \in Seq(Reservations)
  BY <1>2 DEF Types, ProcessTypes
<1>5. /\ tracker' = [tracker EXCEPT ![p][c] = Append(s, r)]
      /\ renewCtx' = [renewCtx EXCEPT ![r] = IF q \in ctxDone THEN None ELSE q]
      /\ UNCHANGED <<cand, ctxDone>>
  BY DEF Track
<1>6. /\ renewing' = renewing \cup {r} /\ UNCHANGED <<lease, modelOf>>
  BY DEF Track, Redis!StartRenewal, Redis!leaseVars
<1>7. pc'[q] \in {"bind", "active"}
  BY DEF Track, Goto, Types, RequestTypes
<1>8. ToSet(Append(s, r)) = ToSet(s) \cup {r}
  BY <1>3, <1>4, AppendedSet
<1>9. /\ q \notin ctxDone => renewCtx'[r] = q
      /\ \A x \in Reservations \ {r} : renewCtx'[x] = renewCtx[x]
  BY <1>3, <1>5 DEF Types, ProcessTypes
<1> HIDE DEF p, c, s, r
<1>10. \A o \in Procs, d \in Creds :
         ToSet(tracker'[o][d]) =
           IF o = p /\ d = c THEN ToSet(tracker[o][d]) \cup {r} ELSE ToSet(tracker[o][d])
  <2> DEFINE n == Append(s, r)
  <2>1. tracker' = [tracker EXCEPT ![p][c] = n]
    BY <1>5
  <2> HIDE DEF n
  <2>2. \A o \in Procs, d \in Creds :
          tracker'[o][d] = IF o = p /\ d = c THEN n ELSE tracker[o][d]
    BY <1>2, <2>1 DEF Types, ProcessTypes
  <2> QED BY <1>8, <2>2 DEF n, s
<1>11. ServedBy(p, c, ModelFor[q]) = {}
  BY <1>2 DEF ServedBy, NoSwaps, Serving, p
<1>12. Tracked(p, c, ModelFor[q]) = {}
  <2>1. Cardinality(Tracked(p, c, ModelFor[q])) = Cardinality(ServedBy(p, c, ModelFor[q]))
    BY <1>2 DEF SlotsCounted
  <2>2. IsFiniteSet(Tracked(p, c, ModelFor[q]))
    BY <1>2, SlotsFinite
  <2>3. Cardinality(Tracked(p, c, ModelFor[q])) = 0
    BY <1>11, <2>1, FS_EmptySet
  <2> QED BY <2>2, <2>3, FS_EmptySet
<1>13. ASSUME NEW o \in Requests, pc'[o] = "accepted" PROVE lease'[res'[o]] > 0
  BY <1>1, <1>6, <1>7, <1>13 DEF OnlyMoves, KeptAlive
<1>14. ASSUME NEW o \in Requests, pc'[o] \in Serving, o \notin ctxDone',
              NEW x \in Tracked(ProcOf[o], cand[o], ModelFor[o])'
       PROVE  x \in renewing' /\ renewCtx'[x] = o /\ lease'[x] > 0
  <2>1. x \in ToSet(tracker'[ProcOf[o]][cand[o]]) /\ modelOf[x] = ModelFor[o]
    BY <1>5, <1>6, <1>14 DEF Tracked
  <2>2. CASE o = q
    <3>1. x \in ToSet(tracker[p][c]) \cup {r}
      BY <1>2, <1>10, <2>1, <2>2 DEF p, c
    <3>2. x = r
      BY <1>12, <2>1, <2>2, <3>1 DEF Tracked
    <3> QED BY <1>3, <1>5, <1>6, <1>9, <1>14, <2>2, <3>2
  <2>3. CASE o # q
    <3>1. pc[o] \in Serving /\ o \notin ctxDone
      BY <1>1, <1>5, <1>14, <2>3 DEF OnlyMoves
    <3>2. ProcOf[o] \in Procs /\ cand[o] \in Creds
      BY <3>1, ConductorAssumption DEF Types, CandKnown
    <3>3. x # r
      <4>1. CASE ProcOf[o] = p /\ cand[o] = c
        BY <1>3, <2>1, <2>3, <4>1 DEF NoSwaps, p
      <4>2. CASE ~(ProcOf[o] = p /\ cand[o] = c)
        BY <1>3, <1>10, <2>1, <3>2, <4>2
      <4> QED BY <4>1, <4>2
    <3>4. x \in Tracked(ProcOf[o], cand[o], ModelFor[o])
      BY <1>10, <2>1, <3>2, <3>3 DEF Tracked
    <3>5. x \in Reservations
      BY <3>2, <3>4 DEF Tracked, Holdings, Types, RedisTypes
    <3> QED BY <1>6, <1>9, <3>1, <3>3, <3>4, <3>5 DEF KeptAlive
  <2> QED BY <2>2, <2>3
<1> QED BY <1>13, <1>14 DEF KeptAlive

\* A pop ends the renewal of the reservation it takes and of no other.
LEMMA KeptAlivePop ==
  ASSUME ConductorInv, KeptAlive, NEW q \in Requests, RequestStep(q), PopReservation(q)
  PROVE  KeptAlive'
<1> USE DEF ConductorInv
<1> DEFINE p == ProcOf[q]
           c == cand[q]
           s == tracker[p][c]
           i == PopIndex(s, ModelFor[q])
           r == s[i]
<1>1. OnlyMoves(q)
  BY RequestMovesAlone
<1>2. /\ pc[q] = "release"
      /\ p \in Procs /\ c \in Creds
  BY ConductorAssumption DEF PopReservation, Types, CandKnown, Serving
<1>3. s \in Seq(Reservations) /\ IsInjective(s)
  BY <1>2 DEF Holdings, Types, ProcessTypes
<1>4. /\ UNCHANGED <<lease, modelOf, renewing, cand, ctxDone>>
      /\ pc'[q] \in {"releaseLocal", "releaseRedis"}
  BY DEF PopReservation, redisVars, Goto, Types, RequestTypes
<1>5. CASE i = 0
  <2>1. UNCHANGED <<tracker, renewCtx, credOf>>
    BY <1>5 DEF PopReservation, redisVars
  <2>2. pc'[q] # "accepted" /\ pc'[q] \notin Serving
    BY <1>4 DEF Serving
  <2> QED BY <1>1, <1>4, <2>1, <2>2, KeptAliveMove DEF KeysStable
<1>6. CASE i # 0
  <2>1. i \in 1..Len(s) /\ r \in Reservations
    BY <1>2, <1>6, PopTypes
  <2>2. /\ tracker' = [tracker EXCEPT ![p][c] = RemoveAt(s, i)]
        /\ renewCtx' = [renewCtx EXCEPT ![r] = None]
    BY <1>6 DEF PopReservation
  <2> HIDE DEF i
  <2>3. ToSet(RemoveAt(s, i)) = ToSet(s) \ {r} /\ r \in ToSet(s)
    BY <1>3, <2>1, RemovedSet, ElementsOf
  <2>4. \A x \in Reservations \ {r} : renewCtx'[x] = renewCtx[x]
    BY <2>1, <2>2 DEF Types, ProcessTypes
  <2>5. r \in IdsOf[p] /\ credOf[r] = c
    BY <1>2, <2>3 DEF Holdings
  <2> HIDE DEF p, c, s, r
  <2>6. \A o \in Procs, d \in Creds :
          ToSet(tracker'[o][d]) \subseteq ToSet(tracker[o][d]) \ {r}
    <3> DEFINE n == RemoveAt(s, i)
    <3>1. tracker' = [tracker EXCEPT ![p][c] = n]
      BY <2>2
    <3> HIDE DEF n
    <3>2. \A o \in Procs, d \in Creds :
            tracker'[o][d] = IF o = p /\ d = c THEN n ELSE tracker[o][d]
      BY <1>2, <3>1 DEF Types, ProcessTypes
    <3>3. \A o \in Procs, d \in Creds : r \in ToSet(tracker[o][d]) => o = p /\ d = c
      BY <1>2, <2>5, ConductorAssumption DEF Holdings
    <3> QED BY <2>3, <3>2, <3>3 DEF n, s
  <2>7. ASSUME NEW o \in Requests, pc'[o] = "accepted"
        PROVE  pc[o] = "accepted" /\ res'[o] = res[o]
    BY <1>1, <1>4, <2>7 DEF OnlyMoves
  <2>8. ASSUME NEW o \in Requests, pc'[o] \in Serving, o \notin ctxDone'
        PROVE  /\ pc[o] \in Serving /\ o \notin ctxDone /\ cand'[o] = cand[o]
               /\ \A x \in Tracked(ProcOf[o], cand[o], ModelFor[o])' :
                    /\ x \in Tracked(ProcOf[o], cand[o], ModelFor[o])
                    /\ renewCtx[x] = o => renewCtx'[x] = o
                    /\ renewCtx[x] = o /\ x \in renewing /\ lease[x] > 0 => x \in renewing'
    <3>1. pc[o] \in Serving /\ o \notin ctxDone /\ cand'[o] = cand[o]
      BY <1>1, <1>4, <2>8 DEF OnlyMoves, Serving
    <3>2. ProcOf[o] \in Procs /\ cand[o] \in Creds
      BY <3>1, ConductorAssumption DEF Types, CandKnown
    <3>3. ASSUME NEW x \in Tracked(ProcOf[o], cand[o], ModelFor[o])'
          PROVE  /\ x \in Tracked(ProcOf[o], cand[o], ModelFor[o])
                 /\ renewCtx'[x] = renewCtx[x]
      <4>1. /\ x \in ToSet(tracker[ProcOf[o]][cand[o]]) /\ x # r
            /\ modelOf[x] = ModelFor[o]
        BY <1>4, <2>6, <3>2, <3>3 DEF Tracked
      <4>2. x \in Reservations
        BY <3>2, <4>1 DEF Holdings, Types, RedisTypes
      <4> QED BY <2>4, <4>1, <4>2 DEF Tracked
    <3> QED BY <1>4, <3>1, <3>3
  <2> QED BY <1>4, <2>7, <2>8, KeptAliveStable
<1> QED BY <1>5, <1>6
\* A tick finds every lease of a running request freshly renewed, so with a TTL
\* of more than a tick it survives.
LEMMA KeptAliveTick ==
  ASSUME LeaseTTL > 1, ConductorInv, KeptAlive, Tick
  PROVE  KeptAlive'
<1> USE DEF ConductorInv
<1>1. /\ lease' = [r \in Reservations |-> Redis!Elapse(lease[r])]
      /\ UNCHANGED <<modelOf, renewing, pc, cand, res, ctxDone, tracker, renewCtx>>
  BY DEF Tick, Redis!Tick, requestVars
<1>2. \A q \in Requests : pc[q] # "accepted"
  BY DEF Tick, StepsAreShort
<1>3. ASSUME NEW o \in Requests, pc'[o] \in Serving, o \notin ctxDone',
             NEW x \in Tracked(ProcOf[o], cand[o], ModelFor[o])'
      PROVE  x \in renewing' /\ renewCtx'[x] = o /\ lease'[x] > 0
  <2>1. pc[o] \in Serving /\ o \notin ctxDone
    BY <1>1, <1>3
  <2>2. x \in Tracked(ProcOf[o], cand[o], ModelFor[o])
    BY <1>1, <1>3 DEF Tracked
  <2>3. x \in renewing /\ renewCtx[x] = o /\ lease[x] > 0
    BY <2>1, <2>2 DEF KeptAlive
  <2>4. lease[x] = LeaseTTL /\ x \in Reservations
    BY <2>3, ConductorAssumption DEF Tick, RenewalsKeepUp, Types, RedisTypes
  <2>5. lease'[x] = LeaseTTL - 1
    BY <1>1, <2>4, ConductorAssumption DEF Redis!Elapse
  <2> QED BY <1>1, <2>3, <2>5, ConductorAssumption
<1> QED BY <1>1, <1>2, <1>3 DEF KeptAlive

\* Clients, renewals, operators, expiry and crashes.
LEMMA KeptAliveOther ==
  ASSUME ConductorInv, KeptAlive,
         \/ \E q \in Requests : Disconnect(q)
         \/ \E r \in Reservations : Renew(r) \/ RenewGone(r) \/ RenewCancelled(r)
         \/ \E p \in Procs, c \in Creds : Disable(p, c) \/ Enable(p, c)
         \/ \E c \in Creds : EnableRedis(c)
         \/ \E s \in Sessions : BindingExpires(s)
         \/ \E p \in Procs : Crash(p)
         \/ UNCHANGED vars
  PROVE  KeptAlive'
<1> USE DEF ConductorInv
<1>1. ASSUME UNCHANGED <<lease, modelOf, renewing, pc, cand, res, ctxDone, tracker, renewCtx>>
      PROVE  KeptAlive'
  BY <1>1 DEF KeptAlive, Tracked
<1>2. ASSUME NEW q \in Requests, Disconnect(q) PROVE KeptAlive'
  <2>1. /\ UNCHANGED <<lease, modelOf, renewing, pc, cand, res, tracker>>
        /\ ctxDone' = ctxDone \cup {q}
        /\ renewCtx' = EndContext(q)
    BY <1>2 DEF Disconnect, redisVars
  <2>2. ASSUME NEW o \in Requests, pc'[o] \in Serving, o \notin ctxDone',
               NEW x \in Tracked(ProcOf[o], cand[o], ModelFor[o])'
        PROVE  x \in renewing' /\ renewCtx'[x] = o /\ lease'[x] > 0
    <3>1. pc[o] \in Serving /\ o \notin ctxDone /\ o # q
      BY <2>1, <2>2
    <3>2. x \in Tracked(ProcOf[o], cand[o], ModelFor[o])
      BY <2>1, <2>2 DEF Tracked
    <3>3. x \in renewing /\ renewCtx[x] = o /\ lease[x] > 0
      BY <3>1, <3>2 DEF KeptAlive
    <3>4. x \in Reservations
      BY <3>3 DEF Types, RedisTypes
    <3> QED BY <2>1, <3>1, <3>3, <3>4 DEF EndContext
  <2> QED BY <2>1, <2>2 DEF KeptAlive
<1>3. ASSUME NEW r \in Reservations, Renew(r) \/ RenewGone(r) \/ RenewCancelled(r)
      PROVE  KeptAlive'
  <2>1. UNCHANGED <<modelOf, pc, cand, res, ctxDone, tracker, renewCtx>>
    BY <1>3 DEF Renew, RenewGone, RenewCancelled, Redis!Extend, Redis!ExtendGone,
       Redis!StopRenewal, Redis!leaseVars, KeepAllButRedis, requestVars, processVars
  <2>2. lease' = lease \/ lease' = [lease EXCEPT ![r] = LeaseTTL]
    BY <1>3 DEF Renew, RenewGone, RenewCancelled, Redis!Extend, Redis!ExtendScript,
       Redis!ExtendGone, Redis!StopRenewal, Redis!leaseVars
  <2>3. \A x \in Reservations : lease[x] > 0 => lease'[x] > 0
    BY <2>2, ConductorAssumption DEF Types, RedisTypes
  <2>4. \A x \in renewing : renewCtx[x] # None /\ lease[x] > 0 => x \in renewing'
    BY <1>3 DEF Renew, RenewGone, RenewCancelled, Redis!Extend, Redis!ExtendGone,
       Redis!StopRenewal, Redis!Live
  <2>5. ASSUME NEW o \in Requests, pc'[o] = "accepted" PROVE lease'[res'[o]] > 0
    <3>1. pc[o] = "accepted" /\ res'[o] = res[o] /\ o \in Carried
      BY <2>1, <2>5 DEF Carried
    <3>2. res[o] \in Reservations /\ lease[res[o]] > 0
      BY <3>1 DEF KeptAlive, Holdings, Types, RedisTypes
    <3> QED BY <2>3, <3>1, <3>2
  <2>6. ASSUME NEW o \in Requests, pc'[o] \in Serving, o \notin ctxDone',
               NEW x \in Tracked(ProcOf[o], cand[o], ModelFor[o])'
        PROVE  x \in renewing' /\ renewCtx'[x] = o /\ lease'[x] > 0
    <3>1. x \in Tracked(ProcOf[o], cand[o], ModelFor[o]) /\ pc[o] \in Serving /\ o \notin ctxDone
      BY <2>1, <2>6 DEF Tracked
    <3>2. x \in renewing /\ renewCtx[x] = o /\ lease[x] > 0
      BY <3>1 DEF KeptAlive
    <3>3. x \in Reservations /\ o # None
      BY <3>2, ConductorAssumption DEF Types, RedisTypes
    <3> QED BY <2>1, <2>3, <2>4, <3>2, <3>3
  <2> QED BY <2>5, <2>6 DEF KeptAlive
<1>4. ASSUME NEW p \in Procs, NEW c \in Creds, Disable(p, c) \/ Enable(p, c) PROVE KeptAlive'
  BY <1>1, <1>4 DEF Disable, Enable, redisVars, requestVars
<1>5. ASSUME NEW c \in Creds, EnableRedis(c) PROVE KeptAlive'
  <2>1. UNCHANGED <<pc, cand, res, ctxDone, tracker, renewCtx>>
    BY <1>5 DEF EnableRedis, requestVars
  <2>2. UNCHANGED <<lease, modelOf, renewing>>
    BY <1>5 DEF EnableRedis, Redis!ClearCooldown, Redis!leaseVars, redisVars
  <2> QED BY <1>1, <2>1, <2>2
<1>6. ASSUME NEW s \in Sessions, BindingExpires(s) PROVE KeptAlive'
  BY <1>1, <1>6 DEF BindingExpires, redisVars, requestVars
<1>7. ASSUME NEW p \in Procs, Crash(p) PROVE KeptAlive'
  <2>1. /\ \A q \in Requests : ProcOf[q] = p => pc'[q] = "idle"
        /\ \A q \in Requests : ProcOf[q] # p =>
             pc'[q] = pc[q] /\ cand'[q] = cand[q] /\ res'[q] = res[q]
        /\ \A q \in Requests : ProcOf[q] # p => (q \in ctxDone' <=> q \in ctxDone)
    BY <1>7 DEF Crash
  <2>2. /\ renewCtx' = [r \in Reservations |-> IF r \in IdsOf[p] THEN None ELSE renewCtx[r]]
        /\ tracker' = [tracker EXCEPT ![p] = [c \in Creds |-> <<>>]]
    BY <1>7 DEF Crash
  <2>3. /\ renewing' = renewing \ IdsOf[p]
        /\ UNCHANGED <<lease, modelOf>>
    BY <1>7 DEF Crash, Redis!Crash, Redis!leaseVars
  <2>4. ASSUME NEW o \in Requests, pc'[o] = "accepted" PROVE lease'[res'[o]] > 0
    BY <2>1, <2>3, <2>4 DEF KeptAlive
  <2>5. ASSUME NEW o \in Requests, pc'[o] \in Serving, o \notin ctxDone',
               NEW x \in Tracked(ProcOf[o], cand[o], ModelFor[o])'
        PROVE  x \in renewing' /\ renewCtx'[x] = o /\ lease'[x] > 0
    <3>1. /\ ProcOf[o] # p /\ ProcOf[o] \in Procs
          /\ pc[o] \in Serving /\ cand'[o] = cand[o] /\ o \notin ctxDone
      BY <2>1, <2>5, ConductorAssumption DEF Serving
    <3>2. cand[o] \in Creds
      BY <3>1 DEF Types, CandKnown
    <3>3. tracker'[ProcOf[o]][cand[o]] = tracker[ProcOf[o]][cand[o]]
      BY <2>2, <3>1 DEF Types, ProcessTypes
    <3>4. x \in Tracked(ProcOf[o], cand[o], ModelFor[o])
      BY <2>3, <2>5, <3>1, <3>3 DEF Tracked
    <3>5. x \in renewing /\ renewCtx[x] = o /\ lease[x] > 0
      BY <3>1, <3>4 DEF KeptAlive
    <3>6. x \in Reservations /\ x \in IdsOf[ProcOf[o]]
      BY <3>1, <3>2, <3>4, ConductorAssumption DEF Tracked, Holdings
    <3>7. x \notin IdsOf[p]
      BY <3>1, <3>6, ConductorAssumption
    <3> QED BY <2>2, <2>3, <3>5, <3>6, <3>7
  <2> QED BY <2>4, <2>5 DEF KeptAlive
<1>8. CASE UNCHANGED vars
  BY <1>1, <1>8 DEF vars, redisVars, requestVars, processVars
<1> QED BY <1>2, <1>3, <1>4, <1>5, <1>6, <1>7, <1>8

\* Every running request has a live lease of its own on its account.
LEMMA KeptAliveCounts ==
  ASSUME ConductorInv, KeptAlive
  PROVE  LongRequestKeepsLease
<1> USE DEF ConductorInv
<1> SUFFICES ASSUME NEW c \in Creds
             PROVE  Cardinality({q \in Requests :
                                   pc[q] \in Serving /\ cand[q] = c /\ q \notin ctxDone})
                      <= Cardinality(Redis!LiveOn(c))
  BY DEF LongRequestKeepsLease
<1> DEFINE Running == {q \in Requests : pc[q] \in Serving /\ cand[q] = c /\ q \notin ctxDone}
           Own(q) == {r \in Redis!LiveOn(c) : renewCtx[r] = q}
           f == [q \in Running |-> CHOOSE r \in Redis!LiveOn(c) : renewCtx[r] = q]
<1>1. IsFiniteSet(Redis!LiveOn(c))
  <2>1. Redis!LiveOn(c) \subseteq Reservations
    BY DEF Redis!LiveOn
  <2> QED BY <2>1, FS_Subset, ConductorAssumption
<1>2. ASSUME NEW q \in Running PROVE \E r \in Redis!LiveOn(c) : renewCtx[r] = q
  <2> DEFINE T == Tracked(ProcOf[q], c, ModelFor[q])
             V == ServedBy(ProcOf[q], c, ModelFor[q])
  <2>1. q \in Requests /\ pc[q] \in Serving /\ cand[q] = c /\ q \notin ctxDone
    BY <1>2
  <2>2. ProcOf[q] \in Procs /\ ModelFor[q] \in Models /\ q \in V
    BY <2>1, ConductorAssumption DEF ServedBy
  <2>3. Cardinality(T) = Cardinality(V) /\ IsFiniteSet(T) /\ IsFiniteSet(V)
    BY <2>2, SlotsFinite DEF SlotsCounted
  <2>4. T # {}
    <3> HIDE DEF T, V
    <3> QED BY <2>2, <2>3, FS_EmptySet
  <2>5. PICK r \in T : TRUE
    BY <2>4
  <2>6. lease[r] > 0 /\ renewCtx[r] = q
    BY <2>1, <2>5 DEF KeptAlive
  <2>7. r \in Reservations /\ credOf[r] = c
    BY <2>2, <2>5 DEF Tracked, Holdings, Types, RedisTypes
  <2> QED BY <2>6, <2>7 DEF Redis!LiveOn, Redis!Live
<1>3. \A q \in Running : f[q] \in Redis!LiveOn(c) /\ renewCtx[f[q]] = q
  BY <1>2
<1>4. f \in Injection(Running, Redis!LiveOn(c))
  <2>1. f \in [Running -> Redis!LiveOn(c)]
    BY <1>3
  <2>2. \A q, o \in Running : f[q] = f[o] => q = o
    <3> HIDE DEF f
    <3> QED BY <1>3
  <2> HIDE DEF f
  <2> QED BY <2>1, <2>2 DEF Injection, IsInjective
<1> HIDE DEF Running, f
<1>5. Cardinality(Running) <= Cardinality(Redis!LiveOn(c))
  BY <1>1, <1>4, FS_Injection
<1> QED BY <1>5 DEF Running

\* The renewal keeps the lease of a long request alive for as long as the
\* request runs and its client is there, provided that a process does not serve
\* two requests of one model at a time: only the exchange of reservations that
\* pop allows then breaks the promise.
THEOREM LongRequestsRenewed ==
  ASSUME NoSwaps, LeaseTTL > 1
  PROVE  Spec => []LongRequestKeepsLease
<1>1. Init => KeptAlive
  BY DEF Init, KeptAlive, Serving
<1>2. ConductorInv /\ KeptAlive /\ [Next]_vars => KeptAlive'
  <2> SUFFICES ASSUME ConductorInv, KeptAlive, [Next]_vars PROVE KeptAlive'
    OBVIOUS
  <2>1. ASSUME NEW q \in Requests, RequestStep(q) PROVE KeptAlive'
    BY <2>1, KeptAliveQuiet, KeptAliveAccepted, KeptAliveTrack, KeptAlivePop
  <2>2. \/ \E q \in Requests : RequestStep(q)
        \/ Tick
        \/ \E q \in Requests : Disconnect(q)
        \/ \E r \in Reservations : Renew(r) \/ RenewGone(r) \/ RenewCancelled(r)
        \/ \E p \in Procs, c \in Creds : Disable(p, c) \/ Enable(p, c)
        \/ \E c \in Creds : EnableRedis(c)
        \/ \E s \in Sessions : BindingExpires(s)
        \/ \E p \in Procs : Crash(p)
        \/ UNCHANGED vars
    BY DEF Next
  <2> QED BY <2>1, <2>2, KeptAliveTick, KeptAliveOther
<1>3. ConductorInv /\ KeptAlive => LongRequestKeepsLease
  BY KeptAliveCounts
<1> QED BY <1>1, <1>2, <1>3, ConductorInvariant, PTL DEF Spec
============================================================================
