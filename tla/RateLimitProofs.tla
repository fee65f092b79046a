-------------------------- MODULE RateLimitProofs ---------------------------
(***************************************************************************)
(* The concurrency bound of both limiters, and that they implement         *)
(* Allowance, for any limits, costs, windows and delays and any number of  *)
(* requests.                                                               *)
(***************************************************************************)
EXTENDS RateLimit, FiniteSetTheorems, TLAPS

Served == {r \in Requests : pc[r] = "served"}

\* A Gateway with the in-memory limiter has no request at a Redis step.
OwnSteps == backend = "memory" => \A r \in Requests : pc[r] \in {"idle", "served"}

\* The shared limiter never holds more leases than the tenant may run.
LeasesBounded == Cardinality(leases) <= MaxConcurrent

\* The inductive invariant.
LimitInv == TypeOK /\ OwnSteps /\ InflightExact /\ LeasesBounded

-----------------------------------------------------------------------------
(* Lemmas.                                                                 *)

LEMMA RateIsNat ==
  \A d \in Dims : Rate(d) \in Nat /\ Cap(d) \in Nat
<1>1. RequestsPerMinute * Minute \in Nat /\ TokensPerMinute * Minute \in Nat
  BY ConstantsAssumption
<1> QED BY <1>1, ConstantsAssumption DEF Dims, Rate, Cap

\* A bucket holds a number of parts, never more than its capacity.
LEMMA RefilledBound ==
  ASSUME TypeOK, NEW d \in Dims, NEW e \in Int
  PROVE  Refilled(d, e) \in Int /\ Refilled(d, e) <= Cap(d)
<1>1. Rate(d) \in Nat /\ Cap(d) \in Nat BY RateIsNat
<1>2. bal[d] \in Int /\ bal[d] <= Cap(d) BY DEF TypeOK
<1>3. Rate(d) * e \in Int BY <1>1
<1> QED BY <1>1, <1>2, <1>3 DEF Refilled, Min2

LEMMA ReadBound ==
  ASSUME TypeOK, NEW d \in Dims, NEW s \in Nat
  PROVE  ReadBucket(d, s) \in Int /\ ReadBucket(d, s) <= Cap(d)
<1>1. last[d] - s \in Int BY DEF TypeOK
<1>2. Cap(d) \in Nat BY RateIsNat
<1> QED BY <1>1, <1>2, RefilledBound DEF ReadBucket

\* An age grows up to the largest that is told apart.
LEMMA OlderBound ==
  \A n \in 0..MaxAge : Older(n) \in 0..MaxAge
BY ConstantsAssumption DEF Older, Min2

\* The requests served, when one more is or one less.
LEMMA ServedCount ==
  ASSUME pc \in [Requests -> {"idle", "stamped", "served", "releasing", "unleased", "dead"}],
         NEW r \in Requests
  PROVE  /\ Cardinality(Served) \in Nat
         /\ pc[r] # "served" /\ pc' = [pc EXCEPT ![r] = "served"] =>
              Cardinality(Served') = Cardinality(Served) + 1
         /\ pc[r] = "served" /\ pc' = [pc EXCEPT ![r] = "idle"] =>
              Cardinality(Served') = Cardinality(Served) - 1 /\ Cardinality(Served) > 0
<1>1. IsFiniteSet(Served)
  BY ConstantsAssumption, FS_Subset, Served \subseteq Requests DEF Served
<1>2. Cardinality(Served) \in Nat BY <1>1, FS_CardinalityType
<1>3. ASSUME pc[r] # "served", pc' = [pc EXCEPT ![r] = "served"]
      PROVE  Cardinality(Served') = Cardinality(Served) + 1
  <2>1. Served' = Served \cup {r} /\ r \notin Served BY <1>3 DEF Served
  <2> QED BY <1>1, <2>1, FS_AddElement
<1>4. ASSUME pc[r] = "served", pc' = [pc EXCEPT ![r] = "idle"]
      PROVE  Cardinality(Served') = Cardinality(Served) - 1 /\ Cardinality(Served) > 0
  <2>1. Served' = Served \ {r} /\ r \in Served BY <1>4 DEF Served
  <2>2. Cardinality(Served \ {r}) = Cardinality(Served) - 1
    BY <1>1, <2>1, FS_RemoveElement
  <2>3. Cardinality(Served) # 0 BY <1>1, <2>1, FS_EmptySet
  <2> QED BY <1>2, <2>1, <2>2, <2>3
<1> QED BY <1>2, <1>3, <1>4

\* Dropping leases, and adding one to fewer than the limit.
LEMMA LeaseCount ==
  ASSUME leases \in SUBSET Requests, LeasesBounded, NEW S, S \subseteq leases,
         NEW r \in Requests
  PROVE  /\ Cardinality(S) <= MaxConcurrent
         /\ Below(Cardinality(S)) => Cardinality(S \cup {r}) <= MaxConcurrent
<1>1. IsFiniteSet(leases) BY ConstantsAssumption, FS_Subset
<1>2. IsFiniteSet(S) /\ Cardinality(S) <= Cardinality(leases)
  BY <1>1, FS_Subset
<1>3. Cardinality(S) \in Nat /\ Cardinality(leases) \in Nat
  BY <1>1, <1>2, FS_CardinalityType
<1>4. Cardinality(S \cup {r}) \in {Cardinality(S), Cardinality(S) + 1}
  BY <1>2, FS_AddElement
<1> QED BY <1>2, <1>3, <1>4, ConstantsAssumption DEF LeasesBounded, Below

-----------------------------------------------------------------------------
(* The steps.                                                              *)

LEMMA InitHolds == Init => LimitInv
<1> SUFFICES ASSUME Init PROVE LimitInv OBVIOUS
<1>1. TypeOK
  <2>1. \A d \in Dims : Cap(d) \in Nat BY RateIsNat
  <2>2. bal \in [Dims -> Int] /\ \A d \in Dims : bal[d] <= Cap(d) BY <2>1 DEF Init
  <2>3. written \in [Dims -> 0..MaxAge] BY ConstantsAssumption DEF Init
  <2> QED BY <2>2, <2>3, ConstantsAssumption DEF Init, TypeOK
<1>2. OwnSteps BY DEF Init, OwnSteps
<1>3. Cardinality({}) = 0 BY FS_EmptySet
<1>4. InflightExact
  <2>1. {r \in Requests : pc[r] = "served"} = {} BY DEF Init
  <2> QED BY <1>3, <2>1 DEF Init, InflightExact
<1>5. LeasesBounded BY <1>3, ConstantsAssumption DEF Init, LeasesBounded
<1> QED BY <1>1, <1>2, <1>4, <1>5 DEF LimitInv

\* The in-memory limiter admits or refuses.
LEMMA MemoryAcquireKeeps ==
  ASSUME LimitInv, NEW r \in Requests, MemoryAcquire(r)
  PROVE  LimitInv'
<1>1. TypeOK /\ OwnSteps /\ InflightExact /\ LeasesBounded BY DEF LimitInv
<1>2. /\ backend = "memory" /\ pc[r] = "idle"
      /\ UNCHANGED <<backend, written, leases, leaseAge, stamp>>
  BY DEF MemoryAcquire
<1> DEFINE have(d) == IF Sweepable THEN Cap(d) ELSE Refilled(d, last[d])
           count == IF Sweepable THEN 0 ELSE inflight
<1>3. count = inflight BY DEF Sweepable
<1>4. \A d \in Dims : have(d) \in Int /\ have(d) <= Cap(d)
  <2> TAKE d \in Dims
  <2>1. last[d] \in Int BY <1>1 DEF TypeOK
  <2>2. Cap(d) \in Nat BY RateIsNat
  <2> QED BY <1>1, <2>1, <2>2, RefilledBound
<1>5. bal' \in [Dims -> Int] /\ \A d \in Dims : bal'[d] <= Cap(d)
  <2>1. bal' = [bal EXCEPT !["req"] = IF have("req") >= Minute THEN have("req") - Minute
                                      ELSE have("req"),
                           !["tok"] = have("tok")]
    BY DEF MemoryAcquire
  <2>2. \A d \in Dims : Cap(d) \in Nat BY RateIsNat
  <2> HIDE DEF have
  <2> QED BY <1>1, <1>4, <2>1, <2>2, ConstantsAssumption DEF TypeOK, Dims
<1>6. last' \in [Dims -> 0..MaxAge] /\ idle' \in 0..MaxAge
  BY ConstantsAssumption DEF MemoryAcquire
<1>7. \/ /\ inflight < MaxConcurrent /\ inflight' = inflight + 1
         /\ pc' = [pc EXCEPT ![r] = "served"]
      \/ inflight' = inflight /\ pc' = pc
  BY <1>3 DEF MemoryAcquire, Below, Go
<1>8. inflight' \in 0..MaxConcurrent /\ InflightExact'
  <2>1. /\ inflight = Cardinality(Served) /\ inflight \in 0..MaxConcurrent
        /\ pc \in [Requests -> {"idle", "stamped", "served", "releasing", "unleased", "dead"}]
    BY <1>1, <1>2 DEF InflightExact, Served, TypeOK
  <2>2. inflight' = Cardinality(Served')
    <3>1. CASE inflight' = inflight /\ pc' = pc BY <2>1, <3>1 DEF Served
    <3>2. CASE inflight' = inflight + 1 /\ pc' = [pc EXCEPT ![r] = "served"]
      BY <1>2, <2>1, <3>2, ServedCount
    <3> QED BY <1>7, <3>1, <3>2
  <2> QED BY <1>7, <2>1, <2>2, ConstantsAssumption DEF InflightExact, Served
<1>9. TypeOK' /\ OwnSteps'
  BY <1>1, <1>2, <1>5, <1>6, <1>7, <1>8 DEF TypeOK, OwnSteps
<1> QED BY <1>1, <1>2, <1>8, <1>9 DEF LimitInv, LeasesBounded

\* A request served by it ends.
LEMMA MemoryReleaseKeeps ==
  ASSUME LimitInv, NEW r \in Requests, NEW cost \in Costs, MemoryRelease(r, cost)
  PROVE  LimitInv'
<1>1. TypeOK /\ OwnSteps /\ InflightExact /\ LeasesBounded BY DEF LimitInv
<1>2. /\ backend = "memory" /\ pc[r] = "served" /\ pc' = [pc EXCEPT ![r] = "idle"]
      /\ UNCHANGED <<backend, written, leases, leaseAge, stamp>>
  BY DEF MemoryRelease, Go
<1>3. bal' \in [Dims -> Int] /\ \A d \in Dims : bal'[d] <= Cap(d)
  <2>1. cost * Minute \in Nat BY ConstantsAssumption
  <2>2. last["tok"] \in Int BY <1>1 DEF TypeOK, Dims
  <2>3. /\ Refilled("tok", last["tok"]) \in Int
        /\ Refilled("tok", last["tok"]) <= Cap("tok")
    BY <1>1, <2>2, RefilledBound DEF Dims
  <2>4. bal' = [bal EXCEPT !["tok"] =
                  IF cost > 0 THEN Refilled("tok", last["tok"]) - cost * Minute ELSE @]
    BY DEF MemoryRelease
  <2>5. \A d \in Dims : Cap(d) \in Nat BY RateIsNat
  <2> QED BY <1>1, <2>1, <2>3, <2>4, <2>5 DEF TypeOK, Dims
<1>4. last' \in [Dims -> 0..MaxAge] /\ idle' \in 0..MaxAge
  <2>1. last' = [last EXCEPT !["tok"] = IF cost > 0 THEN 0 ELSE @] /\ idle' = 0
    BY DEF MemoryRelease
  <2>2. last \in [Dims -> 0..MaxAge] /\ 0 \in 0..MaxAge BY <1>1, ConstantsAssumption DEF TypeOK
  <2>3. CASE cost > 0
    <3>1. last' = [last EXCEPT !["tok"] = 0] BY <2>1, <2>3
    <3> QED BY <2>1, <2>2, <3>1
  <2>4. CASE ~(cost > 0)
    <3>1. last' = last BY <2>1, <2>2, <2>4
    <3> QED BY <2>1, <2>2, <3>1
  <2> QED BY <2>3, <2>4
<1>5. inflight' \in 0..MaxConcurrent /\ InflightExact'
  <2>1. /\ inflight = Cardinality(Served) /\ inflight \in 0..MaxConcurrent
        /\ pc \in [Requests -> {"idle", "stamped", "served", "releasing", "unleased", "dead"}]
    BY <1>1, <1>2 DEF InflightExact, Served, TypeOK
  <2>2. Cardinality(Served') = inflight - 1 /\ inflight > 0
    BY <1>2, <2>1, ServedCount
  <2>3. inflight' = inflight - 1 BY <2>2 DEF MemoryRelease
  <2> QED BY <2>1, <2>2, <2>3, ConstantsAssumption DEF InflightExact, Served
<1>6. TypeOK' /\ OwnSteps'
  BY <1>1, <1>2, <1>3, <1>4, <1>5 DEF TypeOK, OwnSteps
<1> QED BY <1>1, <1>2, <1>5, <1>6 DEF LimitInv, LeasesBounded

\* Redis.Acquire reads its clock, and its script runs or does not.
LEMMA StampKeeps ==
  ASSUME LimitInv, NEW r \in Requests, Stamp(r)
  PROVE  LimitInv'
<1>1. TypeOK /\ OwnSteps /\ InflightExact /\ LeasesBounded BY DEF LimitInv
<1>2. TypeOK' BY <1>1, ConstantsAssumption DEF TypeOK, Stamp, Go, buckets, holds
<1> QED BY <1>1, <1>2 DEF LimitInv, OwnSteps, InflightExact, LeasesBounded, Stamp, holds

LEMMA UnavailableKeeps ==
  ASSUME LimitInv, NEW r \in Requests, Unavailable(r)
  PROVE  LimitInv'
<1>1. TypeOK /\ OwnSteps /\ InflightExact /\ LeasesBounded BY DEF LimitInv
<1>2. backend = "redis" BY <1>1 DEF OwnSteps, Unavailable, TypeOK
<1>3. TypeOK' BY <1>1, ConstantsAssumption DEF TypeOK, Unavailable, Go, buckets, holds
<1> QED BY <1>1, <1>2, <1>3 DEF LimitInv, OwnSteps, InflightExact, LeasesBounded,
                                Unavailable, holds

LEMMA WriteBucketsKeeps ==
  ASSUME TypeOK, NEW D \in SUBSET Dims, NEW value, NEW s \in 0..MaxAge,
         WriteBuckets(D, value, s),
         \A d \in D : value[d] \in Int /\ value[d] <= Cap(d)
  PROVE  /\ bal' \in [Dims -> Int] /\ \A d \in Dims : bal'[d] <= Cap(d)
         /\ last' \in [Dims -> 0..MaxAge] /\ written' \in [Dims -> 0..MaxAge]
BY ConstantsAssumption DEF TypeOK, WriteBuckets

\* acquireScript.
LEMMA RedisAcquireKeeps ==
  ASSUME LimitInv, NEW r \in Requests, RedisAcquire(r)
  PROVE  LimitInv'
<1>1. TypeOK /\ OwnSteps /\ InflightExact /\ LeasesBounded BY DEF LimitInv
<1>2. /\ pc[r] = "stamped" /\ stamp[r] \in 0..MaxDelay
      /\ stamp' = [stamp EXCEPT ![r] = 0] /\ UNCHANGED <<backend, idle, inflight>>
  BY <1>1 DEF RedisAcquire, TypeOK
<1>3. backend = "redis" BY <1>1, <1>2 DEF OwnSteps, TypeOK
<1>4. /\ stamp[r] \in 0..MaxAge /\ stamp[r] \in Nat
      /\ stamp' \in [Requests -> 0..MaxDelay + 1]
  BY <1>1, <1>2, ConstantsAssumption DEF TypeOK
<1> DEFINE s == stamp[r]
           have == [d \in Dims |-> ReadBucket(d, s)]
           left == [have EXCEPT !["req"] = @ - Minute]
<1>5. Live(s) \subseteq leases BY DEF Live
<1>6. leases \in SUBSET Requests BY <1>1 DEF TypeOK
<1>7. CASE /\ Below(Cardinality(Live(s)))
           /\ WriteBuckets(Dims, left, s)
           /\ leases' = Live(s) \cup {r}
           /\ leaseAge' = [leaseAge EXCEPT ![r] = s]
           /\ Go(r, "served")
  <2>1. \A d \in Dims : ReadBucket(d, s) \in Int /\ ReadBucket(d, s) <= Cap(d)
    BY <1>1, <1>4, ReadBound
  <2>2. \A d \in Dims : left[d] \in Int /\ left[d] <= Cap(d)
    BY <2>1, RateIsNat, ConstantsAssumption DEF Dims
  <2> HIDE DEF left, s
  <2>3. /\ bal' \in [Dims -> Int] /\ \A d \in Dims : bal'[d] <= Cap(d)
        /\ last' \in [Dims -> 0..MaxAge] /\ written' \in [Dims -> 0..MaxAge]
    BY <1>1, <1>4, <1>7, <2>2, WriteBucketsKeeps DEF s
  <2>4. leases' \in SUBSET Requests /\ LeasesBounded'
    BY <1>1, <1>5, <1>6, <1>7, LeaseCount DEF LeasesBounded
  <2>5. TypeOK' BY <1>1, <1>2, <1>4, <1>7, <2>3, <2>4 DEF TypeOK, Go, s
  <2> QED BY <1>2, <1>3, <2>4, <2>5 DEF LimitInv, OwnSteps, InflightExact
<1>8. CASE /\ leases' \in {leases, Live(s)}
           /\ Go(r, "idle")
           /\ UNCHANGED <<buckets, leaseAge>>
  <2>1. leases' \subseteq leases BY <1>5, <1>8
  <2>2. LeasesBounded' BY <1>1, <1>6, <2>1, LeaseCount DEF LeasesBounded
  <2>3. TypeOK' BY <1>1, <1>2, <1>4, <1>6, <1>8, <2>1 DEF TypeOK, Go, buckets
  <2> QED BY <1>2, <1>3, <2>2, <2>3 DEF LimitInv, OwnSteps, InflightExact
<1> QED BY <1>7, <1>8 DEF RedisAcquire

\* releaseScript.
LEMMA RedisReleaseKeeps ==
  ASSUME LimitInv, NEW r \in Requests, NEW cost \in Costs, RedisRelease(r, cost)
  PROVE  LimitInv'
<1>1. TypeOK /\ OwnSteps /\ InflightExact /\ LeasesBounded BY DEF LimitInv
<1> DEFINE s    == stamp[r]
           left == [d \in Dims |-> ReadBucket(d, s) - cost * Minute]
           D    == IF cost > 0 THEN {"tok"} ELSE {}
<1>2. /\ pc[r] = "releasing" /\ leases' = leases \ {r} /\ WriteBuckets(D, left, s)
      /\ pc' = [pc EXCEPT ![r] = "idle"] /\ leaseAge' = [leaseAge EXCEPT ![r] = 0]
      /\ stamp' = [stamp EXCEPT ![r] = 0] /\ s <= MaxDelay
      /\ UNCHANGED <<backend, idle, inflight>>
  BY DEF RedisRelease, Go
<1>a. backend = "redis" BY <1>1, <1>2 DEF OwnSteps, TypeOK
<1>b. s \in Nat /\ s \in 0..MaxAge /\ stamp' \in [Requests -> 0..MaxDelay + 1]
  BY <1>1, <1>2, ConstantsAssumption DEF TypeOK
<1>3. \A d \in Dims : left[d] \in Int /\ left[d] <= Cap(d)
  <2>1. \A d \in Dims : ReadBucket(d, s) \in Int /\ ReadBucket(d, s) <= Cap(d)
    BY <1>1, <1>b, ReadBound
  <2>2. cost * Minute \in Nat BY ConstantsAssumption
  <2> HIDE DEF s
  <2> QED BY <2>1, <2>2, RateIsNat
<1>4. D \in SUBSET Dims BY DEF Dims
<1> HIDE DEF left, D, s
<1>5. /\ bal' \in [Dims -> Int] /\ \A d \in Dims : bal'[d] <= Cap(d)
      /\ last' \in [Dims -> 0..MaxAge] /\ written' \in [Dims -> 0..MaxAge]
  <2>1. \A d \in D : left[d] \in Int /\ left[d] <= Cap(d) BY <1>3, <1>4
  <2> QED BY <1>1, <1>2, <1>4, <1>b, <2>1, WriteBucketsKeeps
<1>6. leases \in SUBSET Requests /\ leases' \subseteq leases BY <1>1, <1>2 DEF TypeOK
<1>7. LeasesBounded' BY <1>1, <1>6, LeaseCount DEF LeasesBounded
<1>8. TypeOK' BY <1>1, <1>2, <1>5, <1>6, <1>b, ConstantsAssumption DEF TypeOK
<1> QED BY <1>2, <1>7, <1>8, <1>a DEF LimitInv, OwnSteps, InflightExact

LEMMA StampReleaseKeeps ==
  ASSUME LimitInv, NEW r \in Requests, StampRelease(r)
  PROVE  LimitInv'
<1>1. TypeOK /\ OwnSteps /\ InflightExact /\ LeasesBounded BY DEF LimitInv
<1>2. TypeOK' BY <1>1, ConstantsAssumption DEF TypeOK, StampRelease, Go, buckets, holds
<1> QED BY <1>1, <1>2 DEF LimitInv, OwnSteps, InflightExact, LeasesBounded, StampRelease, holds

LEMMA DieKeeps ==
  ASSUME LimitInv, NEW r \in Requests, Die(r)
  PROVE  LimitInv'
<1>1. TypeOK /\ OwnSteps /\ InflightExact /\ LeasesBounded BY DEF LimitInv
<1>2. TypeOK' BY <1>1, ConstantsAssumption DEF TypeOK, Die, Go, buckets, holds
<1> QED BY <1>1, <1>2 DEF LimitInv, OwnSteps, InflightExact, LeasesBounded, Die, holds

LEMMA LeaveKeeps ==
  ASSUME LimitInv, NEW r \in Requests, Leave(r)
  PROVE  LimitInv'
<1>1. TypeOK /\ OwnSteps /\ InflightExact /\ LeasesBounded BY DEF LimitInv
<1>2. backend = "redis" BY <1>1 DEF OwnSteps, Leave, TypeOK
<1>3. leases \in SUBSET Requests /\ leases' \subseteq leases BY <1>1 DEF TypeOK, Leave
<1>4. LeasesBounded' BY <1>1, <1>3, LeaseCount DEF LeasesBounded
<1>5. TypeOK' BY <1>1, <1>3, ConstantsAssumption DEF TypeOK, Leave, Go, buckets
<1> QED BY <1>2, <1>4, <1>5 DEF LimitInv, OwnSteps, InflightExact, Leave

LEMMA TickKeeps ==
  ASSUME LimitInv, Tick PROVE LimitInv'
<1>1. TypeOK /\ OwnSteps /\ InflightExact /\ LeasesBounded BY DEF LimitInv
<1>2. UNCHANGED <<backend, inflight, leases, pc>> BY DEF Tick
<1>a. bal' \in [Dims -> Int] /\ \A d \in Dims : bal'[d] <= Cap(d)
  BY <1>1, RateIsNat DEF Tick, TypeOK, Min2
<1>3. last' \in [Dims -> 0..MaxAge] /\ idle' \in 0..MaxAge
  BY <1>1, OlderBound DEF TypeOK, Tick
<1>4. written' \in [Dims -> 0..MaxAge]
  BY <1>1, OlderBound DEF TypeOK, Tick
<1>5. leaseAge' \in [Requests -> 0..MaxAge]
  BY <1>1, OlderBound, ConstantsAssumption DEF TypeOK, Tick
<1>6. stamp' \in [Requests -> 0..MaxDelay + 1]
  BY <1>1, ConstantsAssumption DEF TypeOK, Tick, Min2
<1>7. TypeOK' BY <1>1, <1>2, <1>3, <1>4, <1>5, <1>6, <1>a DEF TypeOK
<1> QED BY <1>1, <1>2, <1>7 DEF LimitInv, OwnSteps, InflightExact, LeasesBounded

LEMMA StutterKeeps ==
  ASSUME LimitInv, UNCHANGED vars PROVE LimitInv'
BY DEF LimitInv, TypeOK, OwnSteps, InflightExact, LeasesBounded, vars, buckets, holds

\* Every step of the specification keeps the invariant.
LEMMA StepKeeps == LimitInv /\ [Next]_vars => LimitInv'
BY MemoryAcquireKeeps, MemoryReleaseKeeps, StampKeeps, RedisAcquireKeeps, UnavailableKeeps,
   StampReleaseKeeps, RedisReleaseKeeps, DieKeeps, LeaveKeeps, TickKeeps, StutterKeeps
DEF Next

-----------------------------------------------------------------------------
(* The theorems.                                                           *)

\* The invariant holds in every reachable state.
THEOREM LimitInvAlways == Spec => []LimitInv
BY InitHolds, StepKeeps, PTL DEF Spec

\* Balances stay within their capacity, and the in-memory limiter admits no
\* more requests at once than the tenant may run (Memory.Acquire).
THEOREM TypeCorrect == Spec => []TypeOK
<1>1. LimitInv => TypeOK BY DEF LimitInv
<1> QED BY <1>1, LimitInvAlways, PTL

\* The in-memory counter is the number of requests being served
\* (Memory.Acquire, memoryLease.Release, sweepLocked).
THEOREM InflightExactHolds == Spec => []InflightExact
<1>1. LimitInv => InflightExact BY DEF LimitInv
<1> QED BY <1>1, LimitInvAlways, PTL

\* The shared limiter's leases, its own and leaked ones together, are within
\* the limit, whatever the delay of its scripts (acquireScript).
THEOREM LeasesBoundedHolds == Spec => []LeasesBounded
<1>1. LimitInv => LeasesBounded BY DEF LimitInv
<1> QED BY <1>1, LimitInvAlways, PTL

\* A refusal by the shared limiter leaves every allowance as it was
\* (acquireScript checks everything before it spends).
THEOREM RefusalIsFreeHolds == Spec => RefusalIsFree
<1> DEFINE Free == \A r \in Requests : pc[r] = "stamped" /\ pc'[r] = "idle"
                      => \A d \in Dims : Holding(d)' = Holding(d)
<1>1. ASSUME LimitInv, Next PROVE Free
  <2> SUFFICES ASSUME NEW r \in Requests, pc[r] = "stamped", pc'[r] = "idle"
               PROVE  \A d \in Dims : Holding(d)' = Holding(d)
    OBVIOUS
  <2>1. TypeOK /\ OwnSteps BY <1>1 DEF LimitInv
  <2>2. backend = "redis" BY <2>1 DEF OwnSteps, TypeOK
  <2>3. ~Tick BY DEF Tick
  <2>4. ASSUME NEW q \in Requests,
               \/ MemoryAcquire(q) \/ Stamp(q) \/ Unavailable(q) \/ StampRelease(q)
               \/ Die(q) \/ Leave(q)
               \/ \E cost \in Costs : MemoryRelease(q, cost) \/ RedisRelease(q, cost)
        PROVE  FALSE
    BY <2>1, <2>2, <2>4 DEF TypeOK, MemoryAcquire, Stamp, Unavailable, StampRelease, Die,
                            Leave, MemoryRelease, RedisRelease, Go
  <2>5. PICK q \in Requests : RedisAcquire(q) BY <1>1, <2>3, <2>4 DEF Next
  <2>6. UNCHANGED <<buckets, backend>>
    BY <2>1, <2>5 DEF RedisAcquire, TypeOK, Go
  <2> QED BY <2>2, <2>6 DEF Holding, ReadBucket, Refilled, Expired, buckets
<1>2. LimitInv /\ [Next]_vars => [Free]_vars BY <1>1
<1> QED BY <1>2, LimitInvAlways, PTL DEF Spec, RefusalIsFree

-----------------------------------------------------------------------------
(* Allowance is implemented.  What a limiter finds in a bucket is worked   *)
(* out from the balance and two ages, that of the balance and that of the  *)
(* reading: a late reading finds no more than one made now, and at most    *)
(* what was earned since less.                                             *)

\* A lease is that of a request being served or given back, or of a lost one.
Leased ==
  /\ \A r \in leases : pc[r] \in {"served", "releasing", "dead"}
  /\ backend = "memory" => leases = {}

\* The invariant the refinement needs.
RefineInv == LimitInv /\ Leased

LEMMA LeasedStep ==
  ASSUME LimitInv, Leased, [Next]_vars PROVE Leased'
<1>1. TypeOK /\ OwnSteps BY DEF LimitInv
<1>2. ASSUME NEW r \in Requests, MemoryAcquire(r) \/ \E cost \in Costs : MemoryRelease(r, cost)
      PROVE  Leased'
  <2>1. backend = "memory" /\ UNCHANGED <<backend, leases>>
    BY <1>2 DEF MemoryAcquire, MemoryRelease
  <2> QED BY <2>1 DEF Leased
<1>3. ASSUME NEW r \in Requests, RedisAcquire(r) PROVE Leased'
  <2>1. /\ pc[r] = "stamped" /\ backend' = backend
        /\ \/ leases' = Live(stamp[r]) \cup {r} /\ pc' = [pc EXCEPT ![r] = "served"]
           \/ leases' \in {Live(stamp[r]), leases} /\ pc' = [pc EXCEPT ![r] = "idle"]
    BY <1>3 DEF RedisAcquire, Go
  <2>2. backend = "redis" /\ r \notin leases BY <1>1, <2>1 DEF OwnSteps, TypeOK, Leased
  <2> QED BY <1>1, <2>1, <2>2 DEF Leased, Live, TypeOK
<1>4. ASSUME NEW r \in Requests,
             \/ Stamp(r) \/ Unavailable(r) \/ StampRelease(r) \/ Die(r) \/ Leave(r)
             \/ \E cost \in Costs : RedisRelease(r, cost)
      PROVE  Leased'
  <2>1. /\ backend' = backend /\ leases' \subseteq leases
        /\ pc' = [pc EXCEPT ![r] = pc'[r]]
        /\ r \in leases' => pc'[r] \in {"releasing", "dead"}
    BY <1>1, <1>4 DEF Stamp, Unavailable, StampRelease, Die, Leave, RedisRelease, Go, TypeOK,
                      holds, Leased
  <2> QED BY <1>1, <2>1 DEF Leased, TypeOK
<1>5. CASE Tick BY <1>5 DEF Tick, Leased
<1>6. CASE UNCHANGED vars BY <1>6 DEF vars, holds, Leased
<1> QED BY <1>2, <1>3, <1>4, <1>5, <1>6 DEF Next

LEMMA RefineAlways == Spec => []RefineInv
<1>1. Init => RefineInv BY InitHolds DEF RefineInv, Init, Leased
<1>2. RefineInv /\ [Next]_vars => RefineInv' BY StepKeeps, LeasedStep DEF RefineInv
<1> QED BY <1>1, <1>2, PTL DEF Spec

\* The products of the argument.
LEMMA Products ==
  /\ \A a, b \in Nat : a * b \in Nat
  /\ \A a, b, c \in Nat : a <= b => a * c <= b * c /\ c * a <= c * b
  /\ \A a, b \in Nat : (a + 1) * b = a * b + b /\ b * (a + 1) = b * a + b
  /\ \A a \in Nat : \A b, c \in Int : a * (b - c) = a * b - a * c
<1>1. \A a, b \in Nat : a * b \in Nat OBVIOUS
<1>2. ASSUME NEW a \in Nat, NEW b \in Nat, NEW c \in Nat, a <= b
      PROVE  a * c <= b * c /\ c * a <= c * b
  <2>1. (b - a) * c >= 0 BY <1>2
  <2> QED BY <1>2, <2>1
<1>3. \A a, b \in Nat : (a + 1) * b = a * b + b /\ b * (a + 1) = b * a + b OBVIOUS
<1>4. \A a \in Nat : \A b, c \in Int : a * (b - c) = a * b - a * c OBVIOUS
<1> QED BY <1>1, <1>2, <1>3, <1>4

\* What a bucket holds some ticks after its last operation.
LEMMA RefilledIs ==
  ASSUME TypeOK, NEW d \in Dims, NEW e \in Nat
  PROVE  Refilled(d, e) = Min2(bal[d] + Rate(d) * e, Cap(d))
<1>1. Rate(d) \in Nat /\ Cap(d) \in Nat /\ bal[d] \in Int /\ bal[d] <= Cap(d)
  BY RateIsNat DEF TypeOK
<1>2. CASE e = 0
  <2>1. Rate(d) * e = 0 BY <1>1, <1>2
  <2> QED BY <1>1, <1>2, <2>1 DEF Refilled, Min2
<1>3. CASE e > 0 BY <1>3 DEF Refilled
<1> QED BY <1>2, <1>3

\* A reading s ticks late.
LEMMA LateRead ==
  ASSUME TypeOK, NEW d \in Dims, NEW s \in Nat
  PROVE  /\ ReadBucket(d, s) <= ReadBucket(d, 0)
         /\ ReadBucket(d, 0) <= Min2(ReadBucket(d, s) + Rate(d) * s, Cap(d))
         /\ ReadBucket(d, 0) \in Int /\ ReadBucket(d, 0) <= Cap(d)
         /\ ReadBucket(d, s) \in Int /\ ReadBucket(d, s) <= Cap(d)
<1>1. /\ Rate(d) \in Nat /\ Cap(d) \in Nat /\ bal[d] \in Int /\ bal[d] <= Cap(d)
      /\ last[d] \in Nat /\ last[d] - 0 = last[d]
  BY RateIsNat, ConstantsAssumption DEF TypeOK
<1> DEFINE b == bal[d]
           p == Cap(d)
           y == Rate(d) * last[d]
           z == Rate(d) * s
<1>2. y \in Nat /\ z \in Nat /\ b \in Int /\ p \in Nat /\ b <= p BY <1>1, Products
<1>3. ReadBucket(d, 0) \in Int /\ ReadBucket(d, s) \in Int
      /\ ReadBucket(d, 0) <= p /\ ReadBucket(d, s) <= p
  BY ReadBound
<1>4. CASE Expired(d)
  <2>1. ReadBucket(d, 0) = p /\ ReadBucket(d, s) = p BY <1>4 DEF ReadBucket
  <2> HIDE DEF b, p, y, z
  <2>2. p <= Min2(p + z, p) BY <1>2 DEF Min2
  <2> QED BY <1>2, <1>3, <2>1, <2>2 DEF p, z
<1>5. CASE ~Expired(d) /\ s <= last[d]
  <2>1. last[d] - s \in Nat BY <1>1, <1>5
  <2>2. Rate(d) * (last[d] - s) = y - z BY <1>1, Products
  <2>3. ReadBucket(d, 0) = Min2(b + y, p) BY <1>1, <1>5, RefilledIs DEF ReadBucket
  <2>4. ReadBucket(d, s) = Min2(b + (y - z), p) BY <1>5, <2>1, <2>2, RefilledIs DEF ReadBucket
  <2>5. z <= y BY <1>1, <1>5, Products
  <2> HIDE DEF b, p, y, z
  <2>6. /\ Min2(b + (y - z), p) <= Min2(b + y, p)
        /\ Min2(b + y, p) <= Min2(Min2(b + (y - z), p) + z, p)
    BY <1>2, <2>5 DEF Min2
  <2> QED BY <1>3, <2>3, <2>4, <2>6 DEF p, z
<1>6. CASE ~Expired(d) /\ ~(s <= last[d])
  <2>1. ReadBucket(d, 0) = Min2(b + y, p) BY <1>1, <1>6, RefilledIs DEF ReadBucket
  <2>2. ReadBucket(d, s) = b
    <3>1. last[d] - s <= 0 BY <1>1, <1>6
    <3> QED BY <1>6, <3>1 DEF ReadBucket, Refilled
  <2>3. y <= z BY <1>1, <1>6, Products
  <2> HIDE DEF b, p, y, z
  <2>4. b <= Min2(b + y, p) /\ Min2(b + y, p) <= Min2(b + z, p) BY <1>2, <2>3 DEF Min2
  <2> QED BY <1>3, <2>1, <2>2, <2>4 DEF p, z
<1> QED BY <1>4, <1>5, <1>6

-----------------------------------------------------------------------------
(* The refinement mapping, one lemma per kind of step.                     *)

Held == IF backend = "redis" THEN Live(0) ELSE Served
Unused == [d \in Dims |-> IF backend = "redis" THEN written[d] ELSE idle]

\* The variables of Allowance.
LEMMA Shown ==
  /\ Held = IF backend = "redis" THEN Live(0) ELSE {r \in Requests : pc[r] = "served"}
  /\ Held' = IF backend' = "redis" THEN Live(0)' ELSE {r \in Requests : pc'[r] = "served"}
  /\ Unused = [d \in Dims |-> IF backend = "redis" THEN written[d] ELSE idle]
  /\ Unused' = [d \in Dims |-> IF backend' = "redis" THEN written'[d] ELSE idle']
  /\ A!Dims = Dims
BY DEF Held, Served, Unused, A!Dims, Dims

\* The names Allowance gives to the rates and capacities.
LEMMA Names ==
  /\ Rate("req") = RequestsPerMinute /\ Cap("req") = A!ReqCap
  /\ Rate("tok") = TokensPerMinute /\ Cap("tok") = A!TokCap
  /\ Dims = {"req", "tok"}
BY DEF Rate, Cap, A!ReqCap, A!TokCap, Dims

LEMMA UnusedType ==
  ASSUME TypeOK PROVE Unused \in [Dims -> Nat]
BY ConstantsAssumption DEF TypeOK, Unused

LEMMA TermsType ==
  /\ Terms \in [remembered : Nat, late : Nat] /\ Terms.late \in Nat
  /\ backend = "redis" => Terms.late = MaxDelay /\ Terms.remembered = BucketTTL
  /\ backend # "redis" => Terms.remembered = IdleTTL + 1
BY ConstantsAssumption DEF Terms

\* A step that leaves the slots and the buckets alone maps to a stutter.
Same == UNCHANGED <<Terms, Held, Holding("req"), Holding("tok"), Unused>>

\* The part of a step that is the same for all.
Typed == Unused' \in [Dims -> Nat] /\ Terms' = Terms

LEMMA AdmitMaps ==
  ASSUME NEW r \in Requests, r \notin Held, Cardinality(Held) < MaxConcurrent,
         Holding("req") >= Minute, Holding("tok") >= Minute,
         Held' = Held \cup {r}, Unused' = [d \in Dims |-> 0], Typed,
         Holding("req")' \in A!Left(Holding("req") - Minute, Rate("req"), Cap("req")),
         Holding("tok")' \in A!Left(Holding("tok"), Rate("tok"), Cap("tok"))
  PROVE  A!Next
<1>1. \A S : A!Cardinality(S) = Cardinality(S) BY DEF A!Cardinality, Cardinality
<1>2. A!Admit(r) BY <1>1, Shown, Names DEF A!Admit
<1> QED BY <1>2, Shown DEF A!Next, Typed

LEMMA RefuseMaps ==
  ASSUME Held' = Held, Holding("tok")' = Holding("tok"), Typed,
         \/ Holding("req")' = Holding("req")
         \/ Holding("req")' = Holding("req") - Minute /\ Holding("req")' >= 0,
         \A d \in Dims : Unused'[d] \in {0, Unused[d]}
  PROVE  A!Next
<1>1. A!Refuse BY Shown DEF A!Refuse
<1> QED BY <1>1, Shown DEF A!Next, Typed

LEMMA ReturnMaps ==
  ASSUME NEW r \in Requests, NEW cost \in Costs, Held' = Held \ {r}, Typed,
         \A d \in Dims : Unused'[d] \in {0, Unused[d]},
         cost > 0 => Unused'["tok"] = 0,
         Holding("req")' = Holding("req"),
         Holding("tok")' \in A!Left(Holding("tok") - cost * Minute, Rate("tok"), Cap("tok"))
  PROVE  A!Next
<1>1. A!Return(r, cost) BY Shown, Names DEF A!Return
<1> QED BY <1>1, Shown DEF A!Next, Typed

\* A charge that is exact is within the terms.
LEMMA ExactCharge ==
  ASSUME NEW d \in Dims, NEW n \in Int, n <= Cap(d)
  PROVE  n \in A!Left(n, Rate(d), Cap(d))
<1>1. Rate(d) \in Nat /\ Cap(d) \in Nat /\ Terms.late \in Nat BY RateIsNat, TermsType
<1> DEFINE q == Rate(d) * Terms.late
           p == Cap(d)
<1>2. q \in Nat /\ p \in Nat BY <1>1, Products
<1>3. A!Left(n, Rate(d), Cap(d)) = n .. (IF n + q < p THEN n + q ELSE p)
  BY DEF A!Left, A!Capped
<1>4. n <= p OBVIOUS
<1> HIDE DEF q, p
<1> QED BY <1>2, <1>3, <1>4

\* And so is one that is written s ticks after it was worked out.
LEMMA LateCharge ==
  ASSUME TypeOK, TypeOK', backend = "redis", backend' = "redis", NEW d \in Dims,
         NEW s \in Nat, s <= MaxDelay, NEW m \in Nat,
         bal'[d] = ReadBucket(d, s) - m, last'[d] = s, written'[d] = 0
  PROVE  Holding(d)' \in A!Left(Holding(d) - m, Rate(d), Cap(d))
<1>1. Rate(d) \in Nat /\ Cap(d) \in Nat /\ MaxDelay \in Nat BY RateIsNat, ConstantsAssumption
<1> DEFINE v == ReadBucket(d, s)
           h == ReadBucket(d, 0)
           z == Rate(d) * s
           q == Rate(d) * MaxDelay
           p == Cap(d)
<1>2. v \in Int /\ h \in Int /\ v <= h /\ h <= Min2(v + z, p) /\ h <= p /\ v <= p BY LateRead
<1>3. z \in Nat /\ q \in Nat /\ z <= q /\ p \in Nat BY <1>1, Products
<1>4. Holding(d) = h BY DEF Holding
<1>5. Holding(d)' = Min2((v - m) + z, p)
  <2>1. ~(0 >= BucketTTL) BY ConstantsAssumption
  <2>2. Holding(d)' = IF s - 0 <= 0 THEN v - m ELSE Min2((v - m) + Rate(d) * (s - 0), p)
    BY <2>1 DEF Holding, ReadBucket, Expired, Refilled, Rate, Cap, Min2
  <2>3. CASE s = 0
    <3>1. z = 0 BY <1>1, <2>3
    <3>2. Holding(d)' = v - m BY <2>2, <2>3
    <3> HIDE DEF v, h, z, q, p
    <3> QED BY <1>2, <1>3, <3>1, <3>2 DEF Min2
  <2>4. CASE s > 0
    <3>1. s - 0 = s OBVIOUS
    <3> QED BY <2>2, <2>4, <3>1
  <2> QED BY <2>3, <2>4
<1>6. A!Left(h - m, Rate(d), Cap(d)) =
        (h - m) .. (IF (h - m) + q < p THEN (h - m) + q ELSE p)
  BY TermsType DEF A!Left, A!Capped
<1> HIDE DEF v, h, z, q, p
<1>7. /\ Min2((v - m) + z, p) \in Int
      /\ h - m <= Min2((v - m) + z, p)
      /\ Min2((v - m) + z, p) <= (IF (h - m) + q < p THEN (h - m) + q ELSE p)
  BY <1>2, <1>3 DEF Min2
<1>8. (IF (h - m) + q < p THEN (h - m) + q ELSE p) \in Int /\ h - m \in Int BY <1>2, <1>3
<1> QED BY <1>4, <1>5, <1>6, <1>7, <1>8

\* A bucket that is not charged holds what it held.
LEMMA Untouched ==
  ASSUME NEW d \in Dims, bal'[d] = bal[d], last'[d] = last[d], written'[d] = written[d],
         UNCHANGED backend, backend = "redis" \/ (Sweepable' <=> Sweepable)
  PROVE  Holding(d)' = Holding(d)
BY DEF Holding, ReadBucket, Expired, Refilled, Rate, Cap, Min2

LEMMA MemoryMaps ==
  ASSUME LimitInv, TypeOK', NEW r \in Requests,
         MemoryAcquire(r) \/ \E cost \in Costs : MemoryRelease(r, cost)
  PROVE  A!Next
<1>1. TypeOK /\ InflightExact /\ Minute \in Nat \ {0} /\ {"req", "tok"} = Dims
  BY ConstantsAssumption DEF LimitInv, Dims
<1>2. /\ backend = "memory" /\ backend' = "memory" /\ idle' = 0 /\ written' = written
      /\ Held = Served /\ Held' = Served'
  BY DEF MemoryAcquire, MemoryRelease, Held
<1>3. inflight = Cardinality(Held) BY <1>1, <1>2 DEF InflightExact, Served
<1>4. ~Sweepable' BY <1>2, ConstantsAssumption DEF Sweepable
<1>5. Typed /\ \A d \in Dims : Unused'[d] = 0
  <2>1. Unused' \in [Dims -> Nat] /\ \A d \in Dims : Unused'[d] = 0 BY <1>2 DEF Unused
  <2>2. Terms' = Terms BY <1>2 DEF Terms
  <2> QED BY <2>1, <2>2 DEF Typed
<1>6. \A d \in Dims : Holding(d) \in Int /\ Holding(d) <= Cap(d)
  <2> TAKE d \in Dims
  <2>1. last[d] \in Int /\ Cap(d) \in Nat BY <1>1, RateIsNat DEF TypeOK
  <2> QED BY <1>1, <1>2, <2>1, RefilledBound DEF Holding
<1>7. \A d \in Dims : last'[d] = 0 => Holding(d)' = bal'[d]
  BY <1>2, <1>4 DEF Holding, Refilled
<1>8. CASE MemoryAcquire(r)
  <2>1. \A d \in Dims : Holding(d) = IF Sweepable THEN Cap(d) ELSE Refilled(d, last[d])
    BY <1>2 DEF Holding
  <2>2. inflight = IF Sweepable THEN 0 ELSE inflight BY DEF Sweepable
  <2>3. /\ pc[r] = "idle" /\ last' = [d \in Dims |-> 0]
        /\ bal' = [bal EXCEPT !["req"] = IF Holding("req") >= Minute THEN Holding("req") - Minute
                                                                    ELSE Holding("req"),
                              !["tok"] = Holding("tok")]
        /\ \/ /\ Holding("req") >= Minute /\ Holding("tok") >= Minute
              /\ inflight < MaxConcurrent
              /\ pc' = [pc EXCEPT ![r] = "served"]
           \/ UNCHANGED pc
    BY <1>1, <1>8, <2>1, <2>2 DEF MemoryAcquire, Below, Go
  <2>4. /\ Holding("tok")' = Holding("tok")
        /\ Holding("req")' = IF Holding("req") >= Minute THEN Holding("req") - Minute
                                                         ELSE Holding("req")
    BY <1>1, <1>7, <2>3 DEF TypeOK
  <2>5. CASE /\ Holding("req") >= Minute /\ Holding("tok") >= Minute /\ inflight < MaxConcurrent
             /\ pc' = [pc EXCEPT ![r] = "served"]
    <3>1. Held' = Held \cup {r} /\ r \notin Held BY <1>1, <1>2, <2>3, <2>5 DEF Served, TypeOK
    <3>2. Unused' = [d \in Dims |-> 0] BY <1>2 DEF Unused
    <3>3. Holding("req") - Minute \in Int /\ Holding("req") - Minute <= Cap("req")
      BY <1>1, <1>6, RateIsNat
    <3>4. /\ Holding("req")' \in A!Left(Holding("req") - Minute, Rate("req"), Cap("req"))
          /\ Holding("tok")' \in A!Left(Holding("tok"), Rate("tok"), Cap("tok"))
      BY <1>1, <1>6, <2>4, <2>5, <3>3, ExactCharge
    <3> QED BY <1>3, <1>5, <2>5, <3>1, <3>2, <3>4, AdmitMaps
  <2>6. CASE UNCHANGED pc
    <3>1. Held' = Held BY <1>2, <2>6 DEF Served
    <3>2. \/ Holding("req")' = Holding("req")
          \/ Holding("req")' = Holding("req") - Minute /\ Holding("req")' >= 0
      BY <1>1, <1>6, <2>4
    <3> QED BY <1>5, <2>4, <3>1, <3>2, RefuseMaps
  <2> QED BY <2>3, <2>5, <2>6
<1>9. ASSUME NEW cost \in Costs, MemoryRelease(r, cost) PROVE A!Next
  <2>1. /\ pc[r] = "served" /\ pc' = [pc EXCEPT ![r] = "idle"]
        /\ bal'["req"] = bal["req"] /\ last'["req"] = last["req"]
        /\ cost > 0 => /\ bal'["tok"] = Refilled("tok", last["tok"]) - cost * Minute
                       /\ last'["tok"] = 0
        /\ ~(cost > 0) => bal'["tok"] = bal["tok"] /\ last'["tok"] = last["tok"]
    BY <1>1, <1>9 DEF MemoryRelease, Go, TypeOK
  <2>2. Held' = Held \ {r} BY <1>1, <1>2, <2>1 DEF Served, TypeOK
  <2>3. ~Sweepable
    <3>1. inflight > 0 BY <1>1, <1>2, <1>3, <2>1, ServedCount DEF TypeOK
    <3> QED BY <3>1 DEF Sweepable
  <2>4. Holding("req")' = Holding("req") BY <1>1, <1>2, <1>4, <2>1, <2>3, Untouched
  <2>5. Holding("tok")' = Holding("tok") - cost * Minute
    <3>1. CASE cost > 0 BY <1>1, <1>2, <1>7, <2>1, <2>3, <3>1 DEF Holding
    <3>2. CASE ~(cost > 0)
      <4>1. Holding("tok")' = Holding("tok") BY <1>1, <1>2, <1>4, <2>1, <2>3, <3>2, Untouched
      <4>2. cost * Minute = 0 BY <1>1, <3>2, ConstantsAssumption
      <4>3. Holding("tok") \in Int BY <1>1, <1>6
      <4> QED BY <4>1, <4>2, <4>3
    <3> QED BY <3>1, <3>2
  <2>6. Holding("tok")' \in A!Left(Holding("tok") - cost * Minute, Rate("tok"), Cap("tok"))
    <3> DEFINE n == Holding("tok") - cost * Minute
    <3>1. cost * Minute \in Nat BY <1>1, ConstantsAssumption
    <3>2. n \in Int /\ n <= Cap("tok") BY <1>1, <1>6, <3>1, RateIsNat
    <3> HIDE DEF n
    <3>3. n \in A!Left(n, Rate("tok"), Cap("tok")) BY <1>1, <3>2, ExactCharge
    <3> QED BY <2>5, <3>3 DEF n
  <2> QED BY <1>1, <1>5, <2>2, <2>4, <2>6, ReturnMaps
<1> QED BY <1>8, <1>9

LEMMA RedisMaps ==
  ASSUME LimitInv, Leased, TypeOK', NEW r \in Requests,
         RedisAcquire(r) \/ \E cost \in Costs : RedisRelease(r, cost)
  PROVE  A!Next \/ Same
<1>1. TypeOK /\ OwnSteps /\ Minute \in Nat \ {0} /\ {"req", "tok"} = Dims /\ MaxDelay < LeaseTTL
  BY ConstantsAssumption DEF LimitInv, Dims
<1> DEFINE s == stamp[r]
<1>2. /\ pc[r] \in {"stamped", "releasing"} /\ s \in Nat /\ s <= MaxDelay /\ backend' = backend
      /\ MaxDelay \in Nat /\ LeaseTTL \in Nat
  <2>1. s \in Nat /\ MaxDelay \in Nat /\ LeaseTTL \in Nat BY <1>1, ConstantsAssumption DEF TypeOK
  <2>2. CASE RedisAcquire(r) BY <2>1, <2>2 DEF RedisAcquire
  <2>3. ASSUME NEW cost \in Costs, RedisRelease(r, cost)
        PROVE  pc[r] = "releasing" /\ s <= MaxDelay /\ backend' = backend
    BY <2>3 DEF RedisRelease
  <2> QED BY <2>1, <2>2, <2>3
<1>3. backend = "redis" /\ backend' = "redis" BY <1>1, <1>2 DEF OwnSteps, TypeOK
<1>4. Held = Live(0) /\ Held' = Live(0)' BY <1>3 DEF Held
<1>5. Typed
  <2>1. Terms' = Terms BY <1>3 DEF Terms
  <2>2. Unused' \in [Dims -> Nat] BY <1>3, ConstantsAssumption DEF Unused, TypeOK
  <2> QED BY <2>1, <2>2 DEF Typed
<1>6. \A d \in Dims : Holding(d) = ReadBucket(d, 0) /\ Holding(d) \in Int /\ Holding(d) <= Cap(d)
  BY <1>1, <1>3, LateRead DEF Holding
<1>7. \A q \in leases : leaseAge[q] \in Nat BY <1>1, ConstantsAssumption DEF TypeOK
<1>8. Live(0) \subseteq Live(s) /\ Live(s) \subseteq leases BY <1>2, <1>7 DEF Live
<1>9. CASE RedisAcquire(r)
  <2>1. pc[r] = "stamped" /\ r \notin leases BY <1>1, <1>9 DEF RedisAcquire, Leased
  <2>2. CASE pc' = [pc EXCEPT ![r] = "served"]
    <3>1. /\ ReadBucket("req", s) >= Minute /\ ReadBucket("tok", s) >= Minute
          /\ Cardinality(Live(s)) < MaxConcurrent
          /\ WriteBuckets(Dims, [[d \in Dims |-> ReadBucket(d, s)] EXCEPT !["req"] = @ - Minute], s)
          /\ leases' = Live(s) \cup {r} /\ leaseAge' = [leaseAge EXCEPT ![r] = s]
      <4>1. ~(pc' = [pc EXCEPT ![r] = "idle"]) BY <1>1, <2>2 DEF TypeOK
      <4> QED BY <1>1, <1>9, <4>1 DEF RedisAcquire, Go, Below
    <3>2. /\ bal'["req"] = ReadBucket("req", s) - Minute /\ bal'["tok"] = ReadBucket("tok", s)
          /\ \A d \in Dims : last'[d] = s /\ written'[d] = 0
      BY <1>1, <3>1 DEF WriteBuckets
    <3>3. bal'["tok"] = ReadBucket("tok", s) - 0 BY <1>1, <1>2, <3>2, LateRead
    <3>4. Holding("req")' \in A!Left(Holding("req") - Minute, Rate("req"), Cap("req"))
      BY <1>1, <1>2, <1>3, <3>2, LateCharge
    <3>5. Holding("tok")' \in A!Left(Holding("tok"), Rate("tok"), Cap("tok"))
      <4>1. Holding("tok")' \in A!Left(Holding("tok") - 0, Rate("tok"), Cap("tok"))
        BY <1>1, <1>2, <1>3, <3>2, <3>3, LateCharge
      <4>2. Holding("tok") - 0 = Holding("tok") BY <1>1, <1>6
      <4> QED BY <4>1, <4>2
    <3>6. Holding("req") >= Minute /\ Holding("tok") >= Minute
      <4>1. \A d \in Dims : ReadBucket(d, s) <= Holding(d) /\ ReadBucket(d, s) \in Int
        BY <1>1, <1>2, <1>6, LateRead
      <4> QED BY <1>1, <1>6, <3>1, <4>1
    <3>7. Held' = Held \cup {r} /\ r \notin Held
      <4>1. /\ \A q \in Live(s) : q # r /\ leaseAge'[q] = leaseAge[q]
            /\ leaseAge'[r] = s
        BY <1>1, <1>8, <2>1, <3>1 DEF TypeOK
      <4>2. s - 0 < LeaseTTL BY <1>1, <1>2
      <4> QED BY <1>4, <1>8, <2>1, <3>1, <4>1, <4>2 DEF Live
    <3>8. Cardinality(Held) < MaxConcurrent
      <4>1. IsFiniteSet(Live(s))
        BY <1>1, <1>8, ConstantsAssumption, FS_Subset DEF TypeOK
      <4>2. /\ Cardinality(Live(0)) <= Cardinality(Live(s)) /\ Cardinality(Live(s)) \in Nat
            /\ Cardinality(Live(0)) \in Nat
        BY <1>8, <4>1, FS_Subset, FS_CardinalityType
      <4> QED BY <1>4, <3>1, <4>2, ConstantsAssumption
    <3>9. Unused' = [d \in Dims |-> 0] BY <1>3, <3>2 DEF Unused
    <3> QED BY <1>5, <3>4, <3>5, <3>6, <3>7, <3>8, <3>9, AdmitMaps
  <2>3. CASE pc' # [pc EXCEPT ![r] = "served"]
    <3>1. /\ UNCHANGED <<bal, last, written, leaseAge>>
          /\ leases' = Live(s) \/ leases' = leases
      BY <1>9, <2>3 DEF RedisAcquire, Go, buckets
    <3>2. Held' = Held BY <1>4, <1>8, <3>1 DEF Live
    <3>3. Holding("req")' = Holding("req") /\ Holding("tok")' = Holding("tok")
      BY <1>1, <1>3, <3>1, Untouched
    <3>4. Unused' = Unused BY <1>3, <3>1 DEF Unused
    <3> QED BY <1>5, <3>2, <3>3, <3>4 DEF Same, Typed
  <2> QED BY <2>2, <2>3
<1>10. ASSUME NEW cost \in Costs, RedisRelease(r, cost) PROVE A!Next
  <2>1. /\ leases' = leases \ {r} /\ leaseAge' = [leaseAge EXCEPT ![r] = 0]
        /\ bal'["req"] = bal["req"] /\ last'["req"] = last["req"] /\ written'["req"] = written["req"]
        /\ cost > 0 => /\ bal'["tok"] = ReadBucket("tok", s) - cost * Minute
                       /\ last'["tok"] = s /\ written'["tok"] = 0
        /\ ~(cost > 0) => /\ bal'["tok"] = bal["tok"] /\ last'["tok"] = last["tok"]
                          /\ written'["tok"] = written["tok"]
    BY <1>1, <1>10 DEF RedisRelease, WriteBuckets
  <2>2. Held' = Held \ {r} BY <1>1, <1>4, <2>1 DEF Live, TypeOK
  <2>3. Holding("req")' = Holding("req") BY <1>1, <1>3, <2>1, Untouched
  <2>4. cost * Minute \in Nat BY <1>1, ConstantsAssumption
  <2>5. Holding("tok")' \in A!Left(Holding("tok") - cost * Minute, Rate("tok"), Cap("tok"))
    <3>1. CASE cost > 0
      <4> DEFINE m == cost * Minute
      <4>1. m \in Nat /\ bal'["tok"] = ReadBucket("tok", s) - m BY <2>1, <2>4, <3>1
      <4> HIDE DEF m
      <4>2. Holding("tok")' \in A!Left(Holding("tok") - m, Rate("tok"), Cap("tok"))
        BY <1>1, <1>2, <1>3, <2>1, <3>1, <4>1, LateCharge
      <4> QED BY <4>2 DEF m
    <3>2. CASE ~(cost > 0)
      <4>1. Holding("tok")' = Holding("tok") BY <1>1, <1>3, <2>1, <3>2, Untouched
      <4>2. cost * Minute = 0 BY <1>1, <3>2, ConstantsAssumption
      <4>3. Holding("tok") - cost * Minute = Holding("tok") BY <1>1, <1>6, <4>2
      <4> QED BY <1>1, <1>6, <4>1, <4>3, ExactCharge
    <3> QED BY <3>1, <3>2
  <2>6. /\ \A d \in Dims : Unused'[d] \in {0, Unused[d]}
        /\ cost > 0 => Unused'["tok"] = 0
    BY <1>1, <1>3, <2>1 DEF Unused
  <2> QED BY <1>5, <2>2, <2>3, <2>5, <2>6, ReturnMaps
<1> QED BY <1>9, <1>10

\* A request takes no slot by asking, and gives none back by being lost.
LEMMA OtherMaps ==
  ASSUME LimitInv, Leased,
         \/ \E r \in Requests : Stamp(r) \/ Unavailable(r) \/ StampRelease(r) \/ Die(r) \/ Leave(r)
         \/ UNCHANGED vars
  PROVE  Same
<1>1. TypeOK /\ OwnSteps /\ {"req", "tok"} = Dims BY DEF LimitInv, Dims
<1>2. UNCHANGED <<bal, last, written, backend, idle, inflight>>
  BY DEF Stamp, Unavailable, StampRelease, Die, Leave, vars, buckets, holds
<1>3. Holding("req")' = Holding("req") /\ Holding("tok")' = Holding("tok")
  <2>1. Sweepable' <=> Sweepable BY <1>2 DEF Sweepable
  <2> QED BY <1>1, <1>2, <2>1, Untouched
<1>4. Held' = Held
  <2>1. CASE UNCHANGED vars BY <2>1 DEF vars, buckets, holds, Held, Served, Live
  <2>2. ASSUME NEW r \in Requests, Stamp(r) \/ Unavailable(r) \/ StampRelease(r) \/ Die(r)
        PROVE  Held' = Held
    <3>1. backend = "redis"
      BY <1>1, <2>2 DEF Stamp, Unavailable, StampRelease, Die, OwnSteps, TypeOK
    <3>2. UNCHANGED <<leases, leaseAge, backend>>
      BY <2>2 DEF Stamp, Unavailable, StampRelease, Die, holds
    <3> QED BY <3>1, <3>2 DEF Held, Live
  <2>3. ASSUME NEW r \in Requests, Leave(r) PROVE Held' = Held
    <3>1. backend = "redis" /\ r \notin Live(0)
      <4>1. CASE pc[r] = "unleased" BY <1>1, <4>1 DEF OwnSteps, Leased, Live, TypeOK
      <4>2. CASE pc[r] = "dead" /\ r \notin Live(MaxDelay)
        BY <1>1, <4>2, ConstantsAssumption DEF OwnSteps, Live, TypeOK
      <4> QED BY <2>3, <4>1, <4>2 DEF Leave
    <3>2. leases' = leases \ {r} /\ leaseAge' = [leaseAge EXCEPT ![r] = 0] /\ backend' = backend
      BY <2>3 DEF Leave
    <3>3. Live(0)' = Live(0) BY <1>1, <3>1, <3>2 DEF Live, TypeOK
    <3> QED BY <3>1, <3>2, <3>3 DEF Held
  <2> QED BY <2>1, <2>2, <2>3
<1>5. Unused' = Unused /\ Terms' = Terms BY <1>2 DEF Unused, Terms
<1> QED BY <1>3, <1>4, <1>5 DEF Same

\* A tick adds its rate to what a bucket holds, and forgets those not charged.
LEMMA TickMaps ==
  ASSUME LimitInv, TypeOK', Tick
  PROVE  A!Next
<1>1. TypeOK /\ {"req", "tok"} = Dims BY DEF LimitInv, Dims
<1>2. UNCHANGED <<backend, inflight, pc, leases>> BY DEF Tick
<1>3. ASSUME NEW d \in Dims
      PROVE  Refilled(d, last[d])' = A!Capped(Refilled(d, last[d]) + Rate(d), Cap(d))
  <2> DEFINE k == Rate(d)
             p == Cap(d)
             b == bal[d]
             y == Rate(d) * last[d]
  <2>1. /\ last[d] \in 0..MaxAge /\ last'[d] = Older(last[d]) /\ MaxAge \in Nat
        /\ bal'[d] = IF last[d] = MaxAge THEN Min2(b + k, p) ELSE b
    BY <1>1, ConstantsAssumption DEF Tick, TypeOK
  <2>2. k \in Nat /\ p \in Nat /\ b \in Int /\ b <= p /\ y \in Nat /\ last[d] \in Nat
    BY <1>1, <2>1, RateIsNat, Products DEF TypeOK
  <2>3. Refilled(d, last[d]) = Min2(b + y, p) BY <1>1, <2>2, RefilledIs
  <2>4. Refilled(d, last[d])' = IF last'[d] <= 0 THEN bal'[d] ELSE Min2(bal'[d] + k * last'[d], p)
    BY DEF Refilled, Rate, Cap, Min2
  <2>5. CASE last[d] = MaxAge
    <3>1. last'[d] = last[d] /\ bal'[d] = Min2(b + k, p) BY <2>1, <2>5 DEF Older, Min2
    <3>2. last[d] = 0 => y = 0 BY <2>2
    <3>3. Refilled(d, last[d])' = (IF last[d] = 0 THEN Min2(b + k, p) ELSE Min2(Min2(b + k, p) + y, p))
      BY <2>2, <2>4, <3>1
    <3> HIDE DEF k, p, b, y
    <3>4. Refilled(d, last[d])' = Min2(Min2(b + k, p) + y, p)
      BY <2>2, <3>2, <3>3 DEF Min2
    <3>5. Min2(Min2(b + k, p) + y, p) = A!Capped(Min2(b + y, p) + k, p)
      BY <2>2 DEF Min2, A!Capped
    <3> QED BY <2>3, <3>4, <3>5 DEF k, p
  <2>6. CASE last[d] < MaxAge
    <3>1. last'[d] = last[d] + 1 /\ bal'[d] = b BY <2>1, <2>6 DEF Older, Min2
    <3>2. k * (last[d] + 1) = y + k BY <2>2, Products
    <3>3. Refilled(d, last[d])' = Min2(b + (y + k), p) BY <2>2, <2>4, <3>1, <3>2
    <3> HIDE DEF k, p, b, y
    <3>4. Min2(b + (y + k), p) = A!Capped(Min2(b + y, p) + k, p)
      BY <2>2 DEF Min2, A!Capped
    <3> QED BY <2>3, <3>3, <3>4 DEF k, p
  <2> QED BY <2>1, <2>5, <2>6
<1>4. /\ \A d \in Dims : Unused[d] \in 0..MaxAge /\ Unused'[d] = Older(Unused[d])
      /\ Unused' \in [Dims -> Nat]
  <2>1. CASE backend = "redis"
    BY <1>1, <1>2, <2>1, OlderBound, ConstantsAssumption DEF Unused, Tick, TypeOK
  <2>2. CASE backend # "redis"
    <3>1. backend = "memory" BY <1>1, <2>2 DEF TypeOK
    <3> QED BY <1>1, <1>2, <3>1, OlderBound, ConstantsAssumption DEF Unused, Tick, TypeOK
  <2> QED BY <2>1, <2>2
<1>5. Typed
  <2>1. Terms' = Terms BY <1>2 DEF Terms
  <2> QED BY <1>4, <2>1 DEF Typed
<1>6. \A d \in Dims : Unused'[d] \in {Unused[d], Unused[d] + 1} /\ Unused[d] <= Unused'[d]
  BY <1>4, ConstantsAssumption DEF Older, Min2
<1>7. ASSUME NEW d \in Dims
      PROVE  Holding(d)' \in {A!Capped(Holding(d) + Rate(d), Cap(d))}
                               \cup {m \in {Cap(d)} : Unused'[d] >= Terms.remembered}
  <2>0. Cap(d)' = Cap(d) BY DEF Cap, Rate
  <2>1. CASE backend = "redis"
    <3>1. Unused[d] = written[d] /\ Unused'[d] = written'[d] /\ Terms.remembered = BucketTTL
      BY <1>2, <2>1, TermsType DEF Unused
    <3>2. last[d] - 0 = last[d] /\ last'[d] - 0 = last'[d] BY <1>1, ConstantsAssumption DEF TypeOK
    <3>3. CASE Expired(d)'
      <4>1. Holding(d)' = Cap(d) BY <1>2, <2>0, <2>1, <3>3 DEF Holding, ReadBucket
      <4>2. Unused'[d] >= Terms.remembered BY <3>1, <3>3 DEF Expired
      <4> QED BY <4>1, <4>2
    <3>4. CASE ~Expired(d)'
      <4>1. ~Expired(d)
        BY <1>4, <1>6, <3>1, <3>4, ConstantsAssumption DEF Expired
      <4>2. Holding(d) = Refilled(d, last[d]) /\ Holding(d)' = Refilled(d, last[d])'
        BY <1>2, <2>1, <3>2, <3>4, <4>1 DEF Holding, ReadBucket, Refilled
      <4> QED BY <1>3, <4>2
    <3> QED BY <3>3, <3>4
  <2>2. CASE backend # "redis"
    <3>1. Unused[d] = idle /\ Unused'[d] = idle' /\ Terms.remembered = IdleTTL + 1
      BY <1>2, <2>2, TermsType DEF Unused
    <3>2. CASE Sweepable'
      <4>1. Holding(d)' = Cap(d) BY <1>2, <2>0, <2>2, <3>2 DEF Holding
      <4>2. Unused'[d] >= Terms.remembered
        BY <1>4, <1>6, <3>1, <3>2, ConstantsAssumption DEF Sweepable
      <4> QED BY <4>1, <4>2
    <3>3. CASE ~Sweepable'
      <4>1. ~Sweepable
        BY <1>2, <1>4, <1>6, <3>1, <3>3, ConstantsAssumption DEF Sweepable
      <4>2. Holding(d) = Refilled(d, last[d]) /\ Holding(d)' = Refilled(d, last[d])'
        BY <1>2, <2>2, <3>3, <4>1 DEF Holding
      <4> QED BY <1>3, <4>2
    <3> QED BY <3>2, <3>3
  <2> QED BY <2>1, <2>2
<1>8. Held' \in SUBSET Held
  <2>1. CASE backend = "redis"
    <3>1. \A q \in leases : leaseAge'[q] >= leaseAge[q] /\ leaseAge[q] \in Int /\ leaseAge'[q] \in Int
      BY <1>1, ConstantsAssumption DEF Tick, TypeOK, Older, Min2
    <3> QED BY <1>2, <2>1, <3>1, ConstantsAssumption DEF Held, Live
  <2>2. CASE backend # "redis" BY <1>2, <2>2 DEF Held, Served
  <2> QED BY <2>1, <2>2
<1>9. A!Tick
  <2>1. /\ Holding("req")' \in A!Refill("req", Holding("req"), Rate("req"), Cap("req"))
        /\ Holding("tok")' \in A!Refill("tok", Holding("tok"), Rate("tok"), Cap("tok"))
    BY <1>1, <1>7, Shown DEF A!Refill
  <2> QED BY <1>6, <1>8, <2>1, Shown, Names DEF A!Tick
<1> QED BY <1>5, <1>9, Shown DEF A!Next, Typed

LEMMA InitMaps == Init => A!Init
<1> SUFFICES ASSUME Init PROVE A!Init OBVIOUS
<1>1. Held = {} BY DEF Init, Held, Served, Live
<1>2. \A d \in Dims : Holding(d) = Cap(d)
  BY DEF Init, Holding, ReadBucket, Refilled
<1>3. Unused \in [Dims -> Nat] BY ConstantsAssumption DEF Init, Unused
<1> QED BY <1>1, <1>2, <1>3, Shown, Names, TermsType DEF A!Init

\* Both limiters keep the promise of Allowance, whatever a response costs and
\* however late a script runs: Memory.Acquire and release under their mutex,
\* acquireScript and releaseScript with their callers' clocks.
THEOREM ImplementsHolds == Spec => Implements
<1>1. RefineInv => LimitInv /\ TypeOK /\ Leased BY DEF RefineInv, LimitInv
<1>2. LimitInv /\ TypeOK' /\ Leased /\ [Next]_vars =>
        [A!Next]_<<Terms, IF backend = "redis" THEN Live(0) ELSE {r \in Requests : pc[r] = "served"},
                   Holding("req"), Holding("tok"),
                   [d \in Dims |-> IF backend = "redis" THEN written[d] ELSE idle]>>
  <2> SUFFICES ASSUME LimitInv, TypeOK', Leased, [Next]_vars
               PROVE  A!Next \/ Same
    BY Shown DEF Same
  <2> QED BY MemoryMaps, RedisMaps, OtherMaps, TickMaps DEF Next
<1> QED BY <1>1, <1>2, InitMaps, RefineAlways, PTL DEF Spec, Implements, A!Spec, A!vars

=============================================================================
