----------------------------- MODULE RateLimit -----------------------------
(***************************************************************************)
(* The two rate limiters of the Gateway (service/aiServeWeaveGateway/       *)
(* ratelimit): Memory, whose state is one replica's, and Redis, whose two   *)
(* scripts keep it for every replica; and the middleware that takes a lease *)
(* before a request is served and releases it after (httpapi/ratelimit.go). *)
(* One tenant, whose limits are fixed and bound all three dimensions.       *)
(* Instants are kept as the ticks since them; parts are as in Allowance.    *)
(***************************************************************************)
EXTENDS Integers, FiniteSets

CONSTANTS
  Requests,
  RequestsPerMinute, TokensPerMinute, MaxConcurrent,
  Minute, Costs,
  IdleTTL,      \* Memory: when an idle tenant is forgotten, in ticks
  BucketTTL,    \* Redis: when an unwritten bucket expires (PEXPIRE 120000)
  LeaseTTL,     \* Redis: when a lease that was not released lapses
  MaxDelay,     \* Redis: from the reading of the clock to the script, in ticks,
                \* what the replica's clock is behind the fastest included
  MaxAge        \* bound: ages are not told apart beyond this

ASSUME ConstantsAssumption ==
  /\ IsFiniteSet(Requests)
  /\ RequestsPerMinute \in Nat \ {0} /\ TokensPerMinute \in Nat \ {0}
  /\ MaxConcurrent \in Nat \ {0} /\ Minute \in Nat \ {0}
  /\ Costs \subseteq Nat
  /\ IdleTTL \in Nat /\ BucketTTL \in Nat \ {0} /\ LeaseTTL \in Nat \ {0}
  /\ MaxDelay \in Nat /\ MaxAge \in Nat
  /\ MaxDelay < LeaseTTL   \* LeaseTTL "must exceed the longest request"
  /\ MaxAge > IdleTTL /\ MaxAge >= BucketTTL /\ MaxAge >= LeaseTTL + MaxDelay

VARIABLES
  backend,    \* which limiter the Gateway is configured with
  bal, last,  \* balance and last of the two buckets
  idle,       \* Memory: since lastSeen
  inflight,   \* Memory: tenantState.inflight
  written,    \* Redis: since the key of a bucket was written; MaxAge: absent
  leases,     \* Redis: the members of the concurrency set
  leaseAge,   \* Redis: their scores
  pc,         \* of a request: idle, stamped, served, releasing, unleased, dead
  stamp       \* Redis: since the caller read the clock

buckets == <<bal, last, written>>
holds == <<inflight, leases, leaseAge>>
vars == <<backend, buckets, idle, holds, pc, stamp>>

Dims == {"req", "tok"}
Rate(d) == IF d = "req" THEN RequestsPerMinute ELSE TokensPerMinute
Cap(d) == Rate(d) * Minute

Min2(a, b) == IF a < b THEN a ELSE b
Older(n) == Min2(n + 1, MaxAge)

-----------------------------------------------------------------------------
(* bucket.go, and read_bucket of the scripts.                              *)

\* bucket.refill: what a bucket holds e ticks after its last operation.
Refilled(d, e) == IF e <= 0 THEN bal[d] ELSE Min2(bal[d] + Rate(d) * e, Cap(d))

Expired(d) == written[d] >= BucketTTL

\* read_bucket at an instant s ticks ago.
ReadBucket(d, s) == IF Expired(d) THEN Cap(d) ELSE Refilled(d, last[d] - s)

-----------------------------------------------------------------------------

Init ==
  /\ backend \in {"memory", "redis"}
  /\ bal = [d \in Dims |-> Cap(d)]
  /\ last = [d \in Dims |-> 0]
  /\ idle = 0
  /\ inflight = 0
  /\ written = [d \in Dims |-> IF backend = "redis" THEN MaxAge ELSE 0]
  /\ leases = {}
  /\ leaseAge = [r \in Requests |-> 0]
  /\ pc = [r \in Requests |-> "idle"]
  /\ stamp = [r \in Requests |-> 0]

Go(r, p) == pc' = [pc EXCEPT ![r] = p]

\* The concurrency check of both limiters.
Below(n) == n < MaxConcurrent

\* Mutant: the sweep does not look at the requests in flight.
MutSweepable == idle > IdleTTL

\* sweepLocked drops the tenant; Acquire then makes it anew.
Sweepable == inflight = 0 /\ idle > IdleTTL

\* Memory.Acquire, under its mutex.  The request bucket is charged before the
\* other two dimensions are looked at.
MemoryAcquire(r) ==
  LET have(d) == IF Sweepable THEN Cap(d) ELSE Refilled(d, last[d])
      reqOK == have("req") >= Minute
      tokOK == have("tok") >= Minute
      count == IF Sweepable THEN 0 ELSE inflight
      slotOK == Below(count)
  IN /\ backend = "memory" /\ pc[r] = "idle"
     /\ bal' = [bal EXCEPT !["req"] = IF reqOK THEN have("req") - Minute ELSE have("req"),
                           !["tok"] = have("tok")]
     /\ last' = [d \in Dims |-> 0]
     /\ idle' = 0
     /\ \/ /\ reqOK /\ tokOK /\ slotOK
           /\ inflight' = count + 1
           /\ Go(r, "served")
        \/ /\ ~(reqOK /\ tokOK /\ slotOK)
           /\ inflight' = count
           /\ UNCHANGED pc
     /\ UNCHANGED <<backend, written, leases, leaseAge, stamp>>

\* memoryLease.Release, from the middleware's defer.
MemoryRelease(r, cost) ==
  /\ backend = "memory" /\ pc[r] = "served"
  /\ inflight' = IF inflight > 0 THEN inflight - 1 ELSE 0
  /\ bal' = [bal EXCEPT !["tok"] =
       IF cost > 0 THEN Refilled("tok", last["tok"]) - cost * Minute ELSE @]
  /\ last' = [last EXCEPT !["tok"] = IF cost > 0 THEN 0 ELSE @]
  /\ idle' = 0
  /\ Go(r, "idle")
  /\ UNCHANGED <<backend, written, leases, leaseAge, stamp>>

\* Redis.Acquire reads the clock of its replica.
Stamp(r) ==
  /\ backend = "redis" /\ pc[r] = "idle"
  /\ Go(r, "stamped")
  /\ stamp' = [stamp EXCEPT ![r] = 0]
  /\ UNCHANGED <<backend, buckets, idle, holds>>

\* Mutant: no lease is ever dropped.
MutLive(s) == leases

\* The leases ZREMRANGEBYSCORE leaves.
Live(s) == {q \in leases : leaseAge[q] - s < LeaseTTL}

\* Mutant: the balance is written without its instant.
MutWriteBuckets(D, value, s) ==
  /\ bal' = [d \in Dims |-> IF d \in D THEN value[d] ELSE bal[d]]
  /\ written' = [d \in Dims |-> IF d \in D THEN 0 ELSE written[d]]
  /\ UNCHANGED last

\* write_bucket: the balance, and the caller's instant as the last one.
WriteBuckets(D, value, s) ==
  /\ bal' = [d \in Dims |-> IF d \in D THEN value[d] ELSE bal[d]]
  /\ last' = [d \in Dims |-> IF d \in D THEN s ELSE last[d]]
  /\ written' = [d \in Dims |-> IF d \in D THEN 0 ELSE written[d]]

\* Mutant: the request bucket is charged as soon as it is checked.
MutRedisAcquire(r) ==
  LET s == stamp[r]
      have == [d \in Dims |-> ReadBucket(d, s)]
      reqOK == have["req"] >= Minute
      rateOK == reqOK /\ have["tok"] >= Minute
      slotOK == Below(Cardinality(Live(s)))
      left == [have EXCEPT !["req"] = @ - Minute]
  IN /\ pc[r] = "stamped" /\ s <= MaxDelay
     /\ WriteBuckets(IF reqOK THEN Dims ELSE {}, left, s)
     /\ \/ /\ rateOK /\ slotOK
           /\ leases' = Live(s) \cup {r}
           /\ leaseAge' = [leaseAge EXCEPT ![r] = s]
           /\ Go(r, "served")
        \/ /\ ~(rateOK /\ slotOK)
           /\ Go(r, "idle")
           /\ UNCHANGED <<leases, leaseAge>>
     /\ stamp' = [stamp EXCEPT ![r] = 0]
     /\ UNCHANGED <<backend, idle, inflight>>

\* acquireScript: check every dimension, then spend.
RedisAcquire(r) ==
  LET s == stamp[r]
      have == [d \in Dims |-> ReadBucket(d, s)]
      rateOK == have["req"] >= Minute /\ have["tok"] >= Minute
      slotOK == Below(Cardinality(Live(s)))
      left == [have EXCEPT !["req"] = @ - Minute]
  IN /\ pc[r] = "stamped" /\ s <= MaxDelay
     /\ \/ /\ rateOK /\ slotOK
           /\ WriteBuckets(Dims, left, s)
           /\ leases' = Live(s) \cup {r}
           /\ leaseAge' = [leaseAge EXCEPT ![r] = s]
           /\ Go(r, "served")
        \/ /\ ~(rateOK /\ slotOK)
           /\ leases' = IF rateOK THEN Live(s) ELSE leases
           /\ Go(r, "idle")
           /\ UNCHANGED <<buckets, leaseAge>>
     /\ stamp' = [stamp EXCEPT ![r] = 0]
     /\ UNCHANGED <<backend, idle, inflight>>

\* The script could not be run, or not within MaxDelay: the middleware lets the
\* request through.
Unavailable(r) ==
  /\ pc[r] = "stamped"
  /\ Go(r, "unleased")
  /\ stamp' = [stamp EXCEPT ![r] = 0]
  /\ UNCHANGED <<backend, buckets, idle, holds>>

\* Redis.release reads the clock.
StampRelease(r) ==
  /\ backend = "redis" /\ pc[r] = "served"
  /\ Go(r, "releasing")
  /\ stamp' = [stamp EXCEPT ![r] = 0]
  /\ UNCHANGED <<backend, buckets, idle, holds>>

\* releaseScript, for a request that cost so many tokens.
RedisRelease(r, cost) ==
  LET s    == stamp[r]
      left == [d \in Dims |-> ReadBucket(d, s) - cost * Minute]
  IN /\ pc[r] = "releasing" /\ s <= MaxDelay
     /\ leases' = leases \ {r}
     /\ WriteBuckets(IF cost > 0 THEN {"tok"} ELSE {}, left, s)
     /\ Go(r, "idle")
     /\ leaseAge' = [leaseAge EXCEPT ![r] = 0]
     /\ stamp' = [stamp EXCEPT ![r] = 0]
     /\ UNCHANGED <<backend, idle, inflight>>

\* The replica of a request dies, or the answer to its Acquire is lost, or its
\* release fails: nothing is returned.
Die(r) ==
  /\ backend = "redis" /\ pc[r] \in {"served", "releasing"}
  /\ Go(r, "dead")
  /\ stamp' = [stamp EXCEPT ![r] = 0]
  /\ UNCHANGED <<backend, buckets, idle, holds>>

\* A request without a lease ends; the name of a dead one is free again when
\* no script can find its lease id any more.
Leave(r) ==
  /\ pc[r] = "unleased" \/ (pc[r] = "dead" /\ r \notin Live(MaxDelay))
  /\ Go(r, "idle")
  /\ leases' = leases \ {r}
  /\ leaseAge' = [leaseAge EXCEPT ![r] = 0]
  /\ UNCHANGED <<backend, buckets, idle, inflight, stamp>>

\* Time passes.  A bucket older than MaxAge is kept at MaxAge and credited what
\* it has earned.
Tick ==
  /\ last' = [d \in Dims |-> Older(last[d])]
  /\ bal' = [d \in Dims |-> IF last[d] = MaxAge THEN Min2(bal[d] + Rate(d), Cap(d)) ELSE bal[d]]
  /\ idle' = IF backend = "memory" THEN Older(idle) ELSE idle
  /\ written' = [d \in Dims |-> IF backend = "redis" THEN Older(written[d]) ELSE written[d]]
  /\ leaseAge' = [r \in Requests |-> IF r \in leases THEN Older(leaseAge[r]) ELSE 0]
  /\ stamp' = [r \in Requests |-> IF pc[r] \in {"stamped", "releasing"}
                                  THEN Min2(stamp[r] + 1, MaxDelay + 1) ELSE 0]
  /\ UNCHANGED <<backend, inflight, leases, pc>>

Next ==
  \/ Tick
  \/ \E r \in Requests :
       \/ MemoryAcquire(r)
       \/ Stamp(r)
       \/ RedisAcquire(r)
       \/ Unavailable(r)
       \/ StampRelease(r)
       \/ Die(r)
       \/ Leave(r)
       \/ \E cost \in Costs : MemoryRelease(r, cost) \/ RedisRelease(r, cost)

Spec == Init /\ [][Next]_vars

\* Time passes; nothing else is certain to happen.
FairSpec == Spec /\ WF_vars(Tick)

-----------------------------------------------------------------------------
(* Properties.                                                             *)

TypeOK ==
  /\ backend \in {"memory", "redis"}
  /\ bal \in [Dims -> Int] /\ \A d \in Dims : bal[d] <= Cap(d)
  /\ last \in [Dims -> 0..MaxAge]
  /\ idle \in 0..MaxAge
  /\ inflight \in 0..MaxConcurrent
  /\ written \in [Dims -> 0..MaxAge]
  /\ leases \in SUBSET Requests
  /\ leaseAge \in [Requests -> 0..MaxAge]
  /\ pc \in [Requests -> {"idle", "stamped", "served", "releasing", "unleased", "dead"}]
  /\ stamp \in [Requests -> 0..MaxDelay + 1]

\* Memory: the counter is the number of requests admitted and not released, so
\* that a tenant is swept only when none of its requests runs.
InflightExact ==
  backend = "memory" => inflight = Cardinality({r \in Requests : pc[r] = "served"})

\* What the limiter would find in a bucket now.
Holding(d) ==
  IF backend = "redis" THEN ReadBucket(d, 0)
  ELSE IF Sweepable THEN Cap(d) ELSE Refilled(d, last[d])

\* How far each limiter's promise goes: when it forgets a bucket that was not
\* charged, and how old the clock reading of a charge may be.
Terms ==
  IF backend = "redis" THEN [remembered |-> BucketTTL, late |-> MaxDelay]
  ELSE [remembered |-> IdleTTL + 1, late |-> 0]

A == INSTANCE Allowance WITH
       terms <- Terms,
       held <- IF backend = "redis" THEN Live(0) ELSE {r \in Requests : pc[r] = "served"},
       requests <- Holding("req"),
       tokens <- Holding("tok"),
       unused <- [d \in Dims |-> IF backend = "redis" THEN written[d] ELSE idle]

\* Both limiters keep the promise of Allowance: the concurrency bound, and no
\* allowance from anything but the passing of time, within their terms.  Memory
\* charges at once and forgets an idle tenant; the shared one's last charge may
\* be MaxDelay old when it is written, and a debt outlives it by BucketTTL.
Implements == A!Spec

\* acquireScript: "check everything, spend nothing": a refusal by the shared
\* limiter leaves every allowance as it was, whichever dimension refused.
RefusalIsFree ==
  [][\A r \in Requests : pc[r] = "stamped" /\ pc'[r] = "idle"
       => \A d \in Dims : Holding(d)' = Holding(d)]_vars

\* DefaultLeaseTTL: the slot of a request that died unreleased is in use only
\* until its lease lapses.
LeakedSlotReturns ==
  \A r \in Requests : pc[r] = "dead" /\ r \in Live(0) ~> r \notin Live(0)

\* write_bucket: "by then a full bucket is what a fresh one would be anyway, so
\* forgetting it changes nothing".  That is so of the request bucket; a debt of
\* tokens deeper than BucketTTL repays is forgiven (Allowance's remembered).
ForgettingChangesNothing ==
  backend = "redis" => \A d \in Dims : Expired(d) => Refilled(d, last[d]) = Cap(d)

=============================================================================
