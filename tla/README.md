# AIServeWeave in TLA+

Specifications of the concurrent core of AIServeWeave, the TLC configurations
that check them on small instances, and proofs, checked by TLAPS, of the safety
properties that matter most. Paths below are relative to `src/service/`;
`PROJECT.json` gives the source lines of every definition.

## 1. The system

AIServeWeave lets model runtimes on machines behind NAT serve requests that
arrive at public replicas. An **Agent** on the machine dials out to every
**Gateway** replica; the Gateway turns an HTTP request into frames on a stream
the Agent has opened. A **Registry** issues node certificates and publishes the
roster (replicas, disabled nodes, nodes in maintenance). A **ControlPlane** holds
accounts, keys, billing, jobs and usage. **Console** is its web interface, and
`common` holds the shared wire and data types.

| part | state it keeps | operations | hard behaviour |
|---|---|---|---|
| Gateway data plane (`aiServeWeaveGateway/tunnelserver/slot.go`, `call.go`, `node.go`) | per stream: parked, dead, current call; per node: idle stack | Serve, park, take, begin, finish, close, Dispatch, Recv, Close | one stream carries request after request; reader, dispatcher and drain meet on it; request ids are repeated by retries |
| Agent data plane (`aiServeWeaveAgent/tunnel/slot.go`) | active request, count, request body | run, begin, serve, feed, cancelRequest, park, retire, abort | receive loop and handler share one stream; rotation behind the last answer |
| Gateway node table (`tunnelserver/server.go`, `control.go`, `node.go`) | entries, Control streams and slots per entry, roster, connected count | Control, Serve, SetRoster, Close, Draining, forget | two locks taken in two orders; arrival, departure and roster overlap |
| Agent slot pool (`aiServeWeaveAgent/tunnel/pool.go`) | slots, limits, hint, draining, wake token | reconcile, slotIdle/Busy/Finished/OpenFailed, SetActiveReplicas, ApplyHint, SetDraining, Stop | decisions carried out after the lock is released; one wake token; callbacks out of order; budget |
| Agent client, manager (`tunnel/client.go`, `manager.go`, `roster.go`) | tunnel state, pool, roster | connect, handshake, heartbeat, Apply, reconcile, drain | backoff, settings copied before the pool is published; rosters from several replicas |
| Agent identity (`tunnel/identity.go`) | key, certificate, journal and token files | Ensure, bootstrap, Renew, persist, load | a crash between two file writes; a lost answer to a spent token |
| Scheduler (`aiServeWeaveGateway/scheduler`) | breaker and cooldown per candidate, places in the submission queue | Chat, ChatStream, MessagesStart, SubmitWorkflow, pinned calls, record | late results of requests sent before a trip; what may be sent twice; places given back on every way out |
| Jobs (`aiServeWeaveGateway/httpapi/job*.go`) | job records, sequence numbers | submit, observe, persist, sync, recover, cancel | two replicas observe one job; restart |
| Rate limits (`aiServeWeaveGateway/ratelimit`) | buckets, leases | Acquire, release, sweep | partial charge on rejection; leases that expire under a running request |
| Key cache, usage push (`aiServeWeaveGateway/controlplaneclient`) | cached keys, usage ledger | lookup, invalidate, push | stale key after revocation; at-least-once delivery |
| Registry (`aiServeWeaveRegistry/internal`) | tokens, identity ledger, roster and Join streams | Register, RenewCertificate, Join, TokenAdmin calls | handlers that are sequences of store calls; one-time token and crash; broadcasts out of order; restart |
| ControlPlane (`aiServeWeaveControlPlane`) | SQL tables, revocation outbox, alerts | handlers, relay, evaluation | sequence gate, outbox delivery |

How they interact: the Agent calls the Gateway's two gRPC methods, `Control` (one
stream per replica: hello, heartbeats, roster, draining) and `Serve` (one stream
per slot, one request at a time). Inside the Agent, slots report to their pool
through calls under `Pool.mu` and a one-token channel; the pool tells the client
through the `OnServing` callback. Inside the Gateway, streams of one node share a
`*node` under `node.mu`, and nodes live in a map under `Server.mu`; the Registry's
roster arrives through `Server.SetRoster`. The Gateway's HTTP handlers call
`Dispatch` and then read with `Recv`.

What makes each part correct:

- data plane: a slot serves one request at a time, a response is the request's
  own and whole, a Cancel hits only its own request, a dispatch always ends;
- node table: a node counts as connected exactly while it has a Control stream,
  entries do not leak, a disabled node is served nothing, a roster reaches
  everybody, every stream that ends is cleaned up;
- slot pool: the floor and the low watermark are met, the budget is never
  exceeded, no running request is cut, Stop leaves nothing;
- scheduler: a candidate that keeps failing is left out and comes back, a call
  always returns, a request that may be running is not sent again;
- jobs: no state nobody reported, what counts as stored is stored, an end is
  noticed and recorded;
- rate limits: what is admitted stays within the limits, only time refills them,
  a refusal costs nothing, a leaked place comes back;
- enrolment: one certificate per one-time token, nobody in without the operator,
  a disable that holds, files that can be used after every crash;
- roster: versions name rosters, rosters only go forward, a live replica stays
  listed, what the operator ordered arrives everywhere.

`PROJECT.json` lists every component with its status, and the hazards of the code
with the property that covers each, or the reason none does yet.

## 2. Modules

| module | models | proofs |
|---|---|---|
| `TunnelSlot` | both ends of the Serve streams of one slot class of one node, with the dispatches that use them | `TunnelSlotProofs` |
| `NodeRegistry` | the Gateway's table entry for one node_id, its Control streams and slots, SetRoster, Close | `NodeRegistryProofs` |
| `SlotPool` | the Agent's pool of one tunnel and slot class | `SlotPoolProofs` |
| `Scheduler` | breaker, cooldown, the dispatch loops and the submission queue | `SchedulerProofs` |
| `RateLimit` | both rate limiters and the middleware's leases; implements `Allowance` | `RateLimitProofs` |
| `Allowance` | what a limiter promises: three allowances that only time refills | |
| `Jobs` | the job tables of the replicas, the syncer, the persister, the recovery sweep and the control plane's row | `JobsProofs` |
| `Enrolment` | tokens, identity ledger, Register and RenewCertificate, the operator, the Agent's identity files | `EnrolmentProofs` |
| `Roster` | the roster on its way from the Registry through the replicas to an Agent | `RosterProofs` |

Each has an `MC…` module with the definitions the configurations need. The
modules meet at interfaces: `TunnelSlot` lets the pool retire a slot and the node
drain at any moment; `SlotPool` lets requests arrive on any offered slot;
`NodeRegistry` lets slots come and go and leaves their requests out, and installs
any roster at any moment, which is what `Roster` delivers; the outcomes of a
dispatch in `Scheduler` are what `TunnelSlot`'s caller can be told, and its fairness
is `EveryCallEnds`.

### TunnelSlot

*State.* A stream is `none`, `open`, `cut` (reset: what is on its way may still
arrive or be lost) or `ended`; `toGw` and `toAg` are the frames in flight, in
order. `parked`, `dead`, `cur`, `idle` are the Gateway's fields of the same name;
`cst` is where the caller of a dispatch is, `outcome` what it was told. `active`,
`served`, `bodyClosed` are the Agent's; `hpc` is where the handler goroutine is.
`faulted` is a history variable. A frame is its kind and the call it was sent for;
the sides compare only what they can see, the request id (`SameId`).

*Actions.* One per critical section or blocking call: Gateway `ServeFirst`,
`ParkOffer`, `ReadReady`, `RouteIdle`, `RouteDrop`, `RouteTooLarge`, `StreamEnds`,
`CloseDrained`; caller `Acquire`, `Begin`, `SendHeaders`, `SendChunk`, `SendEnd`,
`DispatchFails`, `Recv`, `RecvFails`, `CloseResponse`; Agent
`OpenSlot`, `RecvHeaders`, `RecvData`, `RecvEnd`, `RecvCancel`, `RecvErr`,
`RunReturns`, `SinkData`, `HandlerReturn`, `SendRespEnd`, `Retire`, `Park`;
environment `NetworkCut`, `PoolRetire`, `NodeDrain`, `ControlReconnects`. `Recv` is
the rendezvous of `slot.deliver` and the caller on the unbuffered channel, so the
reader is blocked exactly as in the code. The Handler (a runtime) is any number of
chunks up to `MaxData` and a result. Metrics, logs and payloads are left out.

### NodeRegistry

*State.* `Server.mu` and `node.mu` are variables: two sections take the second
lock while they hold the first, and that is a property of its own. A section with
one lock is one step. An entry is named after the stream that created it, so that
an entry dropped from the table and its successor are told apart; `nodes` is what
the map holds. `told` is the newest roster a Control stream was sent.

*Actions.* The path of `Control` from the revocation check through `Server.node`,
registration, `controlsChanged`, the welcome and the serving loop to its deferred
departure and `forget`; the same for `Serve`; the steps of `SetRoster` (install,
mark, broadcast, kill); `Close`; the Agent's dial, drain and disconnect, at any
time. Heartbeats, inventory and administration commands ride on a Control stream
and change nothing here.

### SlotPool

*State.* `slots`, `parked`, `idle`, `reaping` are the pool's per-slot flags, `mpc`
the maintenance goroutine, `targets` and `opens` what a reconcile decided and has
not carried out. `run`, `working`, `late` are the slot's own goroutines: `late` is
a handler between sending Ready and calling `slotIdle`. `settle` is each
goroutine's progress through `refreshServing`, `setServing` and the callback.

*Choices.* Time is a choice: any set of idle slots may have aged or timed out, and
the pause after a failed open ends at some moment. A slot's name is used again
when its goroutines are gone, so `|Slots|` bounds the streams open or closing at
once and not the length of a behaviour; of a slot's earlier handlers at most one
is still between Ready and `slotIdle`. A poke is part of the locked step before it
(nothing happens between them that another goroutine could see). The bulk class
runs the same loop with its own limits and is not modelled separately.

### Scheduler

*State.* Per candidate the fields of `breakerState`, with the two deadlines kept as
the time still to go (`openFor`, `limitedFor`), so that a `Tick` is the clock and
behaviours are not bounded in time. Per call its place in the code (`pc`), the
candidates still to try (`todo`), what `cooledCandidates` has collected and whether
an error happened (`cooled`, `failed`). `depth`, `queued`, `left`, `timer` are the
submission queue. `sent`, `orphan` and `failing` are history variables.

*Actions.* `Select` takes the candidates once, like `pickBy`, in any order of any
set of eligible ones: health, labels, access, weights and policies decide which,
and nothing else depends on them. `SkipCooling`, `Send`, `Answered` (with `Record`
in the same step, as both run under the breaker's lock right after the dispatch
returns), `Exhausted`, and for SubmitWorkflow the queue's steps. Four kinds of call
stand for the entry points (`AllKinds`). An outcome is a code, the Retryable flag
and whether the backend may have the request; the last is what the scheduler
cannot see and `NoSecondRun` is about.

### RateLimit and Allowance

`RateLimit` holds both limiters, chosen once by `backend`. A bucket is its balance
and the ticks since its last operation; one request or token is `Minute` parts, so
that a tick refills a whole number and no rounding is needed (the code uses
floating point). The in-memory limiter is one locked step. The Redis limiter reads
its replica's clock (`Stamp`, `StampRelease`) and its scripts run up to `MaxDelay`
ticks later (`RedisAcquire`, `RedisRelease`), in any order; it may find Redis
unavailable and let the request through (`Unavailable`), and a lease may never be
released, because its replica died, its answer was lost or its release failed
(`Die`).

`Allowance` is the abstract specification: two allowances and a set of holders,
spent by `Admit`, `Refuse` and `Return`, and refilled by `Tick` alone. No limiter
keeps that to the letter, so `Allowance` names the two terms it holds on, and
`Terms` gives their values for each limiter:

- `late`: a charge worked out from a clock reading that old may bring those ticks'
  refill a second time. A script writes its caller's instant as the bucket's last
  one, even when that moves it back (`redis.go:100`). It is `MaxDelay` for the shared
  limiter and 0 for the in-memory one.
- `remembered`: an allowance not charged for that long may be full again, debt and
  all. It is the bucket's expiry for the shared limiter (`redis.go:101`) and the idle
  time of a swept tenant for the in-memory one (`memory.go:170`).

A response may cost anything. The refinement maps a bucket to what the limiter would
find in it now (an expired or swept one is full) and the holders to the live leases
or the requests served. `Allowance` lets a refusal cost a request, as the in-memory
limiter does; `RefusalIsFree` says that the shared limiter's refusals cost nothing.
Not in the model: a script the Redis client itself runs a second time because the
answer to the first was lost.

### Jobs

A status is the pair of State and ErrorSummary. `run` is the backend's own truth
about a run; `byID` and `order` are a replica's table; `asks` are questions to the
node that are out (a poll, an event stream or the syncer's), `calls` the
persister's calls, `listing` rows a recovery sweep fetched and has not inserted;
`row` is the control plane's table with its sequence gate. Questions and calls are
split into asking, landing and applying, so that answers arrive late and are lost.
`Restart` empties a replica, and the recovery sweep of that or another one fills it
again from the rows (`RecoverLists`, `recoverIfMissing`). Backoff and claims only decide when a due job is
looked at, which the model lets be any time. Artifacts are left out.

### Enrolment

Every store operation of the Registry takes its own lock and writes its own file
before it returns. A handler is therefore a sequence of atomic steps, one per store
call (`Peek`, `CheckDisabled`, `CheckApproved`, `Claim`, `RecordPending`, `Consume`,
`WriteLedger`), and two handlers, the operator and a crash interleave between them.
The Agent's files are written one at a time behind a journal; it may stop at any
write, and its call may be abandoned while the handler goes on. A certificate is
the node it names and the key it was issued for. `granted` and `vouched` are
history variables: certificates handed back per token, and whom the operator let in.

### Roster

A roster is a snapshot with a version. `Change` bumps the version under
`rosterState`'s lock and leaves one offer per joined stream in `casts`; `offer`
delivers them in any order, as `broadcast` runs outside the lock; `run` is the
stream's only sender. A replica has at most one stream it reads (`at`) and may have
left others behind that the Registry has not given up yet, or whose JoinRequest it
has not even handled: `join` takes the replica over whenever it runs, as in the
code, and `overtaken` is the history of the replicas for which an older stream did so
after the current one. The operator's calls write the ledger, read it back and push
the set in three steps, and two of them may overlap. `RegistryRestart` keeps the
ledger and numbers versions on, as the wall clock does in the code; a clock set back
between two runs of the Registry is not modelled, nor does the code handle it. A
graceful stop, which ends the Join handlers one by one, is some `StreamBreaks`
followed by `RegistryRestart`. The Agent applies rosters from any replica it has a
tunnel to; that a tunnel which ended by itself waits for a newer roster
(`manager.go:422`) is left out, as `forgetShutdowns` drops such records periodically.

## 3. Runs

| run | shows |
|---|---|
| `slot_reuse` | one stream, two dispatches with the same request id, one with a body and one answered over the frame limit, under cuts, retirement and drains: `ExclusiveUse`, `CleanOffer`, `NoSpuriousFault`, `OwnCancelOnly`, `CompleteResponse`, `BodyIntact`; every dispatch given a slot ends (`EveryCallEnds`), every slot abandoned under a running request is given up by both sides (`AbandonedSlotReclaimed`) |
| `registry_table` | two overlapping Control streams, a slot, a roster: `ConnectedExact`, `NoEntryLeak`, `MaintenanceCurrent`, `RosterReachesAll` |
| `pool_core` | no wake-up lost (`WatermarkSettles`), stale refreshes repaired (`ServingSettles`) |
| `pool_live` | the pool always gets back to its floor (`Refills`), Stop returns (`StopEnds`) |
| `scheduler` | exclusions stay within the configured maximum (`TypeOK`), a cooling answer means nothing was tried (`CoolingMeansUntried`), queue places are exact (`QueueExact`), every call returns (`CallsEnd`), no candidate is excluded for good (`Reprobed`) |
| `limiter` | both limiters implement `Allowance` with late scripts and responses that overspend (`Implements`); `InflightExact`, `RefusalIsFree`, `LeakedSlotReturns` |
| `jobs` | eviction order (`OrderExact`), no state nobody reported (`NothingInvented`), what counts as confirmed is there (`ConfirmedIsThere`), an end is noticed and reported (`EndIsReported`) and, if no table overflows, in the row at last (`EndIsRecorded`) |
| `enrolment` | `OneCertPerToken`, `LetIn`, `UsablePair`, `DisableHolds`, `KeyKept`, and an approved Agent gets in with the token it was refused with (`Enrols`) |
| `roster` | a live replica stays listed unless an older stream of its own joined after it (`LiveIsListed`), rosters only go forward (`NeverBackwards`), the orders of operator calls that do not overlap arrive (`OrdersArrive`), the Agent ends up with a tunnel to every replica that is not left overtaken (`FullyConnected`) |
| `registry_locks` | *violation*: registration holds `node.mu` and wants `Server.mu`, `forget` the other way round: both wait for ever |
| `submit_twice` | *violation*: a submission whose slot died after the backend may have taken it is sent to another node |
| `roster_overtaken` | *violation*: a JoinRequest handled after the replica's next stream has joined takes the ownership back, and the old stream's end evicts the live replica (`LateExitEvictsNobody`) |

**Bounds.** Names: `Slots`, `Calls`, `Chunks`, `MaxData`, `MaxRequestsPerSlot`,
`Controls`, `MaxRosters`, `NodeTotalSlots`, `MaxAge`, `MaxDelay`, `MaxJobs`, `Others`,
`Keys`, `Handlers`, `Ledgers`, `Admins`, `MaxDisturbances`.

- Two calls on one stream are what mixing two requests needs, and they share an id
  so that only the code's order can tell them apart; one body chunk separates a
  whole body from a cut one; `MaxRequestsPerSlot = 2` makes a slot reused once and
  then rotated.
- Two Control streams are the old and the new connection of a node, which is all
  the Agent ever has; one roster lets every step of SetRoster meet every step of a
  connection, and the proof covers any number of them.
- Two pool slots let one be reaped while another opens; the pool's behaviours are
  otherwise unbounded, because names are reused.
- Two calls and two candidates in `scheduler`: one call's late result meets the
  other's choice, and a retry has somewhere to go. A finished call's name is used
  again. One trip and one tick of cooldown are enough to open, elapse and probe;
  a Retry-After of 2 exceeds the maximum of 1. One waiter place makes the second
  submission find the queue full. The messages kind has the largest retry set of
  the inference calls.
- Three requests against a limit of two; a minute of two ticks, two requests and one
  token a minute: buckets empty, refill partly and fill up. A response costs nothing
  or three minutes' tokens, more than is repaid before the bucket expires (a minute
  and a half here, two in the code). A script runs up to one tick, half a minute,
  after its clock was read, so late ones meet newer ones in every order. Time is
  unbounded, as ages are told apart only up to `MaxAge`, beyond every TTL.
- One job and one other that takes its place in a table of one: eviction and
  recovery happen. Two disturbances allow an outage and a restart in one behaviour.
  `EndIsRecorded` speaks of the behaviours in which both never want the one place at
  once. It also passes with `Replicas = {a, b}`, in a little over four minutes.
- Two machines, two handlers and two tokens: an Agent's retry meets the call it
  gave up on, two machines meet on one token, and a machine whose certificate
  expired comes back for its node id with a second token and another key. Five keys
  are one per place a key can be. One disturbance, at any point.
- Two replicas, one of them with a second stream; two operator calls at a time; two
  disturbances at any point, an operator call being one of them: two overlapping
  calls, a call and a restart, a stream that breaks twice. The runs start with both
  replicas joined, a state the Registry reaches from `Init`; starting from nobody
  joined is what follows a restart.

The proofs remove these bounds for the properties they cover.

**Deadlock.** `SlotPool` is checked for deadlock; a stopped pool stutters. The other
systems really stop (all calls closed, all streams used, all disturbances spent),
so deadlock is not checked there; a wait for ever is found by the liveness
properties.

**Symmetry** is used over slot or stream names in runs that check invariants only.

**Fairness.** Weak fairness on the steps of goroutines the code starts and does
not block: reader loops, receive loops, handlers' returns, the caller's `Recv` and
`Close`, the steps of a stream through the node table, the maintenance loop, the
slots' reports, a scheduler call, the syncer, the persister and the recovery sweep
(all three are loops on a ticker), the Registry's handlers and senders. Go's scheduler runs every runnable goroutine. It is not
assumed of the environment: no request need arrive, no stream need break, no open
need succeed, no caller need give up and no operator need act. Four assumptions go
beyond the scheduler: a Handler returns (it is bounded by the runtime's own timeouts
and the request's context), time passes (ticks fire, cooldowns, leases and pauses
end), an outage is not for ever (the bounded disturbances), and a supervisor starts a
stopped Agent or replica again, as the deployment files configure.

**Mutants.** For each property of a passing run the modules hold a variant of a
definition with a plausible bug (comment `Mutant:`), under which TLC finds the
property violated.

## 4. Where the code does not do what it says

The three violation runs are in `findings` of `PROJECT.json`, with the sentence each
contradicts. The models reach more such states. Each formula below is stated in the
module named; adding it to the configuration of that component (with the change of
a constant given here) yields the trace.

- `TunnelSlot!AnswerSurvives`: a slot at its rotation limit resets its stream right
  behind the ResponseEnd (`aiServeWeaveAgent/tunnel/slot.go:307`); the answer may be
  lost and the caller is told the slot died, while the tunnel's README says a busy
  slot never interrupts a request in flight.
- `NodeRegistry!EntryKept`: a stream gets its entry, `forget` drops it as empty
  (`server.go:299`), and the stream registers in an entry nobody can find.
- `NodeRegistry!DisabledNodeGone`: a handshake past its revocation check
  (`control.go:59`) survives the roster that disables the node.
- `NodeRegistry!DrainingIsOwn`: a Draining read after the Agent reconnected keeps the
  new connection draining (`control.go:82` says draining describes the stream it was
  announced on).
- `SlotPool!BusySlotCounted`: Ready goes out before `slotIdle` (`slot.go:415`), so the
  next request's `slotBusy` may come first and the running request is not counted.
- `SlotPool!BusyNeverReaped`: a request that arrives between the reap decision and
  `retire` is cancelled (`pool.go:513` says reconcile never closes a busy slot).
- `SlotPool!TunnelStateFollows`: two `OnServing` callbacks arrive in the wrong order and
  the tunnel stays shown as serving (`pool.go:139`).
- `RateLimit!ForgettingChangesNothing`: a debt deeper than its bucket's TTL repays is
  forgiven when the key expires (`redis.go:101`), although `redis.go` says there that
  forgetting the bucket changes nothing. `Allowance` has it as its term `remembered`.
- `RateLimit!Implements`, with `late` in `Terms` replaced by 0: a script that runs later
  than its caller's clock reading moves the bucket's last instant back, and the same
  interval is credited again (`redis.go:100`).
- `RefusalIsFree` is stated for the shared limiter only: the in-memory one charges the
  request bucket before the checks that may still refuse (`memory.go:118`), although
  `memory.go:90` says that nothing has been spent on rejection.
- `Jobs!EndIsStamped`: a job that is over before its first persist is created in its
  final state under sequence 0, and only an update stamps `terminal_at`
  (`jobpersist.go:384`).
- `Jobs!EndIsRecorded` without its condition: a job evicted and recovered while a
  persist of it is out, or recovered from a listing fetched before its last update,
  counts on from an old number; the control plane drops its end as stale and the
  replica books it as confirmed (`jobstore.go:587`).
- `Roster!FullyConnected` without its condition: the replica that `roster_overtaken`
  shows evicted stays off the roster until it reconnects, which nothing makes it do.
- `Roster!OrdersArrive` without `OneAtATime`: of two overlapping operator calls the older
  list may be pushed last and stay until the next change (`token_admin.go:91`).

Hazards the models contain without a property of their own, because the code makes
no promise about them: a success sent before a rate-limited answer clears the newer
cooldown (`breaker.go:242`); submissions do not skip cooling candidates
(`workflow.go:61`); a replica that stops between the backend's acceptance and `add`
loses the job (`jobs.go:225`); an answer read before a run's end and applied after it
puts the job back to running in the replica's table, until the next sync
(`jobstore.go:438`); `Consume` does not look at a Claim made after its handler's Peek
(`tokenstore.go:193`); a crash or a lost answer between `Consume` and the certificate's
arrival spends the token, and for an unbound one may bind the id to a lost key
(`identity.go:176`); a restarted Registry's first roster lists only the replicas that
rejoined, and Agents drop the other tunnels until those do (`roster.go:155`); `kill` is
once per entry, so an entry that outlives a disable refuses the node after it is
enabled again (`node.go:175`); a Control stream past `Server.node` when Close runs is
never asked to leave (`server.go:263`).


## 5. Proofs

All are for any values of the constants that satisfy the assumption named in the
component's module (`ConstantsAssumption`, `EnrolmentAssumption`,
`RosterAssumption`): types of the parameters, distinct names for "none", finite sets
where cardinalities are taken, and what the code clamps its configuration to: for the
pool `LowWatermark <= MinSlots` and at least one active replica
(`SlotConfig.applyDefaults`, `PerReplicaMax`), for the scheduler maxima at least as
large as what they bound. `MaxAge` of `RateLimit` lies beyond every TTL, since ages
are told apart up to it only. Every action has a lemma that it keeps the inductive
invariant.

- **`TunnelSlotProofs`**: `CustodyAlways`, and from it `TypeCorrect`,
  `ExclusiveUseHolds`, `CleanOfferHolds`, `NoSpuriousFaultHolds`. `ExclusiveUse` is
  not inductive: whether a slot may be given depends on frames still in flight.
  `Custody` says where a slot is: in at most one of four hands (offered, given,
  headers on the way, with the handler), with conjuncts for what the wire may
  hold in each (`OneHand`, `OfferedClean`, `GivenClean`, `HeadersInFlight`,
  `HandlerServes`, `WireOrder`, `WireOwner`, `ReadyAfterEnd`), that the holder is
  the slot's current call (`HolderIsCurrent`), that unopened slots are unknown
  (`Unborn`), and the shape of the idle stack. `ContentAlways`, and from it
  `OwnCancelOnlyHolds`, `CompleteResponseHolds`, `BodyIntactHolds`: `Custody` does not
  say what the frames are. `Content` adds that the frames behind a request's headers
  are its own and in the order body, end, Cancel (`Requests`, `Sealed`), that chunks
  fed plus chunks on the wire are the chunks sent (`Bodies`) and chunks received plus
  chunks on the wire the chunks produced (`Responses`), that only the request on the
  wire or in the handler is still being written (`Writer`), that a Cancel follows
  its caller's giving up (`Cancels`), and what a call has been told (`Verdict`).
- **`NodeRegistryProofs`**: `TableAlways`, and from it `TypeCorrect`,
  `CountIsExact`, `NoEntryLeaks`, `MaintenanceIsCurrent`, `RosterReaches`. `TableInv`
  adds to the properties who is registered where (`Places`, `Members`), which
  sections hold which lock (`Locks`, `Held`), that at most one stream owes the
  next `controlsChanged` of an entry (`OneOwes`), and what SetRoster still has to
  do (`MaintenanceKept`, `RosterKept`). The lock order that makes the deadlock is
  also what makes `MaintenanceCurrent` true: the flag is read under both locks.
- **`SlotPoolProofs`**: `BudgetAlways` (`BudgetKept`: the slots that can take a request
  are within the node's budget). `BudgetInv` adds the types of the limits. Every share
  of the budget and every clamped hint stays within the budget, a reconcile opens no
  more than the ceiling leaves, every other step only lowers the count.
  `LivesAlways` (`Lives`: when a slot is registered, and which goroutines run for it)
  gives `TypeCorrect` and `StoppedIsEmptyHolds`. `WatermarkSettlesHolds` and
  `ServingSettlesHolds` speak of a pool at rest; `WatermarkInv` and `ServingInv` extend
  that to every point of the maintenance goroutine. Each step is shown to leave the
  counts alone, or to leave a report or a wake-up token behind (`Quiet`, `Loud`), or
  to be a reconcile, which opens enough; so the one-token channel loses nothing.
- **`EnrolmentProofs`**: `EnrolAlways`, and from it `TypeCorrect`,
  `OneCertPerTokenHolds`, `LetInHolds`, `UsablePairHolds`, `DisableHoldsAlways`,
  `KeyKeptAlways`. Two handlers may both have peeked a good token, so one certificate
  per token needs `Spent`: nobody is past `Consume` while the token is good, one handler
  at most is afterwards, and none once a certificate was granted. `Vouched` follows a
  node id through every place on its way into a certificate (token, ledger, handler,
  answer, journal, file). `Files` says what is on disk at each write behind the
  journal. `Shape` and `Waits` tie a handler's position to what it goes by and to the
  Agent it answers.
- **`SchedulerProofs`**: `CallInvAlways`, and from it `CoolingMeansUntriedHolds`,
  `QueueExactHolds`, `OpenMeansFailingHolds`. `CoolingMeansUntried` speaks of an answer;
  `Tried` says what a call in its loop already knows: what was sent has failed, and an
  empty list left a failure or a cooling candidate behind. `TypeCorrect` is the run's
  `TypeOK`, which bounds every exclusion by its configured maximum; it needs `Waiting`
  (a call that waits for an answer has a candidate). The bound of a cooldown comes from
  the guard in `breakerRegistry.cooldown` and holds whatever the shift yields.
- **`RateLimitProofs`**: `LimitInvAlways`, and from it `TypeCorrect`,
  `InflightExactHolds`, `LeasesBoundedHolds` (the shared limiter's leases, leaked ones
  included, are within the limit whatever the delay of its scripts) and
  `RefusalIsFreeHolds`. `OwnSteps` keeps the two limiters apart. `ImplementsHolds`: both
  limiters implement `Allowance`, step by step, for every cost and every delay within
  its terms and with no further hypothesis. The argument: a bucket read `s` ticks ago
  is at most `s` ticks' refill below what it holds now (`LateRead`), and what a late
  charge leaves is found, now, between the exact charge and that much more
  (`LateCharge`). `RefineInv` adds `Leased` to the invariant: a lease belongs to a
  request that was admitted, so one that is admitted now is a new holder.
- **`JobsProofs`**: `JobsAlways`, and from it `TypeCorrect`, `OrderExactHolds`,
  `NothingInventedHolds`, `ConfirmedIsThereHolds`. `NothingInvented` needs `Unseen`
  (nobody knows of a job before the replica that submitted it has added it) and
  `FetchedSeen` (the same for what a recovery sweep has fetched and not inserted);
  `ConfirmedIsThere` needs `Backed`: what landed and was not yet acknowledged, and
  what was fetched, has a row that reached its sequence or can change no more.
- **`RosterProofs`**: `RosterAlways` and `NeverBackwardsHolds`. A late offer could bring
  back an old roster; it cannot because of `Fresh` (what the stream a replica reads
  holds for it, or before that every offer still to come, is not older than what it
  has), which a new stream gets from `NotAhead` (no copy is ahead of the Registry) and
  `Placed` (offers go to joined streams only, a replica reads one of its own).
  `OwnerAlways` (`Owned`: the listed replicas are those with an owner, a joined stream
  of theirs; `Speaks`: it is the one the replica reads, once that has joined and until
  an older one joins after it) gives `TypeCorrect` and `LiveIsListedHolds`.
  `VersionNamesHolds`: every change takes a new version under
  the lock, so copies with one version are one roster.

*Model-checked only.* The liveness properties (`EveryCallEnds`,
`AbandonedSlotReclaimed`, `Refills`, `StopEnds`, `CallsEnd`, `Reprobed`,
`LeakedSlotReturns`, `EndIsReported`, `EndIsRecorded`, `Enrols`, `OrdersArrive`, `FullyConnected`): they
rest on fairness and are out of the prover's reach. Every invariant and every action
property a passing run checks, and the refinement, has a theorem.

## 6. Not modelled

Stateless translation (HTTP dialects, protobuf, CLI output formats), which keeps
nothing between two calls and is a large part of the code's lines; file, process and container
work (model pull, upgrade, managed ComfyUI); SQL statements behind request handlers,
whose atomicity is the database's; generated code and routers; the Console; the
certificate authority (library cryptography); metrics and logging. The reasons stand
with each component in `PROJECT.json`. Components with state of their own that are not
modelled yet are those of the plan.

## 7. Plan

1. `TunnelClient`: `Client.Run`, the handshake (a context that ends during it,
   `client.go:662`), `startPool` against a concurrent SetDraining or SetActiveReplicas
   (`client.go:691`), drain and backoff. Composes with `SlotPool` through the pool's
   settings and with `Roster` through the manager.
2. `KeyCache`: the Gateway's key cache against the revocation outbox (`relay.go:96`) and
   the usage push with its at-least-once delivery.
3. `RuntimeManager`: Add, Replace and Remove against requests in flight.
4. Proofs: the safety side of the new modules.
