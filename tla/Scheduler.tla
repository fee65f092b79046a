----------------------------- MODULE Scheduler -----------------------------
(***************************************************************************)
(* The Gateway's scheduler (service/aiServeWeaveGateway/scheduler): the     *)
(* circuit breaker and rate-limit cooldown of every candidate, the dispatch *)
(* loop that tries the candidates of a request one after the other, and the *)
(* bounded queue a workflow submission waits in while every node is busy.   *)
(* A candidate is a (node, runtime, model); which of them a request may use *)
(* and in which order (health, labels, access, policy, weights, shuffle) is *)
(* any order of any set of eligible ones.  Instants are kept as the time    *)
(* still to go, so a Tick is the clock and no run is bounded in time.       *)
(***************************************************************************)
EXTENDS Integers, Sequences, FiniteSets

CONSTANTS
  Requests,        \* calls in progress at once; a finished one is reused
  Candidates,
  Kinds,           \* the operations used, of AllKinds
  FailureThreshold, BaseCooldown, MaxCooldown,
  MaxShift,        \* maxShift: more trips than this no longer matter
  LimitCooldown, MaxLimitCooldown,
  RetryAfters,     \* what a rate_limited answer may ask for; 0: nothing
  QueueMaxWait, QueueRetryInterval, QueueMaxWaiters

\* chat stands for Chat, Embed, Rerank and ChatStream; messages for
\* MessagesStart; submit for SubmitWorkflow; pinned for the calls to a
\* candidate chosen before (Transcribe, Messages of a session with a record,
\* SubmitWorkflowTo, UploadInput, status, events, cancel, artifacts).
AllKinds == {"chat", "messages", "submit", "pinned"}

ASSUME ConstantsAssumption ==
  /\ IsFiniteSet(Requests) /\ IsFiniteSet(Candidates)
  /\ Kinds \subseteq AllKinds
  /\ FailureThreshold \in Nat \ {0} /\ MaxShift \in Nat
  /\ BaseCooldown \in Nat \ {0} /\ MaxCooldown \in Nat /\ MaxCooldown >= BaseCooldown
  /\ LimitCooldown \in Nat \ {0} /\ MaxLimitCooldown \in Nat
  /\ MaxLimitCooldown >= LimitCooldown
  /\ RetryAfters \subseteq Nat
  /\ QueueMaxWait \in Nat /\ QueueRetryInterval \in Nat \ {0}
  /\ QueueMaxWaiters \in Nat \ {0}

VARIABLES
  \* breakerState of a candidate; a missing entry is the zero one
  failures, trips, open, openFor, limitedFor,
  \* one call of the scheduler
  pc,        \* idle, select, loop, wait, queue, timer, done
  kind, todo, cooled, failed, answer,
  \* the queue of SubmitWorkflow
  queued, left, timer, depth,
  \* what happened, for the properties
  sent,      \* the call was dispatched to some candidate
  orphan,    \* a backend has the workflow of this call, and the call goes on
  failing    \* the last outcome recorded for a candidate was a failure

breaker == <<failures, trips, open, openFor, limitedFor>>
call == <<pc, kind, todo, cooled, failed, answer>>
queue == <<queued, left, timer, depth>>
history == <<sent, orphan, failing>>
vars == <<breaker, call, queue, history>>

Lesser(a, b) == IF a < b THEN a ELSE b

-----------------------------------------------------------------------------
(* The outcomes of one dispatch.                                           *)

NoOutcome == [code |-> "none", retryable |-> FALSE, taken |-> FALSE, after |-> 0]
Outcome(code, retryable, reached) ==
  [code |-> code, retryable |-> retryable, taken |-> reached, after |-> 0]

\* What Dispatch and the reading of its response return.  A connection error
\* with Retryable set is raised before the request is written; one without is
\* slotDeathError, a slot that died once the backend may have the request.
Outcomes ==
  {Outcome("ok", FALSE, TRUE), Outcome("backpressure", TRUE, FALSE),
   Outcome("connection", TRUE, FALSE), Outcome("closed", FALSE, FALSE),
   Outcome("other", FALSE, FALSE)}
    \cup {Outcome("connection", FALSE, t) : t \in BOOLEAN}
    \cup {Outcome("upstream", f, TRUE) : f \in BOOLEAN}
    \cup {[code |-> "rate_limited", retryable |-> f, taken |-> FALSE, after |-> a]
            : f \in BOOLEAN, a \in RetryAfters}

BreakerFailure(o) == o.code \in {"connection", "upstream"}

SubmitRetryable(o) == o.code \in {"backpressure", "rate_limited", "connection", "closed"}
MessagesStartRetryable(o) == o.retryable \/ o.code \in {"backpressure", "closed", "rate_limited"}

\* Whether the loop of a call goes on to the next candidate.
Retry(k, o) ==
  \/ k = "chat" /\ o.retryable
  \/ k = "messages" /\ MessagesStartRetryable(o)
  \/ k = "submit" /\ SubmitRetryable(o)

-----------------------------------------------------------------------------
(* breakerRegistry.                                                        *)

\* Mutant: the open window never elapses by itself: only a success would close it.
MutEligible(c) == ~open[c]

Eligible(c) == open[c] => openFor[c] = 0
Limited(c) == limitedFor[c] > 0

\* The guard d <= 0 is the code's own against a shift that overflows.
Cooldown(n) ==
  LET d == BaseCooldown * 2^Lesser(n, MaxShift)
  IN IF d <= 0 \/ d > MaxCooldown THEN MaxCooldown ELSE d

\* Mutant: limitWindow without its cap.
MutLimitWindow(after) == IF after = 0 THEN LimitCooldown ELSE after

LimitWindow(after) == Lesser(IF after = 0 THEN LimitCooldown ELSE after, MaxLimitCooldown)

\* An outcome that is not a breaker failure: any answer of the node.
RecordAnswer(c, o) ==
  /\ failures' = [failures EXCEPT ![c] = 0]
  /\ trips' = [trips EXCEPT ![c] = 0]
  /\ open' = [open EXCEPT ![c] = FALSE]
  /\ limitedFor' = [limitedFor EXCEPT ![c] =
       IF o.code = "rate_limited" THEN LimitWindow(o.after)
       ELSE IF o.code = "ok" THEN 0 ELSE @]
  /\ UNCHANGED openFor

\* The counters stop where more no longer changes a decision.
RecordFailure(c) ==
  LET n == Lesser(failures[c] + 1, FailureThreshold) IN
  /\ failures' = [failures EXCEPT ![c] = n]
  /\ IF n >= FailureThreshold
       THEN /\ open' = [open EXCEPT ![c] = TRUE]
            /\ openFor' = [openFor EXCEPT ![c] = Cooldown(trips[c])]
            /\ trips' = [trips EXCEPT ![c] = Lesser(@ + 1, MaxShift)]
       ELSE UNCHANGED <<open, openFor, trips>>
  /\ UNCHANGED limitedFor

Record(c, o) ==
  /\ IF BreakerFailure(o) THEN RecordFailure(c) ELSE RecordAnswer(c, o)
  /\ failing' = [failing EXCEPT ![c] = BreakerFailure(o)]

-----------------------------------------------------------------------------
(* The calls.                                                              *)

Init ==
  /\ failures = [c \in Candidates |-> 0]
  /\ trips = [c \in Candidates |-> 0]
  /\ open = [c \in Candidates |-> FALSE]
  /\ openFor = [c \in Candidates |-> 0]
  /\ limitedFor = [c \in Candidates |-> 0]
  /\ pc = [r \in Requests |-> "idle"]
  /\ kind = [r \in Requests |-> "none"]
  /\ todo = [r \in Requests |-> <<>>]
  /\ cooled = [r \in Requests |-> 0]
  /\ failed = [r \in Requests |-> FALSE]
  /\ answer = [r \in Requests |-> "none"]
  /\ queued = [r \in Requests |-> FALSE]
  /\ left = [r \in Requests |-> 0]
  /\ timer = [r \in Requests |-> 0]
  /\ depth = 0
  /\ sent = [r \in Requests |-> FALSE]
  /\ orphan = [r \in Requests |-> FALSE]
  /\ failing = [c \in Candidates |-> FALSE]

Go(r, p) == pc' = [pc EXCEPT ![r] = p]

\* The call returns; the deferred releaseQueueSlot of a queued one runs.  Its
\* locals go, but for the RetryAfter of a cooling answer.
Finish(r, a) ==
  /\ Go(r, "done")
  /\ answer' = [answer EXCEPT ![r] = a]
  /\ depth' = IF queued[r] THEN depth - 1 ELSE depth
  /\ queued' = [queued EXCEPT ![r] = FALSE]
  /\ left' = [left EXCEPT ![r] = 0]
  /\ timer' = [timer EXCEPT ![r] = 0]
  /\ todo' = [todo EXCEPT ![r] = <<>>]
  /\ kind' = [kind EXCEPT ![r] = "none"]
  /\ failed' = [failed EXCEPT ![r] = FALSE]
  /\ cooled' = [cooled EXCEPT ![r] = IF a = "cooling" THEN @ ELSE 0]
  /\ sent' = [sent EXCEPT ![r] = @ /\ a = "cooling"]
  /\ orphan' = [orphan EXCEPT ![r] = FALSE]

Arrive(r, k) ==
  /\ pc[r] \in {"idle", "done"}
  /\ Go(r, "select")
  /\ kind' = [kind EXCEPT ![r] = k]
  /\ cooled' = [cooled EXCEPT ![r] = 0]
  /\ answer' = [answer EXCEPT ![r] = "none"]
  /\ sent' = [sent EXCEPT ![r] = FALSE]
  /\ UNCHANGED <<breaker, todo, failed, queue, orphan, failing>>

Orders(S) == {q \in [1..Cardinality(S) -> S] : \A i, j \in DOMAIN q : q[i] = q[j] => i = j}

\* The candidates a call may get: for a pinned one the candidate it names,
\* whatever its breaker says.
Lists(k) ==
  IF k = "pinned" THEN {<<c>> : c \in Candidates}
  ELSE UNION {Orders(S) : S \in SUBSET {c \in Candidates : Eligible(c)}}

\* pickBy: the candidates are chosen once, at this instant.
Select(r) ==
  /\ pc[r] = "select"
  /\ \E list \in Lists(kind[r]) \ {<<>>} :
       todo' = [todo EXCEPT ![r] = list]
  /\ Go(r, "loop")
  /\ UNCHANGED <<breaker, kind, cooled, failed, answer, queue, history>>

NoCandidates(r) ==
  /\ pc[r] = "select" /\ kind[r] # "pinned"
  /\ Finish(r, "nocandidate")
  /\ UNCHANGED <<breaker, failing>>

LoopAt(r, c) == pc[r] = "loop" /\ todo[r] # <<>> /\ c = Head(todo[r])

\* skipCooling, in the loops that have it.
SkipCooling(r, c) ==
  /\ LoopAt(r, c)
  /\ kind[r] \in {"chat", "messages"} /\ Limited(c)
  /\ cooled' = [cooled EXCEPT ![r] =
       IF @ = 0 THEN limitedFor[c] ELSE Lesser(@, limitedFor[c])]
  /\ todo' = [todo EXCEPT ![r] = Tail(@)]
  /\ UNCHANGED <<breaker, pc, kind, failed, answer, queue, history>>

Send(r, c) ==
  /\ LoopAt(r, c)
  /\ kind[r] \in {"chat", "messages"} => ~Limited(c)
  /\ Go(r, "wait")
  /\ sent' = [sent EXCEPT ![r] = TRUE]
  /\ UNCHANGED <<breaker, kind, todo, cooled, failed, answer, queue, orphan, failing>>

\* The dispatch returns and is recorded; the loop returns or goes on.
Answered(r, o) ==
  LET c == Head(todo[r]) IN
  /\ pc[r] = "wait"
  /\ Record(c, o)
  /\ \/ o.code = "ok" /\ Finish(r, "ok")
     \/ o.code # "ok" /\ ~Retry(kind[r], o) /\ Finish(r, "error")
     \/ /\ Retry(kind[r], o)
        /\ Go(r, "loop")
        /\ todo' = [todo EXCEPT ![r] = Tail(@)]
        /\ failed' = [failed EXCEPT ![r] = TRUE]
        /\ orphan' = [orphan EXCEPT ![r] = @ \/ (kind[r] = "submit" /\ o.taken)]
        /\ UNCHANGED <<kind, cooled, answer, queue, sent>>

\* Mutant: or prefers the cooling error over the failure that happened.
MutExhausted(r) ==
  /\ pc[r] = "loop" /\ todo[r] = <<>> /\ kind[r] # "submit"
  /\ Finish(r, IF cooled[r] > 0 THEN "cooling" ELSE "error")
  /\ UNCHANGED <<breaker, failing>>

\* The end of a pass: cooled.or(lastErr) of an inference call.
Exhausted(r) ==
  /\ pc[r] = "loop" /\ todo[r] = <<>> /\ kind[r] # "submit"
  /\ Finish(r, IF failed[r] THEN "error" ELSE "cooling")
  /\ UNCHANGED <<breaker, failing>>

\* SubmitWorkflow after its first pass: queueSubmitWorkflow when it is
\* configured and a waiter slot is free, else the failure.
SubmitExhausted(r) ==
  /\ pc[r] = "loop" /\ todo[r] = <<>> /\ kind[r] = "submit"
  /\ \/ /\ queued[r]
        /\ Go(r, "queue")
        /\ UNCHANGED <<kind, todo, cooled, failed, answer, queue, sent, orphan>>
     \/ /\ ~queued[r] /\ QueueMaxWait > 0 /\ depth < QueueMaxWaiters
        /\ Go(r, "queue")
        /\ depth' = depth + 1
        /\ queued' = [queued EXCEPT ![r] = TRUE]
        /\ left' = [left EXCEPT ![r] = QueueMaxWait]
        /\ UNCHANGED <<kind, todo, cooled, failed, answer, timer, sent, orphan>>
     \/ /\ ~queued[r] /\ (QueueMaxWait = 0 \/ depth >= QueueMaxWaiters)
        /\ Finish(r, "error")
  /\ UNCHANGED <<breaker, failing>>

QueueTimeout(r) ==
  /\ pc[r] = "queue" /\ left[r] = 0
  /\ Finish(r, "error")
  /\ UNCHANGED <<breaker, failing>>

QueueWait(r) ==
  /\ pc[r] = "queue" /\ left[r] > 0
  /\ Go(r, "timer")
  /\ timer' = [timer EXCEPT ![r] = Lesser(QueueRetryInterval, left[r])]
  /\ UNCHANGED <<breaker, kind, todo, cooled, failed, answer, queued, left, depth, history>>

\* Mutant: the queue loop computes its deadline anew on each turn.
MutQueueRetry(r) ==
  /\ pc[r] = "timer" /\ timer[r] = 0
  /\ Go(r, "select")
  /\ left' = [left EXCEPT ![r] = QueueMaxWait]
  /\ UNCHANGED <<breaker, kind, todo, cooled, failed, answer, queued, timer, depth, history>>

QueueRetry(r) ==
  /\ pc[r] = "timer" /\ timer[r] = 0
  /\ Go(r, "select")
  /\ UNCHANGED <<breaker, kind, todo, cooled, failed, answer, queue, history>>

\* Mutant: the cancelled wait returns without its deferred release.
MutQueueCancelled(r) ==
  /\ pc[r] = "timer"
  /\ Go(r, "done")
  /\ answer' = [answer EXCEPT ![r] = "cancelled"]
  /\ UNCHANGED <<breaker, kind, todo, cooled, failed, queue, history>>

\* The caller's context ends during the wait.
QueueCancelled(r) ==
  /\ pc[r] = "timer"
  /\ Finish(r, "cancelled")
  /\ UNCHANGED <<breaker, failing>>

Dec(f) == [x \in DOMAIN f |-> IF f[x] > 0 THEN f[x] - 1 ELSE 0]

Tick ==
  /\ openFor' = Dec(openFor)
  /\ limitedFor' = Dec(limitedFor)
  /\ left' = Dec(left)
  /\ timer' = Dec(timer)
  /\ UNCHANGED <<failures, trips, open, call, queued, depth, history>>

Step(r) ==
  \/ Select(r)
  \/ NoCandidates(r)
  \/ \E c \in Candidates : SkipCooling(r, c)
  \/ \E c \in Candidates : Send(r, c)
  \/ \E o \in Outcomes : Answered(r, o)
  \/ Exhausted(r)
  \/ SubmitExhausted(r)
  \/ QueueTimeout(r)
  \/ QueueWait(r)
  \/ QueueRetry(r)

Next ==
  \/ Tick
  \/ \E r \in Requests :
       \/ Step(r)
       \/ QueueCancelled(r)
       \/ \E k \in Kinds : Arrive(r, k)

Spec == Init /\ [][Next]_vars

\* A goroutine that can move does, a dispatched call is answered (the promise
\* of the tunnel, TunnelSlot!EveryCallEnds), and time passes.
FairSpec == Spec /\ WF_vars(Tick) /\ \A r \in Requests : WF_vars(Step(r))

-----------------------------------------------------------------------------
(* Properties.                                                             *)

\* The state has its type; in particular no exclusion outlasts the configured
\* maximum, whatever the backend asked for and however often it tripped.
TypeOK ==
  /\ failures \in [Candidates -> 0..FailureThreshold]
  /\ trips \in [Candidates -> 0..MaxShift]
  /\ open \in [Candidates -> BOOLEAN]
  /\ openFor \in [Candidates -> 0..MaxCooldown]
  /\ limitedFor \in [Candidates -> 0..MaxLimitCooldown]
  /\ pc \in [Requests -> {"idle", "select", "loop", "wait", "queue", "timer", "done"}]
  /\ kind \in [Requests -> Kinds \cup {"none"}]
  /\ todo \in [Requests -> Seq(Candidates)]
  /\ cooled \in [Requests -> 0..MaxLimitCooldown]
  /\ failed \in [Requests -> BOOLEAN]
  /\ answer \in [Requests -> {"none", "ok", "error", "cooling", "nocandidate", "cancelled"}]
  /\ queued \in [Requests -> BOOLEAN]
  /\ left \in [Requests -> 0..QueueMaxWait]
  /\ timer \in [Requests -> 0..QueueRetryInterval]
  /\ depth \in Nat
  /\ sent \in [Requests -> BOOLEAN]
  /\ orphan \in [Requests -> BOOLEAN]
  /\ failing \in [Candidates -> BOOLEAN]

\* breakerRegistry.record: a breaker is open only while the last thing heard of
\* its candidate is a failure; any answer, from whichever call, closes it.
OpenMeansFailing ==
  \A c \in Candidates : open[c] => failing[c]

\* cooledCandidates.or: a call is told that everything is cooling down only
\* when nothing was dispatched for it, and is told when to come back.
CoolingMeansUntried ==
  \A r \in Requests : answer[r] = "cooling" => ~sent[r] /\ cooled[r] > 0

\* queueSubmitWorkflow: the waiter slots in use are those of the submissions
\* still waiting, never more than the limit, and none is kept by a call that
\* has returned, whether it was resolved, timed out or was cancelled.
QueueExact ==
  /\ depth = Cardinality({r \in Requests : queued[r]})
  /\ depth <= QueueMaxWaiters
  /\ \A r \in Requests : queued[r] => pc[r] \notin {"idle", "done"}

\* submitRetryable: "is it certain the backend never saw it": a submission is
\* sent to another node only then, never while a backend may be running it.
NoSecondRun ==
  \A r \in Requests : orphan[r] => pc[r] # "wait"

\* Every call of the scheduler returns, a queued submission included.
CallsEnd == \A r \in Requests : pc[r] = "select" ~> pc[r] = "done"

\* A candidate is never excluded for good: again and again it may be chosen,
\* and its next request is the probe, unless calls pinned to it keep failing.
Reprobed ==
  \A c \in Candidates :
    []<>(Eligible(c) \/ \E r \in Requests : kind[r] = "pinned" /\ pc[r] = "wait")

=============================================================================
