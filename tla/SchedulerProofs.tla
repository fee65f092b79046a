-------------------------- MODULE SchedulerProofs ---------------------------
(***************************************************************************)
(* What the scheduler promises its callers, for any number of calls and    *)
(* candidates, any thresholds, windows and queue limits, and any outcomes. *)
(***************************************************************************)
EXTENDS Scheduler, FiniteSetTheorems, TLAPS

\* The types the argument needs.  The length of a cooldown plays no part in it.
Types ==
  /\ open \in [Candidates -> BOOLEAN] /\ failing \in [Candidates -> BOOLEAN]
  /\ limitedFor \in [Candidates -> Nat]
  /\ pc \in [Requests -> {"idle", "select", "loop", "wait", "queue", "timer", "done"}]
  /\ todo = [r \in Requests |-> todo[r]]
  /\ cooled \in [Requests -> Nat]
  /\ failed \in [Requests -> BOOLEAN]
  /\ sent \in [Requests -> BOOLEAN]
  /\ queued \in [Requests -> BOOLEAN]
  /\ answer = [r \in Requests |-> answer[r]]
  /\ depth \in Nat

\* What a call still in its loop knows: something sent has failed, and a list
\* that is used up left a failure or a cooling candidate behind.
Tried ==
  \A r \in Requests :
    /\ pc[r] \in {"idle", "done"} => ~failed[r]
    /\ pc[r] \notin {"idle", "done", "wait"} => (sent[r] => failed[r])
    /\ pc[r] = "loop" /\ todo[r] = <<>> => failed[r] \/ cooled[r] > 0
    /\ answer[r] = "cooling" => pc[r] = "done" /\ ~sent[r] /\ cooled[r] > 0

\* The inductive invariant.
CallInv == Types /\ Tried /\ QueueExact /\ OpenMeansFailing

-----------------------------------------------------------------------------
(* Lemmas.                                                                 *)

\* A wait asked for by a backend is a number.
LEMMA WindowIsNat ==
  \A o \in Outcomes : LimitWindow(o.after) \in Nat
<1>1. \A o \in Outcomes : o.after \in Nat
  BY ConstantsAssumption DEF Outcomes, Outcome
<1> QED BY <1>1, ConstantsAssumption DEF LimitWindow, Lesser

\* The waiter places in use, when a call takes one or gives one back.
LEMMA QueuedCount ==
  ASSUME queued \in [Requests -> BOOLEAN], NEW r \in Requests
  PROVE  LET Q == {q \in Requests : queued[q]} IN
         /\ Cardinality(Q) \in Nat
         /\ queued[r] => Cardinality({q \in Requests : [queued EXCEPT ![r] = FALSE][q]})
                           = Cardinality(Q) - 1
         /\ ~queued[r] => Cardinality({q \in Requests : [queued EXCEPT ![r] = FALSE][q]})
                            = Cardinality(Q)
         /\ ~queued[r] => Cardinality({q \in Requests : [queued EXCEPT ![r] = TRUE][q]})
                            = Cardinality(Q) + 1
<1> DEFINE Q == {q \in Requests : queued[q]}
<1>1. IsFiniteSet(Q) BY ConstantsAssumption, FS_Subset, Q \subseteq Requests
<1>2. {q \in Requests : [queued EXCEPT ![r] = FALSE][q]} = Q \ {r} OBVIOUS
<1>3. {q \in Requests : [queued EXCEPT ![r] = TRUE][q]} = Q \cup {r} OBVIOUS
<1>4. Cardinality(Q) \in Nat BY <1>1, FS_CardinalityType
<1>5. queued[r] => r \in Q OBVIOUS
<1>6. ~queued[r] => Q \ {r} = Q /\ r \notin Q OBVIOUS
<1> HIDE DEF Q
<1>7. queued[r] => Cardinality(Q \ {r}) = Cardinality(Q) - 1
  BY <1>1, <1>5, FS_RemoveElement
<1>8. ~queued[r] => Cardinality(Q \cup {r}) = Cardinality(Q) + 1
  BY <1>1, <1>6, FS_AddElement
<1> QED BY <1>2, <1>3, <1>4, <1>6, <1>7, <1>8 DEF Q

-----------------------------------------------------------------------------
(* The steps.                                                              *)

LEMMA InitHolds == Init => CallInv
<1> SUFFICES ASSUME Init PROVE CallInv OBVIOUS
<1>1. Types BY DEF Init, Types
<1>2. Tried BY DEF Init, Tried
<1>3. QueueExact
  <2>1. {r \in Requests : queued[r]} = {} BY DEF Init
  <2>2. Cardinality({}) = 0 BY FS_EmptySet
  <2>3. \A r \in Requests : ~queued[r] BY DEF Init
  <2>4. depth = 0 BY DEF Init
  <2>5. 0 <= QueueMaxWaiters BY ConstantsAssumption
  <2> QED BY <2>1, <2>2, <2>3, <2>4, <2>5 DEF QueueExact
<1>4. OpenMeansFailing BY DEF Init, OpenMeansFailing
<1> QED BY <1>1, <1>2, <1>3, <1>4 DEF CallInv

\* A call that returns: what it is told fits what it did, and its place in the
\* queue is free again.
LEMMA FinishKeeps ==
  ASSUME Types, Tried, QueueExact, NEW r \in Requests, NEW a,
         pc[r] \notin {"idle", "done"}, Finish(r, a),
         a = "cooling" => ~sent[r] /\ cooled[r] > 0
  PROVE  /\ pc' \in [Requests -> {"idle", "select", "loop", "wait", "queue", "timer", "done"}]
         /\ todo' = [q \in Requests |-> todo'[q]]
         /\ cooled' \in [Requests -> Nat]
         /\ failed' \in [Requests -> BOOLEAN] /\ sent' \in [Requests -> BOOLEAN]
         /\ queued' \in [Requests -> BOOLEAN]
         /\ answer' = [q \in Requests |-> answer'[q]]
         /\ depth' \in Nat
         /\ Tried' /\ QueueExact'
<1>1. depth' \in Nat /\ QueueExact'
  <2>1. queued \in [Requests -> BOOLEAN] /\ queued' = [queued EXCEPT ![r] = FALSE]
    BY DEF Types, Finish
  <2>2. /\ depth = Cardinality({q \in Requests : queued[q]})
        /\ depth \in Nat /\ depth <= QueueMaxWaiters /\ QueueMaxWaiters \in Nat
    BY ConstantsAssumption DEF QueueExact, Types
  <2>3. depth' = IF queued[r] THEN depth - 1 ELSE depth BY DEF Finish
  <2>4. /\ depth' = Cardinality({q \in Requests : queued'[q]})
        /\ Cardinality({q \in Requests : queued'[q]}) \in Nat
    <3>1. queued' \in [Requests -> BOOLEAN] BY <2>1
    <3>2. Cardinality({q \in Requests : queued'[q]}) \in Nat
      BY ConstantsAssumption, FS_Subset, FS_CardinalityType,
         {q \in Requests : queued'[q]} \subseteq Requests
    <3> QED BY <2>1, <2>2, <2>3, <3>2, QueuedCount
  <2>5. depth' <= QueueMaxWaiters BY <2>2, <2>3
  <2>6. \A q \in Requests : queued'[q] => pc'[q] \notin {"idle", "done"}
    BY <2>1 DEF Types, QueueExact, Finish, Go
  <2> QED BY <2>4, <2>5, <2>6 DEF QueueExact
<1>2. Tried' BY DEF Types, Tried, Finish, Go
<1> QED BY <1>1, <1>2 DEF Types, Finish, Go

\* A call arrives.
LEMMA ArriveKeeps ==
  ASSUME CallInv, NEW r \in Requests, NEW k, Arrive(r, k)
  PROVE  CallInv'
<1>1. Types /\ Tried /\ QueueExact /\ OpenMeansFailing BY DEF CallInv
<1>2. UNCHANGED <<open, failing, limitedFor, queued, depth>>
  BY DEF Arrive, breaker, queue, history
<1>3. Types' BY <1>1, <1>2 DEF Types, Arrive, Go, history
<1>4. Tried' BY <1>1, <1>2 DEF Types, Tried, Arrive, Go, call, queue, history
<1>5. QueueExact'
  <2>1. \A q \in Requests : queued[q] => pc'[q] \notin {"idle", "done"}
    BY <1>1 DEF Types, QueueExact, Arrive, Go
  <2> QED BY <1>1, <1>2, <2>1 DEF QueueExact
<1>6. OpenMeansFailing' BY <1>1, <1>2 DEF OpenMeansFailing
<1> QED BY <1>3, <1>4, <1>5, <1>6 DEF CallInv

\* Its candidates are chosen, at least one.
LEMMA SelectKeeps ==
  ASSUME CallInv, NEW r \in Requests, Select(r)
  PROVE  CallInv'
<1>1. Types /\ Tried /\ QueueExact /\ OpenMeansFailing BY DEF CallInv
<1>2. UNCHANGED <<open, failing, limitedFor, queued, depth>>
  BY DEF Select, breaker, queue, history
<1>3. Types' BY <1>1, <1>2 DEF Types, Select, Go, history
<1>4. Tried' BY <1>1, <1>2 DEF Types, Tried, Select, Go, call, queue, history
<1>5. QueueExact'
  <2>1. \A q \in Requests : queued[q] => pc'[q] \notin {"idle", "done"}
    BY <1>1 DEF Types, QueueExact, Select, Go
  <2> QED BY <1>1, <1>2, <2>1 DEF QueueExact
<1>6. OpenMeansFailing' BY <1>1, <1>2 DEF OpenMeansFailing
<1> QED BY <1>3, <1>4, <1>5, <1>6 DEF CallInv

\* There is none.
LEMMA NoCandidatesKeeps ==
  ASSUME CallInv, NEW r \in Requests, NoCandidates(r)
  PROVE  CallInv'
<1>1. Types /\ Tried /\ QueueExact /\ OpenMeansFailing BY DEF CallInv
<1>2. PICK a : /\ Finish(r, a) /\ pc[r] \notin {"idle", "done"}
               /\ a = "cooling" => ~sent[r] /\ cooled[r] > 0
  BY DEF NoCandidates
<1>3. UNCHANGED <<open, limitedFor, failing>> BY DEF NoCandidates, breaker
<1>4. OpenMeansFailing' BY <1>1, <1>3 DEF OpenMeansFailing
<1> QED BY <1>1, <1>2, <1>3, <1>4, FinishKeeps DEF CallInv, Types

\* A cooling candidate is passed over, and remembered.
LEMMA SkipCoolingKeeps ==
  ASSUME CallInv, NEW r \in Requests, NEW c \in Candidates, SkipCooling(r, c)
  PROVE  CallInv'
<1>1. Types /\ Tried /\ QueueExact /\ OpenMeansFailing BY DEF CallInv
<1>2. UNCHANGED <<open, failing, limitedFor, queued, depth>>
  BY DEF SkipCooling, breaker, queue, history
<1>3. Types' BY <1>1, <1>2 DEF Types, SkipCooling, Go, LoopAt, Limited, Lesser, history
<1>4. Tried' BY <1>1, <1>2 DEF Types, Tried, SkipCooling, Go, call, queue, history,
               LoopAt, Limited, Lesser
<1>5. QueueExact'
  <2>1. \A q \in Requests : queued[q] => pc'[q] \notin {"idle", "done"}
    BY <1>1 DEF Types, QueueExact, SkipCooling, Go
  <2> QED BY <1>1, <1>2, <2>1 DEF QueueExact
<1>6. OpenMeansFailing' BY <1>1, <1>2 DEF OpenMeansFailing
<1> QED BY <1>3, <1>4, <1>5, <1>6 DEF CallInv

\* A candidate is tried.
LEMMA SendKeeps ==
  ASSUME CallInv, NEW r \in Requests, NEW c \in Candidates, Send(r, c)
  PROVE  CallInv'
<1>1. Types /\ Tried /\ QueueExact /\ OpenMeansFailing BY DEF CallInv
<1>2. UNCHANGED <<open, failing, limitedFor, queued, depth>>
  BY DEF Send, breaker, queue, history
<1>3. Types' BY <1>1, <1>2 DEF Types, Send, Go, LoopAt, history
<1>4. Tried' BY <1>1, <1>2 DEF Types, Tried, Send, Go, call, queue, history, LoopAt
<1>5. QueueExact'
  <2>1. \A q \in Requests : queued[q] => pc'[q] \notin {"idle", "done"}
    BY <1>1 DEF Types, QueueExact, Send, Go
  <2> QED BY <1>1, <1>2, <2>1 DEF QueueExact
<1>6. OpenMeansFailing' BY <1>1, <1>2 DEF OpenMeansFailing
<1> QED BY <1>3, <1>4, <1>5, <1>6 DEF CallInv

\* A candidate's answer is recorded: any answer closes the breaker, and the
\* call returns or goes on with a failure to remember.
LEMMA RecordKeeps ==
  ASSUME Types, OpenMeansFailing, NEW c, NEW o \in Outcomes, Record(c, o)
  PROVE  /\ open' \in [Candidates -> BOOLEAN] /\ failing' \in [Candidates -> BOOLEAN]
         /\ limitedFor' \in [Candidates -> Nat] /\ OpenMeansFailing'
<1>1. CASE BreakerFailure(o)
  <2>1. RecordFailure(c) /\ failing' = [failing EXCEPT ![c] = TRUE]
    BY <1>1 DEF Record
  <2>2. /\ open' = [open EXCEPT ![c] = TRUE] \/ open' = open
        /\ limitedFor' = limitedFor
    BY <2>1 DEF RecordFailure
  <2> QED BY <2>1, <2>2 DEF Types, OpenMeansFailing
<1>2. CASE ~BreakerFailure(o)
  <2>1. RecordAnswer(c, o) /\ failing' = [failing EXCEPT ![c] = FALSE]
    <3>1. BreakerFailure(o) = FALSE BY <1>2 DEF BreakerFailure
    <3>2. RecordAnswer(c, o) BY <1>2 DEF Record
    <3>3. failing' = [failing EXCEPT ![c] = BreakerFailure(o)] BY DEF Record
    <3> QED BY <3>1, <3>2, <3>3
  <2>2. LimitWindow(o.after) \in Nat BY WindowIsNat
  <2>3. open' = [open EXCEPT ![c] = FALSE] BY <2>1 DEF RecordAnswer
  <2>4. \E x \in Nat : limitedFor' = [limitedFor EXCEPT ![c] = x] \/ limitedFor' = limitedFor
    <3>1. CASE o.code = "rate_limited" BY <2>1, <2>2, <3>1 DEF RecordAnswer
    <3>2. CASE o.code = "ok" BY <2>1, <3>2 DEF RecordAnswer
    <3>3. CASE o.code \notin {"rate_limited", "ok"}
      BY <2>1, <3>3 DEF RecordAnswer, Types
    <3> QED BY <3>1, <3>2, <3>3
  <2> QED BY <2>1, <2>3, <2>4 DEF Types, OpenMeansFailing
<1> QED BY <1>1, <1>2

LEMMA AnsweredKeeps ==
  ASSUME CallInv, NEW r \in Requests, NEW o \in Outcomes, Answered(r, o)
  PROVE  CallInv'
<1>1. Types /\ Tried /\ QueueExact /\ OpenMeansFailing BY DEF CallInv
<1>2. /\ open' \in [Candidates -> BOOLEAN] /\ failing' \in [Candidates -> BOOLEAN]
      /\ limitedFor' \in [Candidates -> Nat] /\ OpenMeansFailing'
  BY <1>1, RecordKeeps DEF Answered
<1>3. pc[r] = "wait" BY DEF Answered
<1>4. CASE Finish(r, "ok") \/ Finish(r, "error")
  BY <1>1, <1>2, <1>3, <1>4, FinishKeeps DEF CallInv, Types
<1>5. CASE /\ Go(r, "loop")
           /\ todo' = [todo EXCEPT ![r] = Tail(@)]
           /\ failed' = [failed EXCEPT ![r] = TRUE]
           /\ UNCHANGED <<kind, cooled, answer, queue, sent>>
  <2>1. Types' BY <1>1, <1>2, <1>5 DEF Types, Go, queue
  <2>2. Tried' BY <1>1, <1>3, <1>5 DEF Types, Tried, Go
  <2>3. \A q \in Requests : queued[q] => pc'[q] \notin {"idle", "done"}
    BY <1>1, <1>5 DEF Types, QueueExact, Go
  <2>4. QueueExact' BY <1>1, <1>5, <2>3 DEF QueueExact, queue
  <2> QED BY <1>2, <2>1, <2>2, <2>4 DEF CallInv
<1> QED BY <1>4, <1>5 DEF Answered

\* The list is used up: a failure goes before a cooling answer.
LEMMA ExhaustedKeeps ==
  ASSUME CallInv, NEW r \in Requests, Exhausted(r)
  PROVE  CallInv'
<1>1. Types /\ Tried /\ QueueExact /\ OpenMeansFailing BY DEF CallInv
<1>2. PICK a : /\ Finish(r, a) /\ pc[r] \notin {"idle", "done"}
               /\ a = "cooling" => ~sent[r] /\ cooled[r] > 0
  <2>1. sent[r] => failed[r] BY <1>1 DEF Tried, Exhausted
  <2>2. failed[r] \/ cooled[r] > 0 BY <1>1 DEF Tried, Exhausted
  <2> QED BY <2>1, <2>2 DEF Exhausted
<1>3. UNCHANGED <<open, limitedFor, failing>> BY DEF Exhausted, breaker
<1>4. OpenMeansFailing' BY <1>1, <1>3 DEF OpenMeansFailing
<1> QED BY <1>1, <1>2, <1>3, <1>4, FinishKeeps DEF CallInv, Types

\* A submission queues, goes on waiting in its place, or fails.
LEMMA SubmitExhaustedKeeps ==
  ASSUME CallInv, NEW r \in Requests, SubmitExhausted(r)
  PROVE  CallInv'
<1>1. Types /\ Tried /\ QueueExact /\ OpenMeansFailing BY DEF CallInv
<1>2. pc[r] = "loop" /\ UNCHANGED <<open, limitedFor, failing>>
  BY DEF SubmitExhausted, breaker
<1>3. OpenMeansFailing' BY <1>1, <1>2 DEF OpenMeansFailing
<1>4. CASE Finish(r, "error")
  BY <1>1, <1>2, <1>3, <1>4, FinishKeeps DEF CallInv, Types
<1>5. CASE /\ Go(r, "queue")
           /\ UNCHANGED <<kind, todo, cooled, failed, answer, queue, sent, orphan>>
  <2>1. Types' BY <1>1, <1>2, <1>5 DEF Types, Go, queue
  <2>2. Tried' BY <1>1, <1>2, <1>5 DEF Types, Tried, Go
  <2>3. \A q \in Requests : queued[q] => pc'[q] \notin {"idle", "done"}
    BY <1>1, <1>5 DEF Types, QueueExact, Go
  <2>4. QueueExact' BY <1>1, <1>5, <2>3 DEF QueueExact, queue
  <2> QED BY <1>3, <2>1, <2>2, <2>4 DEF CallInv
<1>6. CASE /\ ~queued[r] /\ depth < QueueMaxWaiters
           /\ Go(r, "queue")
           /\ depth' = depth + 1
           /\ queued' = [queued EXCEPT ![r] = TRUE]
           /\ UNCHANGED <<kind, todo, cooled, failed, answer, timer, sent, orphan>>
  <2>1. Types' BY <1>1, <1>2, <1>6 DEF Types, Go
  <2>2. Tried' BY <1>1, <1>2, <1>6 DEF Types, Tried, Go
  <2>3. depth' = Cardinality({q \in Requests : queued'[q]})
    <3>1. queued \in [Requests -> BOOLEAN] /\ depth = Cardinality({q \in Requests : queued[q]})
      BY <1>1 DEF Types, QueueExact
    <3> QED BY <1>6, <3>1, QueuedCount
  <2>4. depth' <= QueueMaxWaiters BY <1>1, <1>6, ConstantsAssumption DEF Types
  <2>5. \A q \in Requests : queued'[q] => pc'[q] \notin {"idle", "done"}
    BY <1>1, <1>6 DEF Types, QueueExact, Go
  <2>6. QueueExact' BY <2>3, <2>4, <2>5 DEF QueueExact
  <2> QED BY <1>3, <2>1, <2>2, <2>6 DEF CallInv
<1> QED BY <1>4, <1>5, <1>6 DEF SubmitExhausted

\* A queued submission runs out of time.
LEMMA QueueTimeoutKeeps ==
  ASSUME CallInv, NEW r \in Requests, QueueTimeout(r)
  PROVE  CallInv'
<1>1. Types /\ Tried /\ QueueExact /\ OpenMeansFailing BY DEF CallInv
<1>2. PICK a : /\ Finish(r, a) /\ pc[r] \notin {"idle", "done"}
               /\ a = "cooling" => ~sent[r] /\ cooled[r] > 0
  BY DEF QueueTimeout
<1>3. UNCHANGED <<open, limitedFor, failing>> BY DEF QueueTimeout, breaker
<1>4. OpenMeansFailing' BY <1>1, <1>3 DEF OpenMeansFailing
<1> QED BY <1>1, <1>2, <1>3, <1>4, FinishKeeps DEF CallInv, Types

\* It waits for the next turn.
LEMMA QueueWaitKeeps ==
  ASSUME CallInv, NEW r \in Requests, QueueWait(r)
  PROVE  CallInv'
<1>1. Types /\ Tried /\ QueueExact /\ OpenMeansFailing BY DEF CallInv
<1>2. UNCHANGED <<open, failing, limitedFor, queued, depth>>
  BY DEF QueueWait, breaker, queue, history
<1>3. Types' BY <1>1, <1>2 DEF Types, QueueWait, Go, history
<1>4. Tried' BY <1>1, <1>2 DEF Types, Tried, QueueWait, Go, call, queue, history
<1>5. QueueExact'
  <2>1. \A q \in Requests : queued[q] => pc'[q] \notin {"idle", "done"}
    BY <1>1 DEF Types, QueueExact, QueueWait, Go
  <2> QED BY <1>1, <1>2, <2>1 DEF QueueExact
<1>6. OpenMeansFailing' BY <1>1, <1>2 DEF OpenMeansFailing
<1> QED BY <1>3, <1>4, <1>5, <1>6 DEF CallInv

\* It tries again.
LEMMA QueueRetryKeeps ==
  ASSUME CallInv, NEW r \in Requests, QueueRetry(r)
  PROVE  CallInv'
<1>1. Types /\ Tried /\ QueueExact /\ OpenMeansFailing BY DEF CallInv
<1>2. UNCHANGED <<open, failing, limitedFor, queued, depth>>
  BY DEF QueueRetry, breaker, queue, history
<1>3. Types' BY <1>1, <1>2 DEF Types, QueueRetry, Go, queue, history
<1>4. Tried' BY <1>1, <1>2 DEF Types, Tried, QueueRetry, Go, call, queue, history
<1>5. QueueExact'
  <2>1. \A q \in Requests : queued[q] => pc'[q] \notin {"idle", "done"}
    BY <1>1 DEF Types, QueueExact, QueueRetry, Go
  <2> QED BY <1>1, <1>2, <2>1 DEF QueueExact
<1>6. OpenMeansFailing' BY <1>1, <1>2 DEF OpenMeansFailing
<1> QED BY <1>3, <1>4, <1>5, <1>6 DEF CallInv

\* Its caller gives up.
LEMMA QueueCancelledKeeps ==
  ASSUME CallInv, NEW r \in Requests, QueueCancelled(r)
  PROVE  CallInv'
<1>1. Types /\ Tried /\ QueueExact /\ OpenMeansFailing BY DEF CallInv
<1>2. PICK a : /\ Finish(r, a) /\ pc[r] \notin {"idle", "done"}
               /\ a = "cooling" => ~sent[r] /\ cooled[r] > 0
  BY DEF QueueCancelled
<1>3. UNCHANGED <<open, limitedFor, failing>> BY DEF QueueCancelled, breaker
<1>4. OpenMeansFailing' BY <1>1, <1>3 DEF OpenMeansFailing
<1> QED BY <1>1, <1>2, <1>3, <1>4, FinishKeeps DEF CallInv, Types

\* Time passes.
LEMMA TickKeeps ==
  ASSUME CallInv, Tick PROVE CallInv'
<1>1. Types /\ Tried /\ QueueExact /\ OpenMeansFailing BY DEF CallInv
<1>2. UNCHANGED <<open, failing, pc, todo, cooled, failed, sent, queued, answer, depth>>
  BY DEF Tick, call, history
<1>3. limitedFor' \in [Candidates -> Nat]
  BY <1>1 DEF Types, Tick, Dec
<1>4. Types' BY <1>1, <1>2, <1>3 DEF Types
<1>5. Tried' BY <1>1, <1>2 DEF Tried
<1>6. QueueExact' BY <1>1, <1>2 DEF QueueExact
<1>7. OpenMeansFailing' BY <1>1, <1>2 DEF OpenMeansFailing
<1> QED BY <1>4, <1>5, <1>6, <1>7 DEF CallInv

LEMMA StutterKeeps ==
  ASSUME CallInv, UNCHANGED vars PROVE CallInv'
BY DEF CallInv, Types, Tried, QueueExact, OpenMeansFailing, vars, breaker, call, queue, history

\* Every step of the specification keeps the invariant.
LEMMA StepKeeps == CallInv /\ [Next]_vars => CallInv'
<1> SUFFICES ASSUME CallInv, [Next]_vars PROVE CallInv' OBVIOUS
<1>1. ASSUME NEW r \in Requests, Step(r) PROVE CallInv'
  BY <1>1, SelectKeeps, NoCandidatesKeeps, SkipCoolingKeeps, SendKeeps, AnsweredKeeps,
     ExhaustedKeeps, SubmitExhaustedKeeps, QueueTimeoutKeeps, QueueWaitKeeps, QueueRetryKeeps
  DEF Step
<1> QED BY <1>1, TickKeeps, ArriveKeeps, QueueCancelledKeeps, StutterKeeps DEF Next

-----------------------------------------------------------------------------
(* The theorems.                                                           *)

\* The invariant holds in every reachable state.
THEOREM CallInvAlways == Spec => []CallInv
BY InitHolds, StepKeeps, PTL DEF Spec

\* A call is told that everything is cooling down only when nothing was
\* dispatched for it (cooledCandidates.or).
THEOREM CoolingMeansUntriedHolds == Spec => []CoolingMeansUntried
<1>1. CallInv => CoolingMeansUntried BY DEF CallInv, Tried, CoolingMeansUntried
<1> QED BY <1>1, CallInvAlways, PTL

\* The waiter places in use are exactly those of the submissions that wait,
\* and never more than configured (queueSubmitWorkflow).
THEOREM QueueExactHolds == Spec => []QueueExact
<1>1. CallInv => QueueExact BY DEF CallInv
<1> QED BY <1>1, CallInvAlways, PTL

\* A breaker is open only while the last thing heard of its candidate is a
\* failure (breakerRegistry.record).
THEOREM OpenMeansFailingHolds == Spec => []OpenMeansFailing
<1>1. CallInv => OpenMeansFailing BY DEF CallInv
<1> QED BY <1>1, CallInvAlways, PTL

-----------------------------------------------------------------------------
(* Type correctness, and with it that no exclusion outlasts its maximum.   *)

\* A call waits for the answer of a candidate of its list.
Waiting == \A r \in Requests : pc[r] = "wait" => todo[r] # <<>>

TypeInv == TypeOK /\ Waiting

\* What the steps of a call may change without touching the breakers.
BreakerOK ==
  /\ failures \in [Candidates -> 0..FailureThreshold]
  /\ trips \in [Candidates -> 0..MaxShift]
  /\ open \in [Candidates -> BOOLEAN]
  /\ openFor \in [Candidates -> 0..MaxCooldown]
  /\ limitedFor \in [Candidates -> 0..MaxLimitCooldown]
  /\ failing \in [Candidates -> BOOLEAN]

CallOK ==
  /\ pc \in [Requests -> {"idle", "select", "loop", "wait", "queue", "timer", "done"}]
  /\ kind \in [Requests -> Kinds \cup {"none"}]
  /\ todo \in [Requests -> Seq(Candidates)]
  /\ cooled \in [Requests -> 0..MaxLimitCooldown]
  /\ failed \in [Requests -> BOOLEAN]
  /\ answer \in [Requests -> {"none", "ok", "error", "cooling", "nocandidate", "cancelled"}]
  /\ queued \in [Requests -> BOOLEAN]
  /\ left \in [Requests -> 0..QueueMaxWait]
  /\ timer \in [Requests -> 0..QueueRetryInterval]
  /\ sent \in [Requests -> BOOLEAN]
  /\ orphan \in [Requests -> BOOLEAN]

LEMMA Parts == (TypeOK <=> BreakerOK /\ CallOK /\ depth \in Nat)
BY DEF TypeOK, BreakerOK, CallOK

\* cooldown: the window is within its maximum, whatever the shift gives.
LEMMA CooldownBound ==
  \A n \in Nat : Cooldown(n) \in 0..MaxCooldown
<1> SUFFICES ASSUME NEW n \in Nat PROVE Cooldown(n) \in 0..MaxCooldown OBVIOUS
<1>1. Lesser(n, MaxShift) \in Nat BY ConstantsAssumption DEF Lesser
<1> DEFINE d == BaseCooldown * 2^Lesser(n, MaxShift)
<1>2. 2^Lesser(n, MaxShift) \in Int BY <1>1
<1>3. d \in Int BY <1>2, ConstantsAssumption
<1>4. Cooldown(n) = IF d <= 0 \/ d > MaxCooldown THEN MaxCooldown ELSE d BY DEF Cooldown
<1> HIDE DEF d
<1> QED BY <1>3, <1>4, ConstantsAssumption

LEMMA WindowBound ==
  \A o \in Outcomes : LimitWindow(o.after) \in 0..MaxLimitCooldown
<1>1. \A o \in Outcomes : o.after \in Nat
  BY ConstantsAssumption DEF Outcomes, Outcome
<1> QED BY <1>1, ConstantsAssumption DEF LimitWindow, Lesser

LEMMA RecordTypes ==
  ASSUME BreakerOK, NEW c \in Candidates, NEW o \in Outcomes, Record(c, o)
  PROVE  BreakerOK'
<1>1. failing' \in [Candidates -> BOOLEAN] BY DEF Record, BreakerOK, BreakerFailure
<1>2. CASE BreakerFailure(o)
  <2>1. RecordFailure(c) BY <1>2 DEF Record
  <2> DEFINE n == Lesser(failures[c] + 1, FailureThreshold)
  <2>2. n \in 0..FailureThreshold /\ trips[c] \in Nat
    BY ConstantsAssumption DEF BreakerOK, Lesser
  <2>3. Lesser(trips[c] + 1, MaxShift) \in 0..MaxShift
    BY ConstantsAssumption DEF BreakerOK, Lesser
  <2>4. Cooldown(trips[c]) \in 0..MaxCooldown BY <2>2, CooldownBound
  <2>5. /\ failures' = [failures EXCEPT ![c] = n] /\ UNCHANGED limitedFor
        /\ \/ /\ open' = [open EXCEPT ![c] = TRUE]
              /\ openFor' = [openFor EXCEPT ![c] = Cooldown(trips[c])]
              /\ trips' = [trips EXCEPT ![c] = Lesser(trips[c] + 1, MaxShift)]
           \/ UNCHANGED <<open, openFor, trips>>
    BY <2>1 DEF RecordFailure
  <2> HIDE DEF n
  <2> QED BY <1>1, <2>2, <2>3, <2>4, <2>5 DEF BreakerOK
<1>3. CASE ~BreakerFailure(o)
  <2>1. RecordAnswer(c, o) BY <1>3 DEF Record
  <2>2. LimitWindow(o.after) \in 0..MaxLimitCooldown BY WindowBound
  <2> DEFINE w == IF o.code = "rate_limited" THEN LimitWindow(o.after)
                  ELSE IF o.code = "ok" THEN 0 ELSE limitedFor[c]
  <2>3. /\ failures' = [failures EXCEPT ![c] = 0] /\ trips' = [trips EXCEPT ![c] = 0]
        /\ open' = [open EXCEPT ![c] = FALSE] /\ UNCHANGED openFor
        /\ limitedFor' = [limitedFor EXCEPT ![c] = w]
    BY <2>1 DEF RecordAnswer
  <2>4. w \in 0..MaxLimitCooldown BY <2>2, ConstantsAssumption DEF BreakerOK
  <2> HIDE DEF w
  <2> QED BY <1>1, <2>3, <2>4, ConstantsAssumption DEF BreakerOK
<1> QED BY <1>2, <1>3

Answers == {"none", "ok", "error", "cooling", "nocandidate", "cancelled"}

LEMMA FinishTypes ==
  ASSUME CallOK, Waiting, NEW r \in Requests, NEW a \in Answers, Finish(r, a)
  PROVE  CallOK' /\ Waiting'
<1>1. <<>> \in Seq(Candidates) /\ 0 \in 0..QueueMaxWait /\ 0 \in 0..QueueRetryInterval
      /\ 0 \in 0..MaxLimitCooldown
  BY ConstantsAssumption
<1>2. /\ pc' = [pc EXCEPT ![r] = "done"] /\ answer' = [answer EXCEPT ![r] = a]
      /\ todo' = [todo EXCEPT ![r] = <<>>]
      /\ queued' = [queued EXCEPT ![r] = FALSE] /\ left' = [left EXCEPT ![r] = 0]
      /\ timer' = [timer EXCEPT ![r] = 0] /\ kind' = [kind EXCEPT ![r] = "none"]
      /\ failed' = [failed EXCEPT ![r] = FALSE] /\ orphan' = [orphan EXCEPT ![r] = FALSE]
      /\ sent' = [sent EXCEPT ![r] = sent[r] /\ a = "cooling"]
      /\ \E v \in 0..MaxLimitCooldown : cooled' = [cooled EXCEPT ![r] = v]
  BY <1>1 DEF Finish, Go, CallOK
<1>3. Waiting' BY <1>2 DEF Waiting, CallOK
<1>4. sent' \in [Requests -> BOOLEAN] BY <1>2, Zenon DEF CallOK
<1> QED BY <1>1, <1>2, <1>3, <1>4 DEF CallOK, Answers

\* The candidates of a call are a list of candidates.
LEMMA ListsAreLists ==
  ASSUME NEW k, NEW list \in Lists(k)
  PROVE  list \in Seq(Candidates)
<1>1. ASSUME NEW S \in SUBSET Candidates, list \in Orders(S) PROVE list \in Seq(Candidates)
  <2>1. Cardinality(S) \in Nat BY ConstantsAssumption, FS_Subset, FS_CardinalityType
  <2>2. list \in [1..Cardinality(S) -> Candidates] BY <1>1 DEF Orders
  <2> QED BY <2>1, <2>2
<1>2. CASE k = "pinned"
  <2>1. PICK c \in Candidates : list = <<c>> BY <1>2 DEF Lists
  <2> QED BY <2>1
<1>3. CASE k # "pinned" BY <1>1, <1>3 DEF Lists
<1> QED BY <1>2, <1>3

\* The steps of a call, but for the answer of a dispatch.
LEMMA CallTypes ==
  ASSUME BreakerOK, CallOK, Waiting, NEW r \in Requests,
         \/ Select(r) \/ (\E c \in Candidates : SkipCooling(r, c) \/ Send(r, c))
         \/ QueueWait(r) \/ QueueRetry(r) \/ (\E k \in Kinds : Arrive(r, k))
  PROVE  BreakerOK' /\ CallOK' /\ Waiting'
<1>1. UNCHANGED <<failures, trips, open, openFor, limitedFor, failing>>
  BY DEF Select, SkipCooling, Send, QueueWait, QueueRetry, Arrive, breaker, history
<1>2. BreakerOK' BY <1>1 DEF BreakerOK
<1>3. CASE Select(r)
  <2>1. PICK list \in Lists(kind[r]) \ {<<>>} : todo' = [todo EXCEPT ![r] = list]
    BY <1>3 DEF Select
  <2>2. list \in Seq(Candidates) BY <2>1, ListsAreLists
  <2>3. pc' = [pc EXCEPT ![r] = "loop"]
        /\ UNCHANGED <<kind, cooled, failed, answer, queued, left, timer, sent, orphan>>
    BY <1>3 DEF Select, Go, queue, history
  <2> QED BY <1>2, <2>1, <2>2, <2>3 DEF CallOK, Waiting
<1>4. ASSUME NEW c \in Candidates, SkipCooling(r, c) PROVE CallOK' /\ Waiting'
  <2>1. pc[r] = "loop" /\ todo[r] # <<>> /\ todo[r] \in Seq(Candidates)
        /\ limitedFor[c] \in 0..MaxLimitCooldown /\ cooled[r] \in 0..MaxLimitCooldown
    BY <1>4 DEF SkipCooling, LoopAt, CallOK, BreakerOK
  <2>2. Tail(todo[r]) \in Seq(Candidates) BY <2>1
  <2>3. /\ todo' = [todo EXCEPT ![r] = Tail(todo[r])]
        /\ \E v \in 0..MaxLimitCooldown : cooled' = [cooled EXCEPT ![r] = v]
        /\ UNCHANGED <<pc, kind, failed, answer, queued, left, timer, sent, orphan>>
    BY <1>4, <2>1 DEF SkipCooling, queue, history, Lesser
  <2> QED BY <2>1, <2>2, <2>3 DEF CallOK, Waiting
<1>5. ASSUME NEW c \in Candidates, Send(r, c) PROVE CallOK' /\ Waiting'
  <2>1. /\ todo[r] # <<>> /\ pc' = [pc EXCEPT ![r] = "wait"] /\ sent' = [sent EXCEPT ![r] = TRUE]
        /\ UNCHANGED <<kind, todo, cooled, failed, answer, queued, left, timer, orphan>>
    BY <1>5 DEF Send, LoopAt, Go, queue
  <2> QED BY <2>1 DEF CallOK, Waiting
<1>6. CASE QueueWait(r)
  <2>1. Lesser(QueueRetryInterval, left[r]) \in 0..QueueRetryInterval
    BY ConstantsAssumption DEF Lesser, CallOK
  <2>2. /\ pc' = [pc EXCEPT ![r] = "timer"]
        /\ timer' = [timer EXCEPT ![r] = Lesser(QueueRetryInterval, left[r])]
        /\ UNCHANGED <<kind, todo, cooled, failed, answer, queued, left, sent, orphan>>
    BY <1>6 DEF QueueWait, Go, history
  <2> QED BY <1>2, <2>1, <2>2 DEF CallOK, Waiting
<1>7. CASE QueueRetry(r)
  <2>1. /\ pc' = [pc EXCEPT ![r] = "select"]
        /\ UNCHANGED <<kind, todo, cooled, failed, answer, queued, left, timer, sent, orphan>>
    BY <1>7 DEF QueueRetry, Go, queue, history
  <2> QED BY <1>2, <2>1 DEF CallOK, Waiting
<1>8. ASSUME NEW k \in Kinds, Arrive(r, k) PROVE CallOK' /\ Waiting'
  <2>1. /\ pc' = [pc EXCEPT ![r] = "select"] /\ kind' = [kind EXCEPT ![r] = k]
        /\ cooled' = [cooled EXCEPT ![r] = 0] /\ answer' = [answer EXCEPT ![r] = "none"]
        /\ sent' = [sent EXCEPT ![r] = FALSE]
        /\ UNCHANGED <<todo, failed, queued, left, timer, orphan>>
    BY <1>8 DEF Arrive, Go, queue
  <2>2. 0 \in 0..MaxLimitCooldown BY ConstantsAssumption
  <2> QED BY <2>1, <2>2 DEF CallOK, Waiting
<1> QED BY <1>2, <1>3, <1>4, <1>5, <1>6, <1>7, <1>8

\* The steps a call may end with.
LEMMA EndTypes ==
  ASSUME BreakerOK, CallOK, Waiting, NEW r \in Requests,
         \/ NoCandidates(r) \/ Exhausted(r) \/ SubmitExhausted(r)
         \/ QueueTimeout(r) \/ QueueCancelled(r)
  PROVE  BreakerOK' /\ CallOK' /\ Waiting'
<1>1. UNCHANGED <<failures, trips, open, openFor, limitedFor, failing>>
  BY DEF NoCandidates, Exhausted, SubmitExhausted, QueueTimeout, QueueCancelled, breaker
<1>2. BreakerOK' BY <1>1 DEF BreakerOK
<1>3. CASE \E a \in Answers : Finish(r, a) BY <1>2, <1>3, FinishTypes
<1>4. CASE SubmitExhausted(r) /\ ~\E a \in Answers : Finish(r, a)
  <2>1. /\ pc' = [pc EXCEPT ![r] = "queue"]
        /\ UNCHANGED <<kind, todo, cooled, failed, answer, timer, sent, orphan>>
        /\ \/ UNCHANGED <<queued, left>>
           \/ queued' = [queued EXCEPT ![r] = TRUE] /\ left' = [left EXCEPT ![r] = QueueMaxWait]
    BY <1>4 DEF SubmitExhausted, Go, queue, Answers
  <2>2. QueueMaxWait \in 0..QueueMaxWait BY ConstantsAssumption
  <2>3. Waiting' BY <2>1 DEF CallOK, Waiting
  <2>4. queued' \in [Requests -> BOOLEAN] /\ left' \in [Requests -> 0..QueueMaxWait]
    <3>1. CASE UNCHANGED <<queued, left>> BY <3>1 DEF CallOK
    <3>2. CASE queued' = [queued EXCEPT ![r] = TRUE] /\ left' = [left EXCEPT ![r] = QueueMaxWait]
      <4>1. queued' \in [Requests -> BOOLEAN] BY <3>2, Zenon DEF CallOK
      <4>2. left' \in [Requests -> 0..QueueMaxWait] BY <2>2, <3>2 DEF CallOK
      <4> QED BY <4>1, <4>2
    <3> QED BY <2>1, <3>1, <3>2
  <2> QED BY <1>2, <2>1, <2>3, <2>4 DEF CallOK
<1> QED BY <1>3, <1>4 DEF NoCandidates, Exhausted, QueueTimeout, QueueCancelled, Answers

\* The answer of a dispatch is recorded for a candidate of the list.
LEMMA AnsweredTypes ==
  ASSUME BreakerOK, CallOK, Waiting, NEW r \in Requests, NEW o \in Outcomes, Answered(r, o)
  PROVE  BreakerOK' /\ CallOK' /\ Waiting'
<1>1. pc[r] = "wait" /\ todo[r] # <<>> /\ todo[r] \in Seq(Candidates)
  BY DEF Answered, Waiting, CallOK
<1>2. Head(todo[r]) \in Candidates /\ Tail(todo[r]) \in Seq(Candidates) BY <1>1
<1>3. BreakerOK' BY <1>2, RecordTypes DEF Answered
<1>4. CASE \E a \in Answers : Finish(r, a) BY <1>3, <1>4, FinishTypes
<1>5. CASE ~\E a \in Answers : Finish(r, a)
  <2>1. /\ pc' = [pc EXCEPT ![r] = "loop"] /\ todo' = [todo EXCEPT ![r] = Tail(todo[r])]
        /\ failed' = [failed EXCEPT ![r] = TRUE]
        /\ orphan' = [orphan EXCEPT ![r] = orphan[r] \/ (kind[r] = "submit" /\ o.taken)]
        /\ UNCHANGED <<kind, cooled, answer, queued, left, timer, sent>>
    BY <1>5 DEF Answered, Go, queue, Answers
  <2>2. orphan' \in [Requests -> BOOLEAN] BY <2>1, Zenon DEF CallOK
  <2> QED BY <1>2, <1>3, <2>1, <2>2 DEF CallOK, Waiting
<1> QED BY <1>4, <1>5

LEMMA TickTypes ==
  ASSUME BreakerOK, CallOK, Waiting, Tick
  PROVE  BreakerOK' /\ CallOK' /\ Waiting'
<1>1. ASSUME NEW S, NEW n \in Nat, NEW f \in [S -> 0..n] PROVE Dec(f) \in [S -> 0..n]
  BY DEF Dec
<1>2. /\ openFor' \in [Candidates -> 0..MaxCooldown]
      /\ limitedFor' \in [Candidates -> 0..MaxLimitCooldown]
      /\ left' \in [Requests -> 0..QueueMaxWait]
      /\ timer' \in [Requests -> 0..QueueRetryInterval]
  BY <1>1, ConstantsAssumption DEF Tick, BreakerOK, CallOK
<1>3. UNCHANGED <<failures, trips, open, failing, pc, kind, todo, cooled, failed, answer,
                  queued, sent, orphan>>
  BY DEF Tick, call, history
<1> QED BY <1>2, <1>3 DEF BreakerOK, CallOK, Waiting

LEMMA TypeStep == CallInv' /\ TypeInv /\ [Next]_vars => TypeInv'
<1> SUFFICES ASSUME CallInv', TypeInv, [Next]_vars PROVE TypeInv' OBVIOUS
<1>1. BreakerOK /\ CallOK /\ Waiting BY Parts DEF TypeInv
<1>2. depth' \in Nat BY DEF CallInv, Types
<1>3. CASE UNCHANGED vars
  BY <1>3 DEF TypeInv, TypeOK, Waiting, vars, breaker, call, queue, history
<1>4. CASE Next
  <2>1. BreakerOK' /\ CallOK' /\ Waiting'
    BY <1>1, <1>4, CallTypes, EndTypes, AnsweredTypes, TickTypes DEF Next, Step
  <2>2. TypeOK' BY <1>2, <2>1 DEF TypeOK, BreakerOK, CallOK
  <2> QED BY <2>1, <2>2 DEF TypeInv
<1> QED BY <1>3, <1>4

\* The state has its type; in particular no breaker and no rate limit excludes a
\* candidate for longer than the configured maximum, however often it tripped,
\* whatever a backend asked for and whatever the shift of cooldown gives.
THEOREM TypeCorrect == Spec => []TypeOK
<1>1. Init => TypeInv
  <2>1. <<>> \in Seq(Candidates) OBVIOUS
  <2> QED BY <2>1, ConstantsAssumption DEF Init, TypeInv, TypeOK, Waiting
<1>2. TypeInv => TypeOK BY DEF TypeInv
<1> QED BY <1>1, <1>2, TypeStep, CallInvAlways, PTL DEF Spec

=============================================================================
