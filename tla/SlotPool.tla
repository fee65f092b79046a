------------------------------ MODULE SlotPool ------------------------------
(***************************************************************************)
(* The Agent's slot pool of one tunnel (service/aiServeWeaveAgent/tunnel/   *)
(* pool.go): one maintenance goroutine that opens and reaps slots, and the  *)
(* slots' own goroutines (slot.go), which report to it through Pool.mu and  *)
(* a one-token wake channel.  It is one slot class, the inference one; time *)
(* is the choice of which idle slots have timed out and whether a failed    *)
(* open still pauses the pool.  A slot's name is used again once its        *)
(* goroutines are gone: |Slots| bounds the streams open or closing at once. *)
(***************************************************************************)
EXTENDS Integers, FiniteSets

CONSTANTS
  Slots,
  MinSlots, LowWatermark, NodeTotalSlots,   \* SlotConfig
  Replicas,     \* the values SetActiveReplicas is called with
  Hints,        \* the SlotHints the replica sends
  StreamsFail   \* whether streams break by themselves

NoHint == [min |-> 0, max |-> 0]

ASSUME ConstantsAssumption ==
  /\ IsFiniteSet(Slots)
  /\ MinSlots \in Nat /\ LowWatermark \in Nat /\ LowWatermark <= MinSlots
  /\ NodeTotalSlots \in Nat /\ Replicas \subseteq Nat \ {0}
  /\ Hints \subseteq [min : Nat, max : Nat]
  /\ StreamsFail \in BOOLEAN

VARIABLES
  \* Pool, under Pool.mu
  slots,       \* the slots registered in Pool.slots
  parked, idle, reaping,  \* poolParked, poolIdle, poolReaping
  paused,      \* openFailedAt: no, held (within slotOpenBackoff), elapsed
  activeReplicas, hint, draining,
  serving,     \* what setServing last recorded
  \* the maintenance goroutine and Stop
  wake,        \* the token in Pool.wake
  mpc,         \* start, select, reap, settle, done
  targets, opens,  \* what its reconcile decided and has not done yet
  stop,        \* no, cancelled, returned
  \* a slot's own goroutines
  run,         \* slot.run: unused, open, first, recv, begin, closing, gone
  working,     \* slots with a handler running, after slotBusy
  late,        \* slots whose handler has sent Ready but not called slotIdle
  cut,         \* slots whose stream context is cancelled or stream broken
  offered,     \* slots whose last Ready no request has answered
  \* refreshServing, in whichever goroutine runs it
  settle,      \* none, look, sawT, sawF, tellT, tellF
  shown        \* Client.state is StateServing rather than StateConnected

counts == <<slots, parked, idle, reaping>>
settings == <<activeReplicas, hint, draining>>
maint == <<mpc, targets, opens, stop>>
slotv == <<run, working, late, cut, offered>>
report == <<serving, settle, shown>>
vars == <<counts, paused, settings, wake, maint, slotv, report>>

\* The goroutines that refresh what the tunnel shows: the maintenance one, and
\* a slot's receive loop and handler.
maintain == <<"maintain">>
Loop(s) == <<s, "run">>
Handler(s) == <<s, "serve">>
Reporters == {maintain} \cup {Loop(s) : s \in Slots} \cup {Handler(s) : s \in Slots}

Upper(a, b) == IF a > b THEN a ELSE b
Lower(a, b) == IF a < b THEN a ELSE b
clampInt(n, lo, hi) == Lower(Upper(n, lo), hi)

PerReplicaMax ==
  Upper(MinSlots, (NodeTotalSlots + activeReplicas - 1) \div activeReplicas)

\* limitsLocked: what is configured, and what is in force while not draining.
RawFloor == IF hint.min > 0 THEN clampInt(hint.min, MinSlots, PerReplicaMax) ELSE MinSlots
Ceiling == IF draining THEN 0
           ELSE IF hint.max > 0 THEN clampInt(hint.max, RawFloor, PerReplicaMax)
           ELSE PerReplicaMax
Floor == IF draining THEN 0 ELSE RawFloor
Low == IF draining THEN 0 ELSE Lower(LowWatermark, RawFloor)

\* statsLocked: a slot on its way out is counted nowhere.
Total == Cardinality(slots \ reaping)
Idle == Cardinality((slots \cap parked \cap idle) \ reaping)
Opening == Cardinality((slots \ parked) \ reaping)
\* The slots InFlight counts.
InFlight == (slots \cap parked) \ idle

Init ==
  /\ slots = {} /\ parked = {} /\ idle = {} /\ reaping = {}
  /\ paused = "no" /\ activeReplicas = 1 /\ hint = NoHint /\ draining = FALSE
  /\ wake = FALSE /\ mpc = "start" /\ targets = {} /\ opens = {} /\ stop = "no"
  /\ run = [s \in Slots |-> "unused"]
  /\ working = {} /\ late = {} /\ cut = {} /\ offered = {}
  /\ serving = FALSE /\ settle = [g \in Reporters |-> "none"] /\ shown = FALSE

-----------------------------------------------------------------------------
(* refreshServing, setServing and the Client's onServing.                   *)

\* The goroutine g is about to refresh.
Refresh(g) == settle' = [settle EXCEPT ![g] = "look"]

\* refreshServing reads the slots under Pool.mu and releases it.
Look(g) ==
  /\ settle[g] = "look"
  /\ settle' = [settle EXCEPT ![g] = IF slots \cap parked # {} THEN "sawT" ELSE "sawF"]
  /\ UNCHANGED <<counts, paused, settings, wake, maint, slotv, serving, shown>>

\* Every report of a slot ends with a poke; the maintenance goroutine's does not.
Poke(g) == wake' = (wake \/ g # maintain)

\* setServing: a change is recorded, and told once Pool.mu is released.
SetServing(g) ==
  /\ settle[g] \in {"sawT", "sawF"}
  /\ LET saw == settle[g] = "sawT" IN
     /\ serving' = saw
     /\ IF saw = serving
          THEN settle' = [settle EXCEPT ![g] = "none"] /\ Poke(g)
          ELSE /\ settle' = [settle EXCEPT ![g] = IF saw THEN "tellT" ELSE "tellF"]
               /\ UNCHANGED wake
  /\ UNCHANGED <<counts, paused, settings, maint, slotv, shown>>

\* Client.onServing, while the tunnel is connected or serving.
Tell(g) ==
  /\ settle[g] \in {"tellT", "tellF"}
  /\ shown' = (settle[g] = "tellT")
  /\ settle' = [settle EXCEPT ![g] = "none"] /\ Poke(g)
  /\ UNCHANGED <<counts, paused, settings, maint, slotv, serving>>

-----------------------------------------------------------------------------
(* The maintenance goroutine.                                               *)

\* How many slots reconcile wants, given what is left after reaping.
Wanted(total, ready) ==
  Lower(IF ready < Low THEN Upper(Floor, total + (Low - ready)) ELSE Floor, Ceiling)

\* The decision of one reconcile, under Pool.mu.  aged and expired are the
\* idle slots past MaxSlotAge and IdleTimeout; the second kind is only reaped
\* while the pool is above its floor.
Decide ==
  LET candidates == (slots \cap idle) \ reaping IN
  \E aged \in SUBSET candidates : \E expired \in SUBSET (candidates \ aged) :
    LET gone == aged \cup expired
        total == Total - Cardinality(gone)
        need == Wanted(total, Idle + Opening - Cardinality(gone)) - total
    IN
    /\ IF draining THEN aged = candidates
       ELSE Cardinality(expired) <= Upper(0, Total - Floor)
    /\ \E new \in SUBSET {s \in Slots : run[s] = "unused"} :
         /\ Cardinality(new) = IF paused = "held" THEN 0 ELSE Upper(0, need)
         /\ slots' = slots \cup new
         /\ opens' = new
    /\ targets' = gone
    /\ reaping' = reaping \cup gone

\* Mutant: the tick is gone, and only a token leads to a reconcile.
ReconcileOnWake ==
  /\ mpc = "start" \/ (mpc = "select" /\ wake)
  /\ wake' = (mpc = "start" /\ wake)
  /\ IF stop = "no"
       THEN Decide /\ mpc' = "reap"
       ELSE mpc' = "select" /\ UNCHANGED <<slots, reaping, targets, opens>>
  /\ UNCHANGED <<parked, idle, paused, settings, stop, slotv, report>>
\* maintain: the start, a token or the tick leads to a reconcile, which does
\* nothing once the context is cancelled.
Reconcile ==
  /\ mpc \in {"start", "select"}
  /\ wake' \in {wake, FALSE} /\ (mpc = "start" => wake' = wake)
  /\ IF stop = "no"
       THEN Decide /\ mpc' = "reap"
       ELSE mpc' = "select" /\ UNCHANGED <<slots, reaping, targets, opens>>
  /\ UNCHANGED <<parked, idle, paused, settings, stop, slotv, report>>

\* retire of one target: the stream is cancelled, with the request on it.  The
\* slot may have closed by itself since the decision.
Reap(s) ==
  /\ mpc = "reap" /\ s \in targets
  /\ targets' = targets \ {s}
  /\ cut' = IF run[s] = "unused" THEN cut ELSE cut \cup {s}
  /\ UNCHANGED <<counts, paused, settings, wake, mpc, opens, stop, run, working, late,
                 offered, report>>

\* Mutant: reconcile does not refresh the tunnel's state.
StartSlotsNoRefresh ==
  /\ mpc = "reap" /\ targets = {}
  /\ run' = [s \in Slots |-> IF s \in opens THEN "open" ELSE run[s]]
  /\ cut' = IF stop = "no" THEN cut ELSE cut \cup opens
  /\ opens' = {} /\ mpc' = "settle"
  /\ UNCHANGED <<counts, paused, settings, wake, targets, stop, working, late, offered,
                 report>>
\* The new slots' goroutines start, and the tunnel's state is refreshed.
StartSlots ==
  /\ mpc = "reap" /\ targets = {}
  /\ run' = [s \in Slots |-> IF s \in opens THEN "open" ELSE run[s]]
  /\ cut' = IF stop = "no" THEN cut ELSE cut \cup opens
  /\ opens' = {} /\ mpc' = "settle" /\ Refresh(maintain)
  /\ UNCHANGED <<counts, paused, settings, wake, targets, stop, working, late, offered,
                 serving, shown>>
ReconcileReturns ==
  /\ mpc = "settle" /\ settle[maintain] = "none" /\ mpc' = "select"
  /\ UNCHANGED <<counts, paused, settings, wake, targets, opens, stop, slotv, report>>

\* slotOpenBackoff passes.
PauseElapses ==
  /\ paused = "held" /\ paused' = "elapsed"
  /\ UNCHANGED <<counts, settings, wake, maint, slotv, report>>

-----------------------------------------------------------------------------
(* What the Client calls.                                                   *)

SetActiveReplicas ==
  /\ activeReplicas' \in Replicas \ {activeReplicas} /\ wake' = TRUE
  /\ UNCHANGED <<counts, paused, hint, draining, maint, slotv, report>>
ApplyHint ==
  /\ hint' \in Hints /\ wake' = TRUE
  /\ UNCHANGED <<counts, paused, activeReplicas, draining, maint, slotv, report>>
SetDraining ==
  /\ draining' = ~draining /\ wake' = TRUE
  /\ UNCHANGED <<counts, paused, activeReplicas, hint, maint, slotv, report>>

\* Mutant: the slots do not hang off the cancelled context.
StopKeepsStreams ==
  /\ stop = "no" /\ stop' = "cancelled"
  /\ UNCHANGED <<counts, paused, settings, wake, mpc, targets, opens, slotv, report>>
\* Stop cancels the context every slot hangs off, waits for every goroutine,
\* and reports that nothing is served.
Stop ==
  /\ stop = "no" /\ stop' = "cancelled"
  /\ cut' = cut \cup {s \in Slots : run[s] # "unused"}
  /\ UNCHANGED <<counts, paused, settings, wake, mpc, targets, opens, run, working, late,
                 offered, report>>
MaintainReturns ==
  /\ stop = "cancelled" /\ mpc = "select" /\ mpc' = "done"
  /\ UNCHANGED <<counts, paused, settings, wake, targets, opens, stop, slotv, report>>
StopReturns ==
  /\ stop = "cancelled" /\ mpc = "done" /\ \A s \in Slots : run[s] = "unused"
  /\ stop' = "returned" /\ serving' = FALSE /\ shown' = (shown /\ ~serving)
  /\ UNCHANGED <<counts, paused, settings, wake, mpc, targets, opens, slotv, settle>>

-----------------------------------------------------------------------------
(* A slot's goroutines: slot.run, and slot.serve for each request.          *)

RunGoes(s, from, to) == run[s] = from /\ run' = [run EXCEPT ![s] = to]

\* The stream opens and the first Ready goes out; or it does not, and opening
\* is paused.
OpenOk(s) ==
  /\ RunGoes(s, "open", "first") /\ s \notin cut
  /\ offered' = offered \cup {s}
  /\ UNCHANGED <<counts, paused, settings, wake, maint, working, late, cut, report>>
OpenFails(s) ==
  /\ StreamsFail \/ s \in cut
  /\ RunGoes(s, "open", "closing") /\ paused' = "held"
  /\ UNCHANGED <<counts, settings, wake, maint, working, late, cut, offered, report>>

\* slotIdle: the slot is parked and idle, and an earlier failed open is over.
slotIdle(s) ==
  /\ parked' = parked \cup {s} /\ idle' = idle \cup {s} /\ paused' = "no"
  /\ UNCHANGED <<slots, reaping>>

\* The first park, in the receive loop, which only then starts to receive.
RunParks(s) ==
  /\ RunGoes(s, "first", "recv") /\ slotIdle(s) /\ Refresh(Loop(s))
  /\ UNCHANGED <<settings, wake, maint, working, late, cut, offered, serving, shown>>

\* begin: a request arrives for the parked slot.  What the stream had already
\* received is delivered even after it is cancelled.
RecvHeaders(s) ==
  /\ s \in offered /\ settle[Loop(s)] = "none" /\ RunGoes(s, "recv", "begin")
  /\ offered' = offered \ {s}
  /\ UNCHANGED <<counts, paused, settings, wake, maint, working, late, cut, report>>

\* Mutant: slotBusy does not wake the maintenance goroutine.
SlotBusyNoPoke(s) ==
  /\ RunGoes(s, "begin", "recv") /\ idle' = idle \ {s}
  /\ working' = working \cup {s}
  /\ UNCHANGED <<slots, parked, reaping, paused, settings, wake, maint, late, cut,
                 offered, report>>
\* The rest of begin: slotBusy, and the handler's goroutine starts, although an
\* earlier handler's may still be in park.
BeginServe(s) ==
  /\ RunGoes(s, "begin", "recv") /\ idle' = idle \ {s} /\ wake' = TRUE
  /\ working' = working \cup {s}
  /\ UNCHANGED <<slots, parked, reaping, paused, settings, maint, late, cut, offered,
                 report>>

\* serve, once the handler returns: the end of the response goes out, and then
\* the slot is retired (the send failed, or a rotation limit is reached) or
\* offered again with Ready.  At most one earlier handler is still in park.
ServeRetires(s) ==
  /\ s \in working /\ working' = working \ {s} /\ cut' = cut \cup {s}
  /\ UNCHANGED <<counts, paused, settings, wake, maint, run, late, offered, report>>
ServeReadies(s) ==
  /\ s \in working \ (cut \cup late) /\ working' = working \ {s}
  /\ late' = late \cup {s} /\ offered' = offered \cup {s}
  /\ UNCHANGED <<counts, paused, settings, wake, maint, run, cut, report>>
\* The slotIdle that park calls after its Ready has gone out.
ServeParks(s) ==
  /\ s \in late /\ settle[Handler(s)] = "none"
  /\ late' = late \ {s} /\ slotIdle(s) /\ Refresh(Handler(s))
  /\ UNCHANGED <<settings, wake, maint, run, working, cut, offered, serving, shown>>

\* Recv fails, or the context ended: abort, then wait for the handlers.
RunStops(s) ==
  /\ StreamsFail \/ s \in cut
  /\ settle[Loop(s)] = "none"
  /\ RunGoes(s, "recv", "closing") /\ cut' = cut \cup {s}
  /\ UNCHANGED <<counts, paused, settings, wake, maint, working, late, offered, report>>

\* handlers.Wait.
HandlersDone(s) == s \notin working \cup late /\ settle[Handler(s)] = "none"

\* slotFinished, once the handlers are done.
SlotFinished(s) ==
  /\ HandlersDone(s) /\ RunGoes(s, "closing", "gone") /\ Refresh(Loop(s))
  /\ slots' = slots \ {s} /\ parked' = parked \ {s} /\ idle' = idle \ {s}
  /\ reaping' = reaping \ {s}
  /\ UNCHANGED <<paused, settings, wake, maint, working, late, cut, offered, serving,
                 shown>>
\* The goroutine ends, and the name is free again.
RunReturns(s) ==
  /\ RunGoes(s, "gone", "unused") /\ settle[Loop(s)] = "none"
  /\ cut' = cut \ {s} /\ offered' = offered \ {s}
  /\ UNCHANGED <<counts, paused, settings, wake, maint, working, late, report>>

-----------------------------------------------------------------------------
SlotStep(s) ==
  \/ OpenOk(s) \/ OpenFails(s) \/ RunParks(s) \/ RecvHeaders(s) \/ BeginServe(s)
  \/ ServeRetires(s) \/ ServeReadies(s) \/ ServeParks(s)
  \/ RunStops(s) \/ SlotFinished(s) \/ RunReturns(s)
MaintainStep ==
  \/ Reconcile \/ (\E s \in Slots : Reap(s)) \/ StartSlots \/ ReconcileReturns
Settle(g) == Look(g) \/ SetServing(g) \/ Tell(g)
Calls == SetActiveReplicas \/ ApplyHint \/ SetDraining \/ Stop
\* After Stop the pool is over.
Over == stop = "returned" /\ UNCHANGED vars

Next ==
  \/ MaintainStep \/ PauseElapses \/ Calls \/ MaintainReturns \/ StopReturns
  \/ \E s \in Slots : SlotStep(s)
  \/ \E g \in Reporters : Settle(g)
  \/ Over

Spec == Init /\ [][Next]_vars

\* Goroutines run on, time passes, an open ends one way or the other and a
\* handler returns.  Nothing makes a request arrive or a caller call.
Fairness ==
  /\ WF_vars(MaintainStep) /\ WF_vars(PauseElapses) /\ WF_vars(MaintainReturns)
  /\ WF_vars(StopReturns)
  /\ \A g \in Reporters : WF_vars(Settle(g))
  /\ \A s \in Slots :
       /\ WF_vars(OpenOk(s) \/ OpenFails(s)) /\ WF_vars(RunParks(s))
       /\ WF_vars(BeginServe(s)) /\ WF_vars(ServeRetires(s) \/ ServeReadies(s))
       /\ WF_vars(ServeParks(s)) /\ WF_vars(s \in cut /\ RunStops(s))
       /\ WF_vars(SlotFinished(s)) /\ WF_vars(RunReturns(s))
FairSpec == Spec /\ Fairness

-----------------------------------------------------------------------------
(* Properties.                                                              *)

\* Type correctness of the pool's state.
TypeOK ==
  /\ slots \subseteq Slots /\ parked \subseteq slots /\ idle \subseteq parked
  /\ reaping \subseteq slots /\ targets \subseteq Slots /\ opens \subseteq slots
  /\ paused \in {"no", "held", "elapsed"}
  /\ activeReplicas \in Replicas \cup {1} /\ hint \in Hints \cup {NoHint}
  /\ {draining, serving, wake, shown} \subseteq BOOLEAN
  /\ mpc \in {"start", "select", "reap", "settle", "done"}
  /\ stop \in {"no", "cancelled", "returned"}
  /\ run \in [Slots -> {"unused", "open", "first", "recv", "begin", "closing", "gone"}]
  /\ working \subseteq Slots /\ late \subseteq Slots
  /\ cut \subseteq Slots /\ offered \subseteq Slots
  /\ settle \in [Reporters -> {"none", "look", "sawT", "sawF", "tellT", "tellF"}]

\* Nothing is on its way: the maintenance goroutine waits with no token, and no
\* slot is in the middle of a report.
AtRest ==
  /\ mpc = "select" /\ ~wake /\ late = {} /\ \A g \in Reporters : settle[g] = "none"

\* The node's budget is never exceeded: whatever the replica hints, however
\* often draining and the replica count change, and however long streams take
\* to open, the slots that can take a request stay within the largest share
\* (newSlotLocked counts a slot from the moment it is decided on).
BudgetKept == Total <= Upper(MinSlots, NodeTotalSlots)

\* No wake-up is lost: when the maintenance goroutine is at rest and opening is
\* not held off, the pool is at its floor, and either the low watermark is met
\* or the ceiling is reached, although reports, reaping and setting changes ran
\* concurrently with the last reconcile (Pool.wake holds one token).
WatermarkSettles ==
  (AtRest /\ stop = "no" /\ paused = "no") =>
    /\ Total >= Floor
    /\ Idle + Opening >= Low \/ Total >= Ceiling

\* A stale refreshServing is repaired: at rest, the recorded serving edge is the
\* one the slots imply, although each refresh reads the slots and records what
\* it saw under two separate holds of Pool.mu.
ServingSettles ==
  (AtRest /\ stop = "no") => serving = (slots \cap parked # {})

\* Stop leaves nothing behind: when it returns, no slot is registered and no
\* goroutine of a slot or of the pool runs, although a reconcile may have
\* registered slots that started only after the cancellation.
StoppedIsEmpty ==
  stop = "returned" =>
    /\ slots = {} /\ opens = {} /\ working \cup late = {} /\ ~serving
    /\ \A g \in Reporters : settle[g] = "none"

\* The pool always gets back to its floor, or is draining or stopped: after a
\* failed open, which pauses opening and whose own poke comes too early, it is
\* the tick that leads to the next attempt.
Refills == []<>(draining \/ stop # "no" \/ Total >= Floor)

\* Stop returns: no goroutine waits for another one for ever.
StopEnds == (stop = "cancelled") ~> (stop = "returned")

\* What InFlight is documented to report: a request that is running, on a slot
\* the pool was told is busy, is counted.
BusySlotCounted == working \subseteq InFlight

\* A slot with a request on it: slot.active is set.
Busy(s) == s \in working \/ run[s] = "begin"

\* What limitsLocked says of reconcile: it never closes a busy slot, that is,
\* carrying out a reap decision never cancels the stream of a running request.
BusyNeverReaped ==
  [][\A s \in targets \ targets' : Busy(s) => s \in cut]_vars

\* What OnServing is documented to do: the tunnel's state follows the pool's
\* first slot coming and its last slot going.
TunnelStateFollows == (AtRest /\ stop = "no") => shown = serving

=============================================================================
