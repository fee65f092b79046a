--------------------------- MODULE SlotPoolProofs ---------------------------
(***************************************************************************)
(* The slot pool for every configuration: any set of slot names, any limits,*)
(* any hints and replica counts, and any interleaving of the goroutines.    *)
(* The budget is kept; Stop leaves nothing behind; no wake-up is lost; and  *)
(* a stale refresh of the serving edge is repaired.                         *)
(***************************************************************************)
EXTENDS SlotPool, FiniteSetTheorems, TLAPS

Budget == Upper(MinSlots, NodeTotalSlots)

\* The inductive strengthening: the settings are numbers, and the slots that
\* are counted are finitely many and within the budget.
BudgetInv ==
  /\ slots \subseteq Slots
  /\ activeReplicas \in Nat \ {0}
  /\ hint \in [min : Nat, max : Nat]
  /\ BudgetKept

\* A share of the budget is not more than the budget.
LEMMA ShareBound ==
  ASSUME NEW n \in Nat, NEW r \in Nat \ {0}
  PROVE  (n + r - 1) \div r \in Nat /\ (n + r - 1) \div r <= n
<1> DEFINE q == (n + r - 1) \div r
<1>1. q \in Nat /\ r * q <= n + r - 1 BY SMT
<1>2. CASE q <= n BY <1>1, <1>2
<1>3. CASE q >= n + 1
  <2> HIDE DEF q
  <2>1. r * q >= r * (n + 1) BY <1>1, <1>3, SMT
  <2>2. r * (n + 1) = r * n + r BY SMT
  <2>3. r * n >= n BY SMT
  <2>4. r * q \in Nat /\ r * n \in Nat BY <1>1, SMT
  <2> QED BY <1>1, <2>1, <2>2, <2>3, <2>4, SMT
<1> QED BY <1>1, <1>2, <1>3

\* The limits in force are numbers, and the ceiling is within the budget.
LEMMA LimitsBound ==
  ASSUME BudgetInv
  PROVE  /\ Floor \in Nat /\ Low \in Nat /\ Ceiling \in Nat
         /\ Ceiling <= Budget
<1>1. /\ MinSlots \in Nat /\ LowWatermark \in Nat /\ NodeTotalSlots \in Nat
      /\ activeReplicas \in Nat \ {0} /\ hint.min \in Nat /\ hint.max \in Nat
  BY ConstantsAssumption DEF BudgetInv
<1> DEFINE share == (NodeTotalSlots + activeReplicas - 1) \div activeReplicas
<1>2. share \in Nat /\ share <= NodeTotalSlots BY <1>1, ShareBound
<1>3. PerReplicaMax = Upper(MinSlots, share) BY DEF PerReplicaMax
<1> HIDE DEF share
<1>4. /\ PerReplicaMax \in Nat /\ PerReplicaMax <= Budget
      /\ MinSlots <= PerReplicaMax
  BY <1>1, <1>2, <1>3 DEF Upper, Budget
<1>5. RawFloor \in Nat /\ RawFloor <= PerReplicaMax
  BY <1>1, <1>4 DEF RawFloor, clampInt, Upper, Lower
<1>6. Floor \in Nat /\ Low \in Nat
  BY <1>1, <1>5 DEF Floor, Low, Lower
<1>7. Budget \in Nat BY <1>1 DEF Budget, Upper
<1>8. Ceiling \in Nat /\ Ceiling <= Budget
  BY <1>1, <1>4, <1>5, <1>7 DEF Ceiling, clampInt, Upper, Lower
<1> QED BY <1>6, <1>8

\* Reaping some of the counted slots and registering new ones.
LEMMA CountAfter ==
  ASSUME NEW S, NEW R, NEW G, NEW W, IsFiniteSet(S), IsFiniteSet(W), G \subseteq S \ R
  PROVE  /\ Cardinality((S \cup W) \ (R \cup G)) \in Nat
         /\ Cardinality(S \ R) \in Nat /\ Cardinality(G) \in Nat
         /\ Cardinality(W) \in Nat
         /\ Cardinality((S \cup W) \ (R \cup G))
              <= Cardinality(S \ R) - Cardinality(G) + Cardinality(W)
<1> DEFINE A == S \ R
<1>1. IsFiniteSet(A) /\ IsFiniteSet(G)
  BY FS_Subset
<1>2. IsFiniteSet(A \ G) /\ Cardinality(A \ G) = Cardinality(A) - Cardinality(A \cap G)
  BY <1>1, FS_Difference
<1>3. A \cap G = G OBVIOUS
<1>4. IsFiniteSet((A \ G) \cup W)
      /\ Cardinality((A \ G) \cup W) = Cardinality(A \ G) + Cardinality(W)
                                         - Cardinality((A \ G) \cap W)
  BY <1>1, <1>2, FS_Union
<1>5. IsFiniteSet((A \ G) \cap W) BY <1>2, FS_Subset
<1>6. (S \cup W) \ (R \cup G) \subseteq (A \ G) \cup W OBVIOUS
<1>7. IsFiniteSet((S \cup W) \ (R \cup G))
      /\ Cardinality((S \cup W) \ (R \cup G)) <= Cardinality((A \ G) \cup W)
  BY <1>4, <1>6, FS_Subset
<1> DEFINE c1 == Cardinality((S \cup W) \ (R \cup G))
           c2 == Cardinality((A \ G) \cup W)
           c3 == Cardinality(A \ G)
           c4 == Cardinality((A \ G) \cap W)
           c5 == Cardinality(A)
           c6 == Cardinality(G)
           c7 == Cardinality(W)
<1>8. c1 \in Nat /\ c2 \in Nat /\ c3 \in Nat /\ c4 \in Nat /\ c5 \in Nat /\ c6 \in Nat
      /\ c7 \in Nat
  BY <1>1, <1>2, <1>4, <1>5, <1>7, FS_CardinalityType
<1>9. c3 = c5 - c6 /\ c2 = c3 + c7 - c4 /\ c1 <= c2
  BY <1>2, <1>3, <1>4, <1>7
<1> HIDE DEF c1, c2, c3, c4, c5, c6, c7
<1>10. c1 <= c5 - c6 + c7 BY <1>8, <1>9, SMT
<1> QED BY <1>8, <1>10 DEF c1, c5, c6, c7

\* One reconcile keeps the count within the budget.
LEMMA DecideKeeps ==
  ASSUME BudgetInv, Decide
  PROVE  slots' \subseteq Slots /\ BudgetKept'
<1> DEFINE candidates == (slots \cap idle) \ reaping
<1>1. PICK aged \in SUBSET candidates, expired \in SUBSET candidates :
        \E new \in SUBSET {s \in Slots : run[s] = "unused"} :
          /\ Cardinality(new) = IF paused = "held" THEN 0 ELSE
               Upper(0, Wanted(Total - Cardinality(aged \cup expired),
                               Idle + Opening - Cardinality(aged \cup expired))
                        - (Total - Cardinality(aged \cup expired)))
          /\ slots' = slots \cup new
          /\ reaping' = reaping \cup (aged \cup expired)
  BY Zenon DEF Decide
<1> DEFINE gone == aged \cup expired
           total == Total - Cardinality(gone)
           ready == Idle + Opening - Cardinality(gone)
<1>2. PICK new \in SUBSET {s \in Slots : run[s] = "unused"} :
          /\ Cardinality(new) = IF paused = "held" THEN 0 ELSE
                                  Upper(0, Wanted(total, ready) - total)
          /\ slots' = slots \cup new
          /\ reaping' = reaping \cup gone
  BY <1>1
<1>3. slots \subseteq Slots /\ slots' \subseteq Slots BY <1>2 DEF BudgetInv
<1>4. IsFiniteSet(slots) /\ IsFiniteSet(new)
  BY <1>3, FS_Subset, ConstantsAssumption
<1>5. gone \subseteq slots \ reaping OBVIOUS
<1> DEFINE after == Cardinality((slots \cup new) \ (reaping \cup gone))
<1>6. /\ after \in Nat /\ Total \in Nat /\ Cardinality(gone) \in Nat
      /\ Cardinality(new) \in Nat
      /\ after <= Total - Cardinality(gone) + Cardinality(new)
  BY <1>4, <1>5, CountAfter DEF Total
<1>7. Idle \in Nat /\ Opening \in Nat
  BY <1>4, FS_Subset, FS_CardinalityType DEF Idle, Opening
<1>8. Floor \in Nat /\ Low \in Nat /\ Ceiling \in Nat /\ Ceiling <= Budget /\ Budget \in Nat
  BY LimitsBound, ConstantsAssumption DEF Budget, Upper
<1>9. total \in Int /\ ready \in Int /\ total <= Total BY <1>6, <1>7
<1> HIDE DEF total, ready, after, gone
<1>10. Wanted(total, ready) \in Int /\ Wanted(total, ready) <= Ceiling
  BY <1>8, <1>9 DEF Wanted, Lower, Upper
<1>11. Total <= Budget BY DEF BudgetInv, BudgetKept, Budget
<1>12. after <= total + Cardinality(new) BY <1>6 DEF total
<1>13. Cardinality(new) <= Upper(0, Wanted(total, ready) - total)
  BY <1>2, <1>6, <1>9, <1>10 DEF Upper
<1>14. after <= Budget
  BY <1>6, <1>8, <1>9, <1>10, <1>11, <1>12, <1>13 DEF Upper
<1>15. Cardinality(slots' \ reaping') = after BY <1>2 DEF after
<1> QED BY <1>3, <1>14, <1>15 DEF BudgetKept, Total, Budget

\* A step that registers no slot and puts none back among the counted ones.
LEMMA FewerCounted ==
  ASSUME BudgetInv, slots' \subseteq slots, slots' \ reaping' \subseteq slots \ reaping
  PROVE  slots' \subseteq Slots /\ BudgetKept'
<1>1. slots \subseteq Slots /\ Total <= Budget BY DEF BudgetInv, BudgetKept, Budget
<1>2. IsFiniteSet(slots \ reaping) BY <1>1, FS_Subset, ConstantsAssumption
<1>3. Cardinality(slots' \ reaping') <= Cardinality(slots \ reaping)
  BY <1>2, FS_Subset
<1>4. Cardinality(slots' \ reaping') \in Nat /\ Cardinality(slots \ reaping) \in Nat
  BY <1>2, FS_Subset, FS_CardinalityType
<1>5. Budget \in Nat BY ConstantsAssumption DEF Budget, Upper
<1> QED BY <1>1, <1>3, <1>4, <1>5 DEF BudgetKept, Total, Budget

\* What every step does to the count: a reconcile decides, or nothing is added.
CountStep == Decide \/ (slots' \subseteq slots /\ slots' \ reaping' \subseteq slots \ reaping)
\* What every step does to the settings.
SettingsStep ==
  /\ activeReplicas' \in Replicas \cup {activeReplicas}
  /\ hint' \in Hints \cup {hint}

\* refreshServing, setServing and onServing touch neither count nor settings.
LEMMA SettleSteps ==
  ASSUME NEW g, Settle(g)
  PROVE  CountStep /\ SettingsStep
BY DEF Settle, Look, SetServing, Tell, CountStep, SettingsStep, counts, settings

\* A slot's own goroutines only ever take slots out of the count.
LEMMA SlotSteps ==
  ASSUME NEW s \in Slots, SlotStep(s)
  PROVE  CountStep /\ SettingsStep
<1> USE DEF CountStep, SettingsStep, counts, settings
<1>1. CASE OpenOk(s) BY <1>1 DEF OpenOk
<1>2. CASE OpenFails(s) BY <1>2 DEF OpenFails
<1>3. CASE RunParks(s) BY <1>3 DEF RunParks, slotIdle
<1>4. CASE RecvHeaders(s) BY <1>4 DEF RecvHeaders
<1>5. CASE BeginServe(s) BY <1>5 DEF BeginServe
<1>6. CASE ServeRetires(s) BY <1>6 DEF ServeRetires
<1>7. CASE ServeReadies(s) BY <1>7 DEF ServeReadies
<1>8. CASE ServeParks(s) BY <1>8 DEF ServeParks, slotIdle
<1>9. CASE RunStops(s) BY <1>9 DEF RunStops
<1>10. CASE SlotFinished(s) BY <1>10 DEF SlotFinished
<1>11. CASE RunReturns(s) BY <1>11 DEF RunReturns
<1> QED BY <1>1, <1>2, <1>3, <1>4, <1>5, <1>6, <1>7, <1>8, <1>9, <1>10, <1>11
        DEF SlotStep

\* Of the other steps only reconcile adds slots, and only by its decision.
LEMMA OtherSteps ==
  ASSUME MaintainStep \/ PauseElapses \/ Calls \/ MaintainReturns \/ StopReturns \/ Over
         \/ UNCHANGED vars
  PROVE  CountStep /\ SettingsStep
<1> USE DEF CountStep, SettingsStep, counts, settings
<1>1. CASE Reconcile
  <2>1. UNCHANGED <<activeReplicas, hint>> BY <1>1 DEF Reconcile
  <2>2. Decide \/ UNCHANGED <<slots, reaping>> BY <1>1 DEF Reconcile
  <2> QED BY <2>1, <2>2
<1>2. CASE \E s \in Slots : Reap(s) BY <1>2 DEF Reap
<1>3. CASE StartSlots BY <1>3 DEF StartSlots
<1>4. CASE ReconcileReturns BY <1>4 DEF ReconcileReturns
<1>5. CASE PauseElapses BY <1>5 DEF PauseElapses
<1>6. CASE SetActiveReplicas BY <1>6 DEF SetActiveReplicas
<1>7. CASE ApplyHint BY <1>7 DEF ApplyHint
<1>8. CASE SetDraining BY <1>8 DEF SetDraining
<1>9. CASE Stop BY <1>9 DEF Stop
<1>10. CASE MaintainReturns BY <1>10 DEF MaintainReturns
<1>11. CASE StopReturns BY <1>11 DEF StopReturns
<1>12. CASE Over BY <1>12 DEF Over, vars
<1>13. CASE UNCHANGED vars BY <1>13 DEF vars
<1> QED BY <1>1, <1>2, <1>3, <1>4, <1>5, <1>6, <1>7, <1>8, <1>9, <1>10, <1>11, <1>12,
           <1>13 DEF MaintainStep, Calls

\* The node's slot budget holds always, whatever the hints, the replica counts,
\* the draining calls and the interleaving of slots and reconcile.
THEOREM BudgetAlways == Spec => []BudgetKept
<1>1. Init => BudgetInv
  <2> SUFFICES ASSUME Init PROVE BudgetInv OBVIOUS
  <2>1. slots \subseteq Slots /\ activeReplicas \in Nat \ {0}
        /\ hint \in [min : Nat, max : Nat] BY DEF Init, NoHint
  <2>2. Total = 0
    <3>1. slots \ reaping = {} BY DEF Init
    <3> QED BY <3>1, FS_EmptySet DEF Total
  <2>3. BudgetKept BY <2>2, ConstantsAssumption DEF BudgetKept, Upper
  <2> QED BY <2>1, <2>3 DEF BudgetInv
<1>2. BudgetInv /\ [Next]_vars => BudgetInv'
  <2> SUFFICES ASSUME BudgetInv, [Next]_vars PROVE BudgetInv' OBVIOUS
  <2>1. CountStep /\ SettingsStep
    BY SettleSteps, SlotSteps, OtherSteps DEF Next
  <2>2. slots' \subseteq Slots /\ BudgetKept'
    BY <2>1, DecideKeeps, FewerCounted DEF CountStep
  <2>3. activeReplicas' \in Nat \ {0} /\ hint' \in [min : Nat, max : Nat]
    BY <2>1, ConstantsAssumption DEF SettingsStep, BudgetInv
  <2> QED BY <2>2, <2>3 DEF BudgetInv
<1>3. BudgetInv => BudgetKept BY DEF BudgetInv
<1> QED BY <1>1, <1>2, <1>3, PTL DEF Spec

-----------------------------------------------------------------------------
(* Which goroutines run for which slots.                                    *)

\* slot.run between its start and slotFinished.
Alive == {"open", "first", "recv", "begin", "closing"}
\* slot.run while a handler may run.
Manned == {"recv", "begin", "closing"}

\* A slot is registered from the decision to open it to slotFinished; handlers
\* and reports run only for slots that are; reconcile's lists are empty when it
\* is not running; nothing runs once Stop has returned.
Lives ==
  /\ \A s \in Slots : s \in slots <=> run[s] \in Alive \/ s \in opens
  /\ \A s \in opens : run[s] = "unused"
  /\ mpc # "reap" => opens = {} /\ targets = {}
  /\ \A s \in working \cup late : run[s] \in Manned
  /\ \A s \in Slots : settle[Loop(s)] # "none" => run[s] \in {"recv", "gone"}
  /\ \A s \in Slots : settle[Handler(s)] # "none" => run[s] \in Manned
  /\ settle[maintain] # "none" => mpc = "settle"
  /\ mpc = "done" => stop # "no"
  /\ stop = "returned" => mpc = "done" /\ ~serving /\ \A s \in Slots : run[s] = "unused"

\* The goroutines that refresh are different ones.
LEMMA Distinct ==
  /\ maintain \in Reporters
  /\ \A s \in Slots : Loop(s) \in Reporters /\ Handler(s) \in Reporters
  /\ \A s \in Slots : maintain # Loop(s) /\ maintain # Handler(s)
  /\ \A s, t \in Slots : Loop(s) # Handler(t)
  /\ \A s, t \in Slots : Loop(s) = Loop(t) \/ Handler(s) = Handler(t) => s = t
<1>1. \A s, t \in Slots : Loop(s) = Loop(t) \/ Handler(s) = Handler(t) => s = t
  BY DEF Loop, Handler
<1>2. \A s, t \in Slots : Loop(s) # Handler(t) BY DEF Loop, Handler
<1>3. \A s \in Slots : maintain # Loop(s) /\ maintain # Handler(s)
  BY DEF maintain, Loop, Handler
<1> QED BY <1>1, <1>2, <1>3 DEF Reporters

\* The part of the type invariant that the other facts need: sets and states.
Shape ==
  /\ slots \subseteq Slots /\ parked \subseteq slots /\ idle \subseteq parked
  /\ reaping \subseteq slots /\ targets \subseteq Slots /\ opens \subseteq slots
  /\ mpc \in {"start", "select", "reap", "settle", "done"}
  /\ stop \in {"no", "cancelled", "returned"}
  /\ run \in [Slots -> {"unused", "open", "first", "recv", "begin", "closing", "gone"}]
  /\ working \subseteq Slots /\ late \subseteq Slots
  /\ cut \subseteq Slots /\ offered \subseteq Slots
  /\ settle \in [Reporters -> {"none", "look", "sawT", "sawF", "tellT", "tellF"}]

LEMMA LivesSlot ==
  ASSUME Shape, Lives, NEW s \in Slots, SlotStep(s)
  PROVE  Shape' /\ Lives'
<1> USE Distinct DEF Shape, Lives, Alive, Manned, RunGoes, counts, settings, maint, slotv, report
<1>1. CASE OpenOk(s) BY <1>1 DEF OpenOk
<1>2. CASE OpenFails(s) BY <1>2 DEF OpenFails
<1>3. CASE RunParks(s) BY <1>3 DEF RunParks, slotIdle, Refresh
<1>4. CASE RecvHeaders(s) BY <1>4 DEF RecvHeaders
<1>5. CASE BeginServe(s) BY <1>5 DEF BeginServe
<1>6. CASE ServeRetires(s) BY <1>6 DEF ServeRetires
<1>7. CASE ServeReadies(s) BY <1>7 DEF ServeReadies
<1>8. CASE ServeParks(s) BY <1>8 DEF ServeParks, slotIdle, Refresh
<1>9. CASE RunStops(s) BY <1>9 DEF RunStops
<1>10. CASE SlotFinished(s) BY <1>10 DEF SlotFinished, HandlersDone, Refresh
<1>11. CASE RunReturns(s) BY <1>11 DEF RunReturns
<1> QED BY <1>1, <1>2, <1>3, <1>4, <1>5, <1>6, <1>7, <1>8, <1>9, <1>10, <1>11
        DEF SlotStep

LEMMA LivesSettle ==
  ASSUME Shape, Lives, NEW g \in Reporters, Settle(g)
  PROVE  Shape' /\ Lives'
<1> USE DEF Shape, counts, settings, maint, slotv, report
<1>1. CASE Look(g)
  BY <1>1, Distinct DEF Look, Lives
<1>2. CASE SetServing(g)
  <2>1. settle[g] # "none" /\ stop' = stop BY <1>2 DEF SetServing
  <2>2. stop # "returned" BY <2>1 DEF Lives, Reporters, Manned
  <2>3. \A h \in Reporters : settle'[h] # "none" => settle[h] # "none"
    BY <1>2 DEF SetServing
  <2>4. UNCHANGED <<counts, maint, slotv>> /\ Shape' BY <1>2 DEF SetServing
  <2> QED BY <2>1, <2>2, <2>3, <2>4, Distinct DEF Lives
<1>3. CASE Tell(g) BY <1>3, Distinct DEF Tell, Lives
<1> QED BY <1>1, <1>2, <1>3 DEF Settle

LEMMA LivesOther ==
  ASSUME Shape, Lives,
         MaintainStep \/ PauseElapses \/ Calls \/ MaintainReturns \/ StopReturns \/ Over
         \/ UNCHANGED vars
  PROVE  Shape' /\ Lives'
<1> USE DEF Shape, Lives, counts, settings, maint, slotv, report
<1>1. CASE Reconcile
  <2>1. CASE stop # "no"
    BY <1>1, <2>1 DEF Reconcile
  <2>2. CASE stop = "no"
    <3>1. mpc # "settle" /\ opens = {} /\ mpc' = "reap" /\ Decide
          /\ UNCHANGED <<parked, idle, stop, slotv, report>>
      BY <1>1, <2>2 DEF Reconcile
    <3>2. PICK gone \in SUBSET ((slots \cap idle) \ reaping),
               new \in SUBSET {s \in Slots : run[s] = "unused"} :
            /\ slots' = slots \cup new /\ opens' = new
            /\ targets' = gone /\ reaping' = reaping \cup gone
      BY <3>1, Zenon DEF Decide
    <3>3. Shape' BY <3>1, <3>2
    <3>4. \A s \in Slots : s \in slots' <=> run'[s] \in Alive \/ s \in opens'
      BY <3>1, <3>2
    <3>5. \A s \in opens' : run'[s] = "unused" BY <3>1, <3>2
    <3> QED BY <3>1, <3>3, <3>4, <3>5, <2>2
  <2> QED BY <2>1, <2>2
<1>2. CASE \E s \in Slots : Reap(s) BY <1>2 DEF Reap
<1>3. CASE StartSlots BY <1>3, Distinct DEF StartSlots, Refresh, Alive, Manned
<1>4. CASE ReconcileReturns BY <1>4 DEF ReconcileReturns
<1>5. CASE PauseElapses BY <1>5 DEF PauseElapses
<1>6. CASE SetActiveReplicas BY <1>6 DEF SetActiveReplicas
<1>7. CASE ApplyHint BY <1>7 DEF ApplyHint
<1>8. CASE SetDraining BY <1>8 DEF SetDraining
<1>9. CASE Stop BY <1>9 DEF Stop
<1>10. CASE MaintainReturns BY <1>10 DEF MaintainReturns
<1>11. CASE StopReturns BY <1>11 DEF StopReturns
<1>12. CASE Over BY <1>12 DEF Over, vars
<1>13. CASE UNCHANGED vars BY <1>13 DEF vars
<1> QED BY <1>1, <1>2, <1>3, <1>4, <1>5, <1>6, <1>7, <1>8, <1>9, <1>10, <1>11, <1>12,
           <1>13 DEF MaintainStep, Calls

\* The rest of the type invariant, kept by every step.
LEMMA Scalars ==
  ASSUME TypeOK, [Next]_vars
  PROVE  /\ paused' \in {"no", "held", "elapsed"}
         /\ activeReplicas' \in Replicas \cup {1} /\ hint' \in Hints \cup {NoHint}
         /\ {draining', serving', wake', shown'} \subseteq BOOLEAN
<1> USE DEF TypeOK, counts, settings, maint, slotv, report
<1>1. CASE MaintainStep \/ PauseElapses \/ MaintainReturns \/ StopReturns \/ Over
           \/ UNCHANGED vars
  BY <1>1 DEF MaintainStep, Reconcile, Reap, StartSlots, ReconcileReturns, PauseElapses,
              MaintainReturns, StopReturns, Over, vars
<1>2. CASE Calls BY <1>2 DEF Calls, SetActiveReplicas, ApplyHint, SetDraining, Stop
<1>3. ASSUME NEW s \in Slots, SlotStep(s)
      PROVE  /\ paused' \in {"no", "held", "elapsed"}
             /\ UNCHANGED <<activeReplicas, hint, draining, serving, shown>>
             /\ wake' \in {wake, TRUE}
  BY <1>3 DEF SlotStep, OpenOk, OpenFails, RunParks, slotIdle, RecvHeaders, BeginServe,
              ServeRetires, ServeReadies, ServeParks, RunStops, SlotFinished, RunReturns
<1>4. ASSUME NEW g \in Reporters, Settle(g)
      PROVE  /\ UNCHANGED <<paused, activeReplicas, hint, draining>>
             /\ {serving', wake', shown'} \subseteq BOOLEAN
  <2>1. CASE Look(g) BY <2>1 DEF Look
  <2>2. CASE SetServing(g) BY <2>2, Zenon DEF SetServing, Poke
  <2>3. CASE Tell(g) BY <2>3, Zenon DEF Tell, Poke
  <2> QED BY <1>4, <2>1, <2>2, <2>3 DEF Settle
<1> QED BY <1>1, <1>2, <1>3, <1>4 DEF Next

LivesInv == TypeOK /\ Lives

\* The types and the slots' life cycle are kept by every step.
LEMMA LivesStep ==
  ASSUME LivesInv, [Next]_vars
  PROVE  LivesInv'
<1>1. Shape /\ Lives BY DEF LivesInv, TypeOK, Shape
<1>2. Shape' /\ Lives' BY <1>1, LivesSlot, LivesSettle, LivesOther DEF Next
<1>3. TypeOK' BY <1>2, Scalars DEF LivesInv, TypeOK, Shape
<1> QED BY <1>2, <1>3 DEF LivesInv

\* Types and life cycle, always: handlers and reports run only for registered
\* slots, and a slot is registered exactly while its goroutine runs or is about
\* to be started by the reconcile that decided on it.
THEOREM LivesAlways == Spec => []LivesInv
<1>1. Init => LivesInv
  BY Distinct DEF Init, LivesInv, TypeOK, Lives, Alive
<1>2. LivesInv /\ [Next]_vars => LivesInv' BY LivesStep
<1> QED BY <1>1, <1>2, PTL DEF Spec

\* The pool's state keeps its types, whatever the interleaving.
THEOREM TypeCorrect == Spec => []TypeOK
<1>1. LivesInv => TypeOK BY DEF LivesInv
<1> QED BY <1>1, LivesAlways, PTL

\* When Stop has returned, no slot is registered and no goroutine of the pool is
\* left, although a reconcile may register slots after the cancellation.
THEOREM StoppedIsEmptyHolds == Spec => []StoppedIsEmpty
<1>1. ASSUME LivesInv, stop = "returned"
      PROVE  /\ slots = {} /\ opens = {} /\ working \cup late = {} /\ ~serving
             /\ \A g \in Reporters : settle[g] = "none"
  <2>1. opens = {} /\ ~serving /\ mpc = "done" /\ \A s \in Slots : run[s] = "unused"
    BY <1>1 DEF LivesInv, Lives
  <2>2. slots = {} /\ working \cup late = {}
    BY <1>1, <2>1 DEF LivesInv, Lives, Alive, Manned, TypeOK
  <2>3. \A g \in Reporters : settle[g] = "none"
    BY <1>1, <2>1 DEF LivesInv, Lives, Manned, Reporters
  <2> QED BY <2>1, <2>2, <2>3
<1>2. LivesInv => StoppedIsEmpty BY <1>1 DEF StoppedIsEmpty
<1> QED BY <1>2, LivesAlways, PTL

-----------------------------------------------------------------------------
(* No wake-up is lost.                                                      *)

\* No slot's report is under way and no token waits.
Calm ==
  ~wake /\ \A s \in Slots : settle[Loop(s)] = "none" /\ settle[Handler(s)] = "none"

Enough == Total >= Floor /\ (Idle + Opening >= Low \/ Total >= Ceiling)

\* What the last reconcile saw to still holds until somebody reports: at every
\* point of the maintenance goroutine, not only when it is back in its select.
WatermarkInv == (stop = "no" /\ paused = "no" /\ mpc # "start" /\ Calm) => Enough

\* A step that touches no count, and calms nothing down.
Quiet ==
  /\ UNCHANGED <<counts, settings>>
  /\ Calm' => Calm
  /\ paused' = "no" => paused = "no"
  /\ stop' = "no" => stop = "no"
  /\ mpc' # "start" => mpc # "start"

\* A step after which the pool is stopped, or paused, or a report or a token is
\* on its way to the maintenance goroutine.
Loud == ~Calm' \/ stop' # "no" \/ paused' # "no"

LEMMA WakeSlot ==
  ASSUME LivesInv, NEW s \in Slots, SlotStep(s)
  PROVE  Quiet \/ Loud
<1> USE Distinct DEF Quiet, Loud, Calm, LivesInv, TypeOK, counts, settings, maint, report
<1>1. CASE OpenOk(s) BY <1>1 DEF OpenOk
<1>2. CASE OpenFails(s) BY <1>2 DEF OpenFails
<1>3. CASE RunParks(s) BY <1>3 DEF RunParks, Refresh
<1>4. CASE RecvHeaders(s) BY <1>4 DEF RecvHeaders
<1>5. CASE BeginServe(s) BY <1>5 DEF BeginServe
<1>6. CASE ServeRetires(s) BY <1>6 DEF ServeRetires
<1>7. CASE ServeReadies(s) BY <1>7 DEF ServeReadies
<1>8. CASE ServeParks(s) BY <1>8 DEF ServeParks, Refresh
<1>9. CASE RunStops(s) BY <1>9 DEF RunStops
<1>10. CASE SlotFinished(s) BY <1>10 DEF SlotFinished, Refresh
<1>11. CASE RunReturns(s) BY <1>11 DEF RunReturns
<1> QED BY <1>1, <1>2, <1>3, <1>4, <1>5, <1>6, <1>7, <1>8, <1>9, <1>10, <1>11
        DEF SlotStep

\* A slot's goroutine that refreshes pokes before it is done.
LEMMA SettlePokes ==
  ASSUME LivesInv, NEW g \in Reporters, g # maintain, Settle(g)
  PROVE  ~Calm'
<1> USE DEF LivesInv, TypeOK
<1>1. wake' \/ settle'[g] # "none"
  <2>1. CASE Look(g) BY <2>1 DEF Look
  <2>2. CASE SetServing(g)
    <3>1. CASE (settle[g] = "sawT") = serving
      BY <2>2, <3>1, Zenon DEF SetServing, Poke
    <3>2. CASE (settle[g] = "sawT") # serving
      <4>1. settle' = [settle EXCEPT ![g] = IF settle[g] = "sawT" THEN "tellT" ELSE "tellF"]
        BY <2>2, <3>2, Zenon DEF SetServing
      <4> QED BY <4>1
    <3> QED BY <3>1, <3>2
  <2>3. CASE Tell(g) BY <2>3, Zenon DEF Tell, Poke
  <2> QED BY <2>1, <2>2, <2>3 DEF Settle
<1>2. \E s \in Slots : g = Loop(s) \/ g = Handler(s) BY DEF Reporters
<1> QED BY <1>1, <1>2 DEF Calm

LEMMA SettleQuiet ==
  ASSUME LivesInv, Settle(maintain)
  PROVE  Quiet
<1> USE DEF LivesInv, TypeOK
<1>1. UNCHANGED <<counts, settings, paused, maint>>
  BY DEF Settle, Look, SetServing, Tell
<1>2. wake' = wake
  BY Zenon DEF Settle, Look, SetServing, Tell, Poke
<1>3. \A h \in Reporters : h # maintain => settle'[h] = settle[h]
  BY Distinct DEF Settle, Look, SetServing, Tell
<1>4. Calm' => Calm BY <1>2, <1>3, Distinct DEF Calm
<1> QED BY <1>1, <1>4 DEF Quiet, maint

LEMMA WakeOther ==
  ASSUME LivesInv,
         MaintainStep \/ PauseElapses \/ Calls \/ MaintainReturns \/ StopReturns \/ Over
         \/ UNCHANGED vars
  PROVE  Quiet \/ Loud \/ (stop = "no" /\ Reconcile)
<1> USE DEF Quiet, Loud, Calm, LivesInv, TypeOK, counts, settings, maint, report
<1>1. CASE Reconcile BY <1>1 DEF Reconcile
<1>2. CASE \E s \in Slots : Reap(s) BY <1>2 DEF Reap
<1>3. CASE StartSlots BY <1>3, Distinct DEF StartSlots, Refresh
<1>4. CASE ReconcileReturns BY <1>4 DEF ReconcileReturns
<1>5. CASE PauseElapses BY <1>5 DEF PauseElapses
<1>6. CASE SetActiveReplicas BY <1>6 DEF SetActiveReplicas
<1>7. CASE ApplyHint BY <1>7 DEF ApplyHint
<1>8. CASE SetDraining BY <1>8 DEF SetDraining
<1>9. CASE Stop BY <1>9 DEF Stop
<1>10. CASE MaintainReturns BY <1>10 DEF MaintainReturns
<1>11. CASE StopReturns BY <1>11 DEF StopReturns
<1>12. CASE Over BY <1>12 DEF Over, vars
<1>13. CASE UNCHANGED vars BY <1>13 DEF vars
<1> QED BY <1>1, <1>2, <1>3, <1>4, <1>5, <1>6, <1>7, <1>8, <1>9, <1>10, <1>11, <1>12,
           <1>13 DEF MaintainStep, Calls

\* Every step is quiet, loud, or a reconcile.
LEMMA WakeStep ==
  ASSUME LivesInv, [Next]_vars
  PROVE  Quiet \/ Loud \/ (stop = "no" /\ Reconcile)
<1>1. ASSUME NEW g \in Reporters, Settle(g) PROVE Quiet \/ Loud
  BY <1>1, SettlePokes, SettleQuiet DEF Loud
<1> QED BY <1>1, WakeSlot, WakeOther DEF Next

\* The limits are numbers, in their order.
LEMMA LimitsOrder ==
  ASSUME TypeOK
  PROVE  Floor \in Nat /\ Low \in Nat /\ Ceiling \in Nat /\ Floor <= Ceiling
<1>1. /\ MinSlots \in Nat /\ LowWatermark \in Nat /\ NodeTotalSlots \in Nat
      /\ activeReplicas \in Nat \ {0} /\ hint.min \in Nat /\ hint.max \in Nat
  BY ConstantsAssumption DEF TypeOK, NoHint
<1> DEFINE share == (NodeTotalSlots + activeReplicas - 1) \div activeReplicas
<1>2. share \in Nat BY <1>1, ShareBound
<1>3. PerReplicaMax = Upper(MinSlots, share) BY DEF PerReplicaMax
<1> HIDE DEF share
<1>4. PerReplicaMax \in Nat /\ MinSlots <= PerReplicaMax BY <1>1, <1>2, <1>3 DEF Upper
<1>5. RawFloor \in Nat /\ RawFloor <= PerReplicaMax
  BY <1>1, <1>4 DEF RawFloor, clampInt, Upper, Lower
<1>6. Floor \in Nat /\ Low \in Nat
  BY <1>1, <1>5 DEF Floor, Low, Lower
<1>7. Ceiling \in Nat /\ Floor <= Ceiling
  BY <1>1, <1>4, <1>5 DEF Ceiling, Floor, clampInt, Upper, Lower
<1> QED BY <1>6, <1>7

\* The counts after some of a set were taken out and new elements put in.
LEMMA CountOut ==
  ASSUME NEW A, NEW G, IsFiniteSet(A), G \subseteq A
  PROVE  /\ IsFiniteSet(A \ G)
         /\ Cardinality(A) \in Nat /\ Cardinality(G) \in Nat
         /\ Cardinality(A \ G) \in Nat
         /\ Cardinality(A \ G) = Cardinality(A) - Cardinality(G)
<1>1. A \cap G = G OBVIOUS
<1>2. IsFiniteSet(G) BY FS_Subset
<1>3. IsFiniteSet(A \ G) /\ Cardinality(A \ G) = Cardinality(A) - Cardinality(A \cap G)
  BY FS_Difference
<1>4. Cardinality(A) \in Nat /\ Cardinality(G) \in Nat /\ Cardinality(A \ G) \in Nat
  BY <1>2, <1>3, FS_CardinalityType
<1> QED BY <1>1, <1>3, <1>4
LEMMA CountIn ==
  ASSUME NEW A, NEW W, IsFiniteSet(A), IsFiniteSet(W), A \cap W = {}
  PROVE  /\ Cardinality(W) \in Nat /\ Cardinality(A) \in Nat
         /\ Cardinality(A \cup W) = Cardinality(A) + Cardinality(W)
<1>1. Cardinality(A \cup W) = Cardinality(A) + Cardinality(W) - Cardinality(A \cap W)
  BY FS_Union
<1>2. Cardinality(A \cap W) = 0 BY FS_EmptySet
<1> QED BY <1>1, <1>2, FS_CardinalityType

\* One reconcile that is not held off leaves enough slots.
LEMMA ReconcileSuffices ==
  ASSUME LivesInv, Reconcile, stop = "no", paused = "no"
  PROVE  Enough'
<1>1. /\ Decide /\ opens = {} /\ UNCHANGED <<parked, idle, settings>>
      /\ TypeOK
  BY DEF LivesInv, Lives, Reconcile
<1> DEFINE candidates == (slots \cap idle) \ reaping
<1>2. PICK gone \in SUBSET candidates, new \in SUBSET {s \in Slots : run[s] = "unused"} :
        /\ Cardinality(new) =
             Upper(0, Wanted(Total - Cardinality(gone), Idle + Opening - Cardinality(gone))
                      - (Total - Cardinality(gone)))
        /\ slots' = slots \cup new
        /\ reaping' = reaping \cup gone
  <2>1. PICK aged \in SUBSET candidates, expired \in SUBSET candidates :
        \E new \in SUBSET {s \in Slots : run[s] = "unused"} :
          /\ Cardinality(new) = IF paused = "held" THEN 0 ELSE
               Upper(0, Wanted(Total - Cardinality(aged \cup expired),
                               Idle + Opening - Cardinality(aged \cup expired))
                        - (Total - Cardinality(aged \cup expired)))
          /\ slots' = slots \cup new
          /\ reaping' = reaping \cup (aged \cup expired)
    BY <1>1, Zenon DEF Decide
  <2>2. aged \cup expired \in SUBSET candidates OBVIOUS
  <2>3. paused # "held" OBVIOUS
  <2> QED BY <2>1, <2>2, <2>3
<1>3. /\ new \cap slots = {} /\ slots \subseteq Slots /\ parked \subseteq slots
      /\ idle \subseteq parked /\ reaping \subseteq slots
  BY <1>1, <1>2 DEF LivesInv, Lives, Alive, TypeOK
<1>4. IsFiniteSet(slots) /\ IsFiniteSet(new)
  BY <1>2, <1>3, FS_Subset, ConstantsAssumption
<1> DEFINE c == Cardinality(gone)
           n == Cardinality(new)
<1>5. Total \in Nat /\ c \in Nat /\ n \in Nat /\ Total' = Total - c + n
  <2>1. slots' \ reaping' = ((slots \ reaping) \ gone) \cup new BY <1>2, <1>3
  <2>2. IsFiniteSet(slots \ reaping) /\ gone \subseteq slots \ reaping BY <1>4, FS_Subset
  <2>3. ((slots \ reaping) \ gone) \cap new = {} BY <1>3
  <2>4. Cardinality(slots' \ reaping') = Cardinality((slots \ reaping) \ gone) + n
    BY <1>4, <2>1, <2>2, <2>3, CountOut, CountIn
  <2>5. Cardinality((slots \ reaping) \ gone) = Total - c /\ Total \in Nat /\ c \in Nat
    BY <2>2, CountOut DEF Total
  <2>6. n \in Nat BY <1>4, FS_CardinalityType
  <2> QED BY <2>4, <2>5, <2>6 DEF Total
<1>6. Idle \in Nat /\ Idle' = Idle - c
  <2> DEFINE I == (slots \cap parked \cap idle) \ reaping
  <2>1. (slots' \cap parked' \cap idle') \ reaping' = I \ gone BY <1>1, <1>2, <1>3
  <2>2. IsFiniteSet(I) /\ gone \subseteq I BY <1>3, <1>4, FS_Subset
  <2>3. Cardinality(I \ gone) = Cardinality(I) - c /\ Cardinality(I) \in Nat
    BY <2>2, CountOut
  <2> QED BY <2>1, <2>3 DEF Idle
<1>7. Opening \in Nat /\ Opening' = Opening + n
  <2> DEFINE O == (slots \ parked) \ reaping
  <2>1. (slots' \ parked') \ reaping' = O \cup new BY <1>1, <1>2, <1>3
  <2>2. IsFiniteSet(O) /\ O \cap new = {} BY <1>3, <1>4, FS_Subset
  <2>3. Cardinality(O \cup new) = Cardinality(O) + n /\ Cardinality(O) \in Nat
    BY <1>4, <2>2, CountIn
  <2> QED BY <2>1, <2>3 DEF Opening
<1>8. Floor' = Floor /\ Low' = Low /\ Ceiling' = Ceiling
  BY <1>1 DEF Floor, Low, Ceiling, RawFloor, PerReplicaMax, settings
<1>9. Floor \in Nat /\ Low \in Nat /\ Ceiling \in Nat /\ Floor <= Ceiling
  BY <1>1, LimitsOrder
<1>10. n = Upper(0, Wanted(Total - c, Idle + Opening - c) - (Total - c)) BY <1>2
<1> DEFINE total == Total - c
           ready == Idle + Opening - c
<1> HIDE DEF c, n
<1>11. total \in Int /\ ready \in Int BY <1>5, <1>6, <1>7
<1>12. Total' = total + n /\ Idle' + Opening' = ready + n BY <1>5, <1>6, <1>7
<1> HIDE DEF total, ready
<1> DEFINE W == Wanted(total, ready)
<1>13. /\ W \in Int /\ W >= Floor
       /\ W >= Ceiling \/ ready >= Low \/ W >= total + (Low - ready)
  BY <1>9, <1>11 DEF Wanted, Lower, Upper
<1>14. n = Upper(0, W - total) BY <1>10 DEF total, ready
<1> HIDE DEF W
<1>15. total + n >= W /\ n >= W - total /\ n >= 0 /\ n \in Int
  BY <1>11, <1>13, <1>14 DEF Upper
<1>16. total + n >= Floor /\ (ready + n >= Low \/ total + n >= Ceiling)
  BY <1>9, <1>11, <1>13, <1>15
<1> QED BY <1>8, <1>12, <1>16 DEF Enough

\* At rest the pool is at its floor and its low watermark or ceiling, for every
\* configuration and every interleaving of reports, reaping and setting changes
\* with the last reconcile: no report gets lost in the one-token wake channel.
THEOREM WatermarkSettlesHolds == Spec => []WatermarkSettles
<1>1. Init => WatermarkInv BY DEF Init, WatermarkInv
<1>2. LivesInv /\ WatermarkInv /\ [Next]_vars => WatermarkInv'
  <2> SUFFICES ASSUME LivesInv, WatermarkInv, [Next]_vars,
                      stop' = "no", paused' = "no", mpc' # "start", Calm'
               PROVE  Enough'
    BY DEF WatermarkInv
  <2>1. Quiet \/ Loud \/ (stop = "no" /\ Reconcile) BY WakeStep
  <2>2. CASE Quiet
    <3>1. Enough BY <2>2 DEF Quiet, WatermarkInv
    <3>2. Enough' = Enough
      BY <2>2 DEF Quiet, Enough, Total, Idle, Opening, Floor, Low, Ceiling, RawFloor,
                  PerReplicaMax, counts, settings
    <3> QED BY <3>1, <3>2
  <2>3. CASE stop = "no" /\ Reconcile
    <3>1. paused = "no" BY <2>3 DEF Reconcile
    <3> QED BY <2>3, <3>1, ReconcileSuffices
  <2> QED BY <2>1, <2>2, <2>3 DEF Loud
<1>3. LivesInv /\ WatermarkInv => WatermarkSettles
  <2> SUFFICES ASSUME WatermarkInv, AtRest, stop = "no", paused = "no" PROVE Enough
    BY DEF WatermarkSettles, Enough
  <2>1. Calm /\ mpc # "start" BY Distinct DEF AtRest, Calm
  <2> QED BY <2>1 DEF WatermarkInv
<1> QED BY <1>1, <1>2, <1>3, LivesAlways, PTL DEF Spec

-----------------------------------------------------------------------------
(* A stale refresh is repaired.                                             *)

Ready == slots \cap parked # {}
Saw == IF Ready THEN "sawT" ELSE "sawF"

\* While no slot's report is under way, the maintenance goroutine is about to
\* look, has seen what is still true, or has recorded it.
ServingOk ==
  \/ mpc = "reap"
  \/ settle[maintain] \in {"look", Saw}
  \/ settle[maintain] \in {"none", "tellT", "tellF"} /\ (serving <=> Ready)
ServingInv == (stop = "no" /\ Calm) => ServingOk

\* A step that changes nothing ServingOk speaks of.
Aside ==
  /\ UNCHANGED <<slots, parked, serving>>
  /\ settle'[maintain] = settle[maintain]
  /\ mpc = "reap" => mpc' = "reap"
  /\ Calm' => Calm
  /\ stop' = "no" => stop = "no"

LEMMA ServingSlot ==
  ASSUME LivesInv, NEW s \in Slots, SlotStep(s)
  PROVE  Aside \/ ~Calm'
<1> USE Distinct DEF Aside, Calm, LivesInv, TypeOK, counts, settings, maint, report
<1>1. CASE OpenOk(s) BY <1>1 DEF OpenOk
<1>2. CASE OpenFails(s) BY <1>2 DEF OpenFails
<1>3. CASE RunParks(s) BY <1>3 DEF RunParks, Refresh
<1>4. CASE RecvHeaders(s) BY <1>4 DEF RecvHeaders
<1>5. CASE BeginServe(s) BY <1>5 DEF BeginServe
<1>6. CASE ServeRetires(s) BY <1>6 DEF ServeRetires
<1>7. CASE ServeReadies(s) BY <1>7 DEF ServeReadies
<1>8. CASE ServeParks(s) BY <1>8 DEF ServeParks, Refresh
<1>9. CASE RunStops(s) BY <1>9 DEF RunStops
<1>10. CASE SlotFinished(s) BY <1>10 DEF SlotFinished, Refresh
<1>11. CASE RunReturns(s) BY <1>11 DEF RunReturns
<1> QED BY <1>1, <1>2, <1>3, <1>4, <1>5, <1>6, <1>7, <1>8, <1>9, <1>10, <1>11
        DEF SlotStep

LEMMA ServingOther ==
  ASSUME LivesInv,
         MaintainStep \/ PauseElapses \/ Calls \/ MaintainReturns \/ StopReturns \/ Over
         \/ UNCHANGED vars
  PROVE  Aside \/ ~Calm' \/ stop' # "no" \/ ServingOk'
<1> USE DEF Aside, Calm, LivesInv, TypeOK, counts, settings, maint, report
<1>1. CASE Reconcile BY <1>1 DEF Reconcile, ServingOk
<1>2. CASE \E s \in Slots : Reap(s) BY <1>2 DEF Reap
<1>3. CASE StartSlots BY <1>3, Distinct DEF StartSlots, Refresh, ServingOk
<1>4. CASE ReconcileReturns BY <1>4 DEF ReconcileReturns
<1>5. CASE PauseElapses BY <1>5 DEF PauseElapses
<1>6. CASE SetActiveReplicas BY <1>6 DEF SetActiveReplicas
<1>7. CASE ApplyHint BY <1>7 DEF ApplyHint
<1>8. CASE SetDraining BY <1>8 DEF SetDraining
<1>9. CASE Stop BY <1>9 DEF Stop
<1>10. CASE MaintainReturns BY <1>10 DEF MaintainReturns
<1>11. CASE StopReturns BY <1>11 DEF StopReturns
<1>12. CASE Over BY <1>12 DEF Over, vars
<1>13. CASE UNCHANGED vars BY <1>13 DEF vars
<1> QED BY <1>1, <1>2, <1>3, <1>4, <1>5, <1>6, <1>7, <1>8, <1>9, <1>10, <1>11, <1>12,
           <1>13 DEF MaintainStep, Calls

\* The maintenance goroutine's own refresh.
LEMMA ServingSettle ==
  ASSUME LivesInv, ServingOk, Settle(maintain)
  PROVE  ServingOk'
<1> USE Distinct DEF LivesInv, TypeOK
<1>1. mpc # "reap" /\ UNCHANGED <<slots, parked, mpc>>
  BY DEF Settle, Look, SetServing, Tell, Lives, counts, maint
<1>2. Ready' = Ready /\ Saw' = Saw BY <1>1 DEF Ready, Saw
<1>3. CASE Look(maintain)
  <2>1. settle'[maintain] = Saw BY <1>3 DEF Look, Saw, Ready
  <2> QED BY <1>2, <2>1 DEF ServingOk
<1>4. CASE SetServing(maintain)
  <2>1. settle[maintain] = Saw BY <1>1, <1>4 DEF SetServing, ServingOk
  <2>2. Ready <=> (settle[maintain] = "sawT") BY <2>1 DEF Saw
  <2>3. serving' <=> Ready' BY <1>2, <1>4, <2>2 DEF SetServing
  <2>4. settle'[maintain] \in {"none", "tellT", "tellF"} BY <1>4 DEF SetServing
  <2> QED BY <2>3, <2>4 DEF ServingOk
<1>5. CASE Tell(maintain)
  <2>1. settle'[maintain] = "none" /\ serving' = serving BY <1>5 DEF Tell
  <2>2. serving <=> Ready BY <1>1, <1>5 DEF Tell, ServingOk, Saw
  <2> QED BY <1>2, <2>1, <2>2 DEF ServingOk
<1> QED BY <1>3, <1>4, <1>5 DEF Settle

\* At rest the recorded serving edge is the one the slots imply, although every
\* refresh reads the slots and records what it saw under two holds of Pool.mu:
\* whoever writes a stale value has a poke still to come.
THEOREM ServingSettlesHolds == Spec => []ServingSettles
<1>1. Init => ServingInv
  BY Distinct DEF Init, ServingInv, ServingOk, Ready
<1>2. LivesInv /\ ServingInv /\ [Next]_vars => ServingInv'
  <2> SUFFICES ASSUME LivesInv, ServingInv, [Next]_vars, stop' = "no", Calm'
               PROVE  ServingOk'
    BY DEF ServingInv
  <2>1. CASE Aside
    <3>1. ServingOk BY <2>1 DEF Aside, ServingInv
    <3> QED BY <2>1, <3>1 DEF Aside, ServingOk, Saw, Ready
  <2>2. CASE \E g \in Reporters : Settle(g)
    <3>1. PICK g \in Reporters : Settle(g) BY <2>2
    <3>2. g = maintain BY <3>1, SettlePokes
    <3>3. Quiet BY <3>1, <3>2, SettleQuiet
    <3>4. ServingOk BY <3>3 DEF Quiet, ServingInv
    <3> QED BY <3>1, <3>2, <3>4, ServingSettle
  <2> QED BY <2>1, <2>2, ServingSlot, ServingOther DEF Next
<1>3. LivesInv /\ ServingInv => ServingSettles
  <2> SUFFICES ASSUME LivesInv, ServingInv, AtRest, stop = "no"
               PROVE  serving = (slots \cap parked # {})
    BY DEF ServingSettles
  <2>1. Calm /\ mpc # "reap" /\ settle[maintain] = "none" BY Distinct DEF AtRest, Calm
  <2>2. serving <=> Ready BY <2>1 DEF ServingInv, ServingOk, Saw
  <2>3. serving \in BOOLEAN BY DEF LivesInv, TypeOK
  <2> QED BY <2>2, <2>3, Zenon DEF Ready
<1> QED BY <1>1, <1>2, <1>3, LivesAlways, PTL DEF Spec

=============================================================================
