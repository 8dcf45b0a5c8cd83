------------------------- MODULE HealthMonitorProofs -------------------------
(***************************************************************************)
(* The monitor keeps the restart policy, whatever its services, its        *)
(* operator and the clock do: what RecoveryManagerProofs shows of every    *)
(* caller of EvaluateAndRecover holds of this one.                         *)
(***************************************************************************)
EXTENDS HealthMonitor, RecoveryManagerProofs

\* What the argument needs to know of the variables a decision is made from.
DecisionInputs ==
    /\ todo \in Seq(Services)
    /\ pc \in {"call", "wait"} => todo # <<>>
    /\ health \in [Services -> Healths]
    /\ desired \in [Services -> {"stopped", "running"}]
    /\ now \in Clock /\ checkedAt \in Clock

LEMMA DecisionInputsKept == DecisionInputs /\ [Next]_vars => DecisionInputs'
<1> USE MonitorAssumption, PolicyAssumption
<1> SUFFICES ASSUME DecisionInputs, [Next]_vars PROVE DecisionInputs'
  OBVIOUS
<1> USE DEF DecisionInputs, svcVars, cycleVars
<1>0. todo # <<>> => Tail(todo) \in Seq(Services)
  BY HeadTailProperties
<1>1. CASE MonitorStep
  <2>1. CASE BeginCycle
    BY <2>1 DEF BeginCycle
  <2>2. CASE ListService
    BY <2>2 DEF ListService
  <2>3. CASE CheckServices
    BY <2>3 DEF CheckServices, Judgement, Healths
  <2>4. CASE Decide
    BY <1>0, <2>4 DEF Decide
  <2>5. CASE CallSupervisor
    BY <1>0, <2>5 DEF CallSupervisor, NextService, BeginStart, BeginRestart, RefuseStart
  <2>6. CASE RecoveryReturns
    BY <1>0, <2>6 DEF RecoveryReturns, NextService, Returns
  <2>7. CASE Publish
    BY <2>7 DEF Publish
  <2> QED BY <1>1, <2>1, <2>2, <2>3, <2>4, <2>5, <2>6, <2>7 DEF MonitorStep, CycleStep
<1>2. ASSUME NEW s \in Services, OperatorCall(s) PROVE DecisionInputs'
  BY <1>2 DEF OperatorCall, BeginStart, RefuseStart, BeginStop, BeginRestart
<1>3. ASSUME NEW s \in Services, OperatorReturns(s) PROVE DecisionInputs'
  BY <1>3 DEF OperatorReturns, Returns
<1>4. ASSUME NEW s \in Services, ServiceStep(s) PROVE DecisionInputs'
  BY <1>4 DEF ServiceStep, Launch, Exit, GroupEnds, StopThenStart
<1>5. CASE Tick
  BY <1>5 DEF Tick
<1>6. CASE UNCHANGED vars
  BY <1>6 DEF vars
<1> QED BY <1>1, <1>2, <1>3, <1>4, <1>5, <1>6 DEF Next

LEMMA DecisionInputsAreTyped == Spec => []DecisionInputs
<1>1. Init => DecisionInputs
  BY MonitorAssumption DEF Init, DecisionInputs, Healths
<1> QED BY <1>1, DecisionInputsKept, PTL DEF Spec

\* Every step of the monitor, of its services and of its operator is a call of the
\* restart policy or leaves the policy's state alone.
LEMMA PolicyStep == DecisionInputs /\ [Next]_vars => [PolicyNext]_policyVars
<1> SUFFICES ASSUME DecisionInputs, [Next]_vars PROVE [PolicyNext]_policyVars
  OBVIOUS
<1>1. CASE MonitorStep
  <2>1. CASE Decide
    <3>1. Current \in Services /\ desired[Current] \in {"stopped", "running"} /\ health[Current] \in Healths
      BY <2>1 DEF Decide, Current, DecisionInputs
    <3>2. Evaluate(Current, health[Current], Current \in critical, desired[Current], checkedAt)
      BY <2>1 DEF Decide
    <3>3. (Current \in critical) \in BOOLEAN /\ checkedAt \in Clock
      BY DEF DecisionInputs
    <3>4. \E s \in Services, h \in Healths, c \in BOOLEAN, d \in {"stopped", "running"},
             t \in Clock : Evaluate(s, h, c, d, t)
      BY <3>1, <3>2, <3>3, Zenon
    <3> QED BY <3>4 DEF PolicyNext
  <2>2. CASE CallSupervisor
    BY <2>2 DEF CallSupervisor, RefusedAttempt, PolicyNext
  <2>3. CASE RecoveryReturns
    BY <2>3 DEF RecoveryReturns, PolicyNext
  <2>4. CASE BeginCycle \/ ListService \/ CheckServices \/ Publish
    BY <2>4 DEF BeginCycle, ListService, CheckServices, Publish
  <2> QED BY <1>1, <2>1, <2>2, <2>3, <2>4 DEF MonitorStep, CycleStep
<1>2. ASSUME NEW s \in Services, OperatorCall(s) \/ OperatorReturns(s) \/ ServiceStep(s)
      PROVE  UNCHANGED policyVars
  BY <1>2 DEF OperatorCall, OperatorReturns, ServiceStep
<1>3. CASE Tick
  BY <1>3 DEF Tick
<1>4. CASE UNCHANGED vars
  BY <1>4 DEF vars
<1> QED BY <1>1, <1>2, <1>3, <1>4 DEF Next

\* EvaluateAndRecover, called by this monitor.
THEOREM MonitorKeepsPolicy == Spec => PolicyIsKept
<1>1. Init => PolicyInit
  BY DEF Init
<1> QED BY <1>1, PolicyStep, DecisionInputsAreTyped, PTL DEF Spec, PolicyIsKept, PolicySpec

\* The monitor never restarts a service more often than its policy allows.
THEOREM MonitorKeepsBudget == Spec => [](BudgetHolds /\ AttemptsSpaced)
BY MonitorKeepsPolicy, BudgetIsKept, SpacingIsKept, PTL DEF PolicyIsKept

\* The monitor's journal never tells half a restart, and ends with its outcome.
THEOREM MonitorTellsRestarts == Spec => []JournalPairs /\ OutcomeIsJournalled
BY MonitorKeepsPolicy, JournalIsPaired, OutcomeIsNewest, PTL DEF PolicyIsKept

-----------------------------------------------------------------------------
(* What was never up is left alone. *)

\* What a judgement, a decision or an attempt says was healthy has been up: without a
\* trigger for alerts, nothing else than having been seen healthy lets a service pass.
HealthyWereUp ==
    /\ up \in [Services -> BOOLEAN] /\ everUp \subseteq Services
    /\ \A s \in Services : up[s] => s \in everUp
    /\ running \subseteq everUp
    /\ \A s \in Services : health[s] = "healthy" => s \in everUp
    /\ seenHealthy \subseteq everUp
    /\ ~OnCritical =>
          /\ critical = {}
          /\ acting \in Services \ AutoStarted => acting \in everUp
          /\ \A s \in Services \ AutoStarted : history[s] # <<>> => s \in everUp

\* A decision passes only what was healthy, or is started with the agent.
LEMMA DecisionKeepsHealthy ==
    ASSUME HealthyWereUp, PolicyTypeOK, NEW s \in Services, NEW d, NEW t,
           Evaluate(s, health[s], s \in critical, d, t),
           UNCHANGED <<up, running, health, critical, everUp>>
    PROVE  HealthyWereUp'
<1> USE PolicyAssumption, NoServiceAssumption DEF HealthyWereUp
<1>1. seenHealthy' \subseteq everUp /\ history' = history
  BY DEF Evaluate, EvaluateIdle, EvaluateSuppressed, EvaluateRestart, Note
<1>2. ASSUME ~OnCritical, acting' \in Services \ AutoStarted PROVE acting' \in everUp
  <2>1. CASE EvaluateIdle(s, health[s], s \in critical, d)
    BY <1>2, <2>1 DEF EvaluateIdle
  <2>2. CASE EvaluateSuppressed(s, health[s], s \in critical, d, t)
    BY <1>2, <2>2 DEF EvaluateSuppressed
  <2>3. CASE EvaluateRestart(s, health[s], s \in critical, d, t)
    BY <1>2, <2>3 DEF EvaluateRestart, Triggered, Suppressed, NeverHealthy
  <2> QED BY <2>1, <2>2, <2>3 DEF Evaluate
<1> QED BY <1>1, <1>2

\* An attempt is recorded for the service that was decided on.
LEMMA AttemptKeepsHealthy ==
    ASSUME HealthyWereUp, PolicyTypeOK, NEW ok, RecordRestartAttempt(ok),
           up' \in [Services -> BOOLEAN], \A s \in Services : up'[s] => up[s],
           UNCHANGED <<running, health, critical, everUp>>
    PROVE  HealthyWereUp'
<1> USE NoServiceAssumption DEF HealthyWereUp, PolicyTypeOK
<1>1. UNCHANGED seenHealthy /\ acting' = NoService
  BY DEF RecordRestartAttempt
<1>2. \A s \in Services : history'[s] = history[s] \/ s = acting
  BY DEF RecordRestartAttempt
<1> QED BY <1>1, <1>2

LEMMA HealthyWereUpKept ==
    HealthyWereUp /\ DecisionInputs /\ PolicyTypeOK /\ [Next]_vars => HealthyWereUp'
<1> SUFFICES ASSUME HealthyWereUp, DecisionInputs, PolicyTypeOK, [Next]_vars
             PROVE  HealthyWereUp'
  OBVIOUS
<1>0. todo # <<>> => Current \in Services
  BY DEF DecisionInputs, Current
<1>1. CASE MonitorStep
  <2>1. CASE BeginCycle \/ Publish
    BY <2>1 DEF BeginCycle, Publish, HealthyWereUp, policyVars, svcVars
  <2>2. CASE ListService
    BY <1>0, <2>2 DEF ListService, HealthyWereUp, policyVars, svcVars
  <2>3. CASE CheckServices
    BY <2>3 DEF CheckServices, Judgement, HealthyWereUp, policyVars, svcVars
  <2>4. CASE Decide
    BY <1>0, <2>4, DecisionKeepsHealthy DEF Decide, svcVars
  <2>5. CASE CallSupervisor
    <3>1. UNCHANGED up
      BY <2>5 DEF CallSupervisor, BeginStart, BeginRestart, RefuseStart
    <3>2. CASE UNCHANGED policyVars
      BY <2>5, <3>1, <3>2 DEF CallSupervisor, HealthyWereUp, policyVars
    <3>3. CASE RefusedAttempt
      <4>1. up' \in [Services -> BOOLEAN] /\ \A s \in Services : up'[s] => up[s]
        BY <3>1 DEF HealthyWereUp
      <4> QED BY <2>5, <3>3, <4>1, AttemptKeepsHealthy DEF CallSupervisor, RefusedAttempt
    <3> QED BY <2>5, <3>2, <3>3 DEF CallSupervisor
  <2>6. CASE RecoveryReturns
    <3>1. PICK ok \in BOOLEAN : Returns(Current, ok) /\ RecordRestartAttempt(ok)
      BY <2>6 DEF RecoveryReturns
    <3>2. up' \in [Services -> BOOLEAN] /\ \A s \in Services : up'[s] => up[s]
      BY <3>1 DEF Returns, HealthyWereUp
    <3> QED BY <2>6, <3>1, <3>2, AttemptKeepsHealthy DEF RecoveryReturns
  <2> QED BY <1>1, <2>1, <2>2, <2>3, <2>4, <2>5, <2>6 DEF MonitorStep, CycleStep
<1>2. ASSUME NEW s \in Services, OperatorCall(s) PROVE HealthyWereUp'
  <2>1. UNCHANGED up
    BY <1>2 DEF OperatorCall, BeginStart, RefuseStart, BeginStop, BeginRestart
  <2> QED BY <1>2, <2>1 DEF OperatorCall, HealthyWereUp, policyVars, cycleVars
<1>3. ASSUME NEW s \in Services, OperatorReturns(s) PROVE HealthyWereUp'
  <2>1. up' \in [Services -> BOOLEAN] /\ \A r \in Services : up'[r] => up[r]
    BY <1>3 DEF OperatorReturns, Returns, HealthyWereUp
  <2> QED BY <1>3, <2>1 DEF OperatorReturns, HealthyWereUp, policyVars, cycleVars
<1>4. ASSUME NEW s \in Services, ServiceStep(s) PROVE HealthyWereUp'
  <2>1. CASE Launch(s)
    BY <1>4, <2>1 DEF ServiceStep, Launch, HealthyWereUp, policyVars, cycleVars
  <2>2. CASE (Exit(s) \/ GroupEnds(s) \/ StopThenStart(s)) /\ UNCHANGED everUp
    BY <1>4, <2>2 DEF ServiceStep, Exit, GroupEnds, StopThenStart, HealthyWereUp, policyVars, cycleVars
  <2> QED BY <1>4, <2>1, <2>2 DEF ServiceStep
<1>5. CASE Tick
  BY <1>5 DEF Tick, HealthyWereUp, policyVars, cycleVars, svcVars
<1>6. CASE UNCHANGED vars
  BY <1>6 DEF vars, HealthyWereUp, policyVars, cycleVars, svcVars
<1> QED BY <1>1, <1>2, <1>3, <1>4, <1>5, <1>6 DEF Next

\* Recovery never tries a service that was never up, unless it is started with the
\* agent or critical alerts ask for it (has_seen_healthy), however old the health it
\* acts on.
THEOREM NeverUpAlone == Spec => []NeverUpIsLeftAlone
<1>1. Init => HealthyWereUp
  <2> SUFFICES ASSUME Init PROVE HealthyWereUp
    OBVIOUS
  <2>1. \A s \in Services : history[s] = <<>>
    BY DEF Init, PolicyInit
  <2> QED BY <2>1, NoServiceAssumption DEF Init, PolicyInit, HealthyWereUp
<1>2. HealthyWereUp => NeverUpIsLeftAlone
  BY PolicyAssumption DEF HealthyWereUp, NeverUpIsLeftAlone
<1>3. Spec => []PolicyTypeOK
  BY MonitorKeepsPolicy, PolicyTypeCorrect, PTL DEF PolicyIsKept
<1> QED BY <1>1, <1>2, <1>3, HealthyWereUpKept, DecisionInputsAreTyped, PTL DEF Spec

=============================================================================
