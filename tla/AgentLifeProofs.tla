--------------------------- MODULE AgentLifeProofs ---------------------------
(***************************************************************************)
(* Nothing is left running when the agent has exited, for any services,    *)
(* any policy and any number of requests, and however starts, stops and    *)
(* the threads of the agent end.                                           *)
(***************************************************************************)
EXTENDS AgentLife, HealthMonitorProofs

USE DEF MonitorIsLeft, MainIsLeft, Rest, lifeVars, vars, svcVars, cycleVars, IsRecorded

LEMMA OrderReversed ==
    /\ Reverse(Order) \in Seq(Services)
    /\ \A s \in Services : \E i \in DOMAIN Reverse(Order) : Reverse(Order)[i] = s
<1>1. Order \in Seq(Services) /\ \A s \in Services : \E i \in DOMAIN Order : Order[i] = s
  BY MonitorAssumption
<1>2. Reverse(Order) = [i \in 1 .. Len(Order) |-> Order[(Len(Order) - i) + 1]]
  BY DEF Reverse
<1>3. Reverse(Order) \in Seq(Services) /\ DOMAIN Reverse(Order) = 1 .. Len(Order)
  BY <1>1, <1>2
<1>4. ASSUME NEW s \in Services
      PROVE  \E i \in DOMAIN Reverse(Order) : Reverse(Order)[i] = s
  <2>1. PICK i \in 1 .. Len(Order) : Order[i] = s
    BY <1>1
  <2>2. (Len(Order) - i) + 1 \in 1 .. Len(Order) /\ Len(Order) \in Nat
    BY <1>1
  <2>3. Reverse(Order)[(Len(Order) - i) + 1] = s
    BY <1>2, <2>1, <2>2
  <2> QED BY <1>3, <2>2, <2>3
<1> QED BY <1>3, <1>4

LEMMA NoOpIsNobodys == NoOp.by = "none" /\ NoOp.phase = "none"
BY DEF NoOp

\* The services of a loop are the one it is at and those of the rest.
LEMMA HeadIsPassed ==
    ASSUME NEW q \in Seq(Services), q # <<>>,
           NEW s \in Services, \E i \in DOMAIN q : q[i] = s, s # Head(q)
    PROVE  \E j \in DOMAIN Tail(q) : Tail(q)[j] = s
<1>1. PICK i \in DOMAIN q : q[i] = s
  OBVIOUS
<1>2. i - 1 \in DOMAIN Tail(q) /\ Tail(q)[i - 1] = s
  BY <1>1
<1> QED BY <1>2

LEMMA LifeInvInit == LifeInit => LifeInv
<1> SUFFICES ASSUME LifeInit PROVE LifeInv
  OBVIOUS
<1> QED
  BY MonitorAssumption DEF LifeInit, Init, LifeInv, RequestsAreServed, RecoveryIsInCycle, MainIsInLoop,
     PassedAreDown, Ops, NoOp

\* A step of main.
LEMMA MainStepKeeps == LifeInv /\ MainStep => LifeInv'
<1> SUFFICES ASSUME LifeInv, MainStep PROVE LifeInv'
  OBVIOUS
<1> USE DEF LifeInv, Ops, NoOp, Current
<1>1. CASE SkipService
  BY <1>1, HeadTailProperties
     DEF SkipService, RequestsAreServed, RecoveryIsInCycle, MainIsInLoop, PassedAreDown
<1>2. CASE AutoStart
  BY <1>2 DEF AutoStart, BeginStart, Occupy, RequestsAreServed, RecoveryIsInCycle, MainIsInLoop,
     PassedAreDown
<1>3. CASE AutoStartReturns
  <2>1. left # <<>> /\ Head(left) \in Services /\ Tail(left) \in Seq(Services)
    BY <1>3, HeadTailProperties DEF AutoStartReturns, MainIsInLoop
  <2>2. op' = [op EXCEPT ![Head(left)] = NoOp] /\ main = "autostart"
    BY <1>3, <2>1 DEF AutoStartReturns, Returns
  <2>3. up' \in [Services -> BOOLEAN]
    BY <1>3, <2>1 DEF AutoStartReturns, Returns
  <2>4. MainIsInLoop'
    BY <1>3, <2>1, <2>2 DEF AutoStartReturns, MainIsInLoop
  <2>5. RequestsAreServed' /\ RecoveryIsInCycle'
    BY <1>3, <2>1, <2>2 DEF AutoStartReturns, RequestsAreServed, RecoveryIsInCycle
  <2> QED BY <1>3, <2>1, <2>2, <2>3, <2>4, <2>5 DEF AutoStartReturns, PassedAreDown
<1>4. CASE AutoStartEnds \/ StartMonitor \/ StartServer \/ LeaveLoop \/ StopMonitor \/ JoinMonitor
  BY <1>4 DEF AutoStartEnds, StartMonitor, StartServer, LeaveLoop, StopMonitor, JoinMonitor,
     RequestsAreServed, RecoveryIsInCycle, MainIsInLoop, PassedAreDown
<1>5. CASE StartCollector \/ StopCollector
  BY <1>5, OrderReversed
     DEF StartCollector, StopCollector, RequestsAreServed, RecoveryIsInCycle, MainIsInLoop, PassedAreDown
<1>6. CASE ServerStops
  BY <1>6 DEF ServerStops, Drained, RequestsAreServed, RecoveryIsInCycle, MainIsInLoop, PassedAreDown
<1>7. CASE StopService
  <2>1. left # <<>> /\ Head(left) \in Services /\ Tail(left) \in Seq(Services)
    BY <1>7, HeadTailProperties DEF StopService, MainIsInLoop
  <2>2. main = "stop services" /\ main' = main /\ UNCHANGED <<up, lingering>> /\ op[Head(left)] = NoOp
        /\ unstopped' = unstopped /\ exitCode' = exitCode
    BY <1>7 DEF StopService, BeginStop
  <2>3. CASE IsRecorded(Head(left))
    <3>1. op' = [op EXCEPT ![Head(left)] = [by |-> "main", phase |-> "stop", restart |-> FALSE]]
      BY <1>7, <2>3 DEF StopService, BeginStop, Occupy
    <3>2. left' = left
      <4>1. op[Head(left)].by = "none"
        <5> HIDE DEF NoOp
        <5> QED BY <2>2, NoOpIsNobodys
      <4>2. op'[Head(left)].by = "main"
        BY <2>1, <3>1
      <4> QED BY <1>7, <4>1, <4>2 DEF StopService
    <3>3. MainIsInLoop' /\ PassedAreDown'
      BY <2>1, <2>2, <3>1, <3>2 DEF MainIsInLoop, PassedAreDown
    <3> QED BY <1>7, <2>1, <2>2, <3>1, <3>3 DEF StopService, RequestsAreServed, RecoveryIsInCycle
  <2>4. CASE ~IsRecorded(Head(left))
    <3>1. op' = op /\ left' = Tail(left)
      BY <1>7, <2>4 DEF StopService, BeginStop
    <3>2. PassedAreDown'
      BY <2>1, <2>2, <2>4, <3>1, HeadIsPassed DEF PassedAreDown, MainIsInLoop
    <3>3. \A s \in Services : op[s].by # "main"
      <4>1. op[Head(left)].by = "none"
        <5> HIDE DEF NoOp
        <5> QED BY <2>2, NoOpIsNobodys
      <4> QED BY <4>1 DEF MainIsInLoop
    <3>4. MainIsInLoop'
      BY <2>1, <3>1, <3>3 DEF MainIsInLoop
    <3> QED BY <1>7, <2>2, <3>1, <3>2, <3>4 DEF StopService, RequestsAreServed, RecoveryIsInCycle
  <2> QED BY <2>3, <2>4
<1>8. CASE StopServiceReturns
  <2>1. left # <<>> /\ Head(left) \in Services /\ Tail(left) \in Seq(Services)
    BY <1>8, HeadTailProperties DEF StopServiceReturns, MainIsInLoop
  <2>2. left' = Tail(left) /\ main' = main /\ main = "stop services" /\ op' = [op EXCEPT ![Head(left)] = NoOp]
        /\ up' = up /\ lingering' \subseteq lingering
    BY <1>8, <2>1 DEF StopServiceReturns, AfterStop, Returns, MainIsInLoop
  <2>3. ASSUME NEW s \in Services, s = Head(left), IsRecorded(s)'
        PROVE  s \in unstopped'
    <3>1. \/ Returns(s, TRUE)
          \/ Returns(s, FALSE) /\ unstopped' = unstopped \cup {s}
      BY <1>8, <2>3 DEF StopServiceReturns
    <3>2. op[s].phase = "stop"
      BY <1>8, <2>1, <2>3 DEF StopServiceReturns, MainIsInLoop
    <3>3. ~Returns(s, TRUE)
      BY <2>3, <3>2 DEF Returns
    <3> QED BY <3>1, <3>3
  <2>4. unstopped \subseteq unstopped' /\ unstopped' \subseteq Services
    BY <1>8, <2>1 DEF StopServiceReturns
  <2>5. PassedAreDown'
    <3>1. ASSUME NEW s \in Services, IsRecorded(s)'
          PROVE  s \in unstopped' \/ \E i \in DOMAIN left' : left'[i] = s
      <4>1. CASE s = Head(left)
        BY <2>3, <3>1, <4>1
      <4>2. CASE s # Head(left)
        <5>1. s \in unstopped \/ \E i \in DOMAIN left : left[i] = s
          BY <2>2, <3>1 DEF PassedAreDown
        <5> QED BY <2>1, <2>2, <2>4, <4>2, <5>1, HeadIsPassed DEF MainIsInLoop
      <4> QED BY <4>1, <4>2
    <3> QED BY <2>2, <3>1 DEF PassedAreDown
  <2>6. MainIsInLoop'
    BY <2>1, <2>2 DEF MainIsInLoop
  <2> QED
    BY <1>8, <2>1, <2>2, <2>4, <2>5, <2>6 DEF StopServiceReturns, RequestsAreServed, RecoveryIsInCycle
<1>9. CASE Leave
  BY <1>9 DEF Leave, RequestsAreServed, RecoveryIsInCycle, MainIsInLoop, PassedAreDown
<1> QED
  BY <1>1, <1>2, <1>3, <1>4, <1>5, <1>6, <1>7, <1>8, <1>9 DEF MainStep

\* A step of the monitor's thread.
LEMMA WorkerStepKeeps == LifeInv /\ DecisionInputs /\ WorkerStep => LifeInv'
<1> SUFFICES ASSUME LifeInv, DecisionInputs, WorkerStep PROVE LifeInv'
  OBVIOUS
<1> USE DEF LifeInv, Ops, NoOp, RequestsAreServed, RecoveryIsInCycle, MainIsInLoop, PassedAreDown
<1>1. CASE Check
  BY <1>1 DEF Check, MayCheck, BeginCycle
<1>2. CASE WorkerEnds
  BY <1>2 DEF WorkerEnds, MayCheck
<1>3. CASE FallAsleep
  BY <1>3 DEF FallAsleep
<1>4. CASE InCycle
  <2>0. worker = "cycle" /\ (pc' # "idle" => worker' = "cycle")
        /\ worker' \in {"cycle", "awake", "unready"} /\ MainIsLeft
    BY <1>4 DEF InCycle
  <2>1. main \notin {"stop collector", "stop services", "exited", "autostart", "collector", "monitor"}
    BY <2>0
  <2>2. \A s \in Services : op[s].by # "main"
    BY <2>1
  <2>3. CASE ListService \/ CheckServices \/ Publish
    BY <1>4, <2>0, <2>1, <2>3 DEF InCycle, ListService, CheckServices, Publish
  <2>4. CASE Decide
    BY <1>4, <2>0, <2>1, <2>4 DEF InCycle, Decide
  <2>5. CASE CallSupervisor
    <3>1. Current \in Services
      BY <2>5, HeadTailProperties DEF CallSupervisor, Current, DecisionInputs
    <3> HIDE DEF NoOp
    <3>2. /\ up' = up
          /\ op' = op \/ \E c \in Ops : c.by = "recovery" /\ op' = [op EXCEPT ![Current] = c]
      <4>1. ASSUME NEW ph \in {"stop", "start"}, NEW r \in BOOLEAN, Occupy(Current, "recovery", ph, r)
            PROVE  \E c \in Ops : c.by = "recovery" /\ op' = [op EXCEPT ![Current] = c]
        <5> WITNESS [by |-> "recovery", phase |-> ph, restart |-> r] \in Ops
        <5> QED BY <4>1 DEF Occupy
      <4> QED BY <2>5, <4>1 DEF CallSupervisor, BeginStart, BeginRestart, RefuseStart
    <3>3. op' \in [Services -> Ops \cup {NoOp}] /\ \A s \in Services : op'[s].by \in {op[s].by, "recovery"}
      BY <3>1, <3>2
    <3>5. \A s \in Services : op[s].by # "recovery"
      BY <2>5 DEF CallSupervisor
    <3>6. \/ pc' = "wait" /\ UNCHANGED todo
          \/ pc' = "recover" /\ UNCHANGED op
      BY <2>5 DEF CallSupervisor, NextService, RefuseStart
    <3>7. \A s \in Services : op'[s].by = "recovery" => pc' = "wait" /\ s = Current'
      BY <3>1, <3>2, <3>5, <3>6 DEF Current
    <3> QED BY <2>0, <2>1, <2>2, <3>2, <3>3, <3>6, <3>7
  <2>6. CASE RecoveryReturns
    <3>1. Current \in Services
      BY <2>6, HeadTailProperties DEF RecoveryReturns, Current, DecisionInputs
    <3> HIDE DEF NoOp
    <3>2. op' = [op EXCEPT ![Current] = NoOp] /\ up' \in [Services -> BOOLEAN] /\ pc' = "recover"
      BY <2>6, <3>1 DEF RecoveryReturns, Returns, NextService
    <3>3. op' \in [Services -> Ops \cup {NoOp}] /\ \A s \in Services : op'[s].by \in {op[s].by, "none"}
      <4> HIDE DEF Ops
      <4> QED BY <3>1, <3>2, NoOpIsNobodys
    <3>4. \A s \in Services : op'[s].by # "recovery"
      <4>1. \A s \in Services : op[s].by = "recovery" => s = Current
        OBVIOUS
      <4> QED BY <3>1, <3>2, <3>3, NoOpIsNobodys
    <3> QED BY <2>0, <2>1, <2>2, <3>2, <3>3, <3>4
  <2> QED BY <1>4, <2>3, <2>4, <2>5, <2>6 DEF InCycle, CycleStep
<1> QED BY <1>1, <1>2, <1>3, <1>4 DEF WorkerStep

\* A request, a handler that returns, a step of a service, the clock, a signal.
LEMMA ElsewhereKeeps ==
    ASSUME LifeInv, Signal \/ Elsewhere \/ \E s \in Services : Request(s)
    PROVE  LifeInv'
<1> USE DEF LifeInv, Ops, RequestsAreServed, RecoveryIsInCycle, MainIsInLoop, PassedAreDown, Current
<1>1. CASE Signal
  BY <1>1 DEF Signal
<1>2. CASE Elsewhere /\ Tick
  BY <1>2 DEF Elsewhere, Tick
<1>3. ASSUME NEW s \in Services, OperatorReturns(s), UNCHANGED lifeVars PROVE LifeInv'
  <2>1. op' = [op EXCEPT ![s] = NoOp] /\ op[s].by = "operator" /\ up' \in [Services -> BOOLEAN]
    BY <1>3 DEF OperatorReturns, Returns
  <2>2. main \in {"serve", "drain"}
    BY <2>1
  <2>3. op' \in [Services -> Ops \cup {NoOp}] /\ \A r \in Services : op'[r].by \in {op[r].by, "none"}
    <3> HIDE DEF Ops
    <3> QED BY <2>1, NoOpIsNobodys
  <2> QED BY <1>3, <2>1, <2>2, <2>3 DEF OperatorReturns
<1>4. ASSUME NEW s \in Services, ServiceStep(s), UNCHANGED lifeVars PROVE LifeInv'
  <2>1. up' \in [Services -> BOOLEAN]
    BY <1>4 DEF ServiceStep, Launch, Exit, GroupEnds, StopThenStart
  <2>2. op' = op \/ StopThenStart(s)
    BY <1>4 DEF ServiceStep, Launch, Exit, GroupEnds
  <2>3. ASSUME StopThenStart(s)
        PROVE  \E c \in Ops : c.by = op[s].by /\ c.restart = op[s].restart /\ op' = [op EXCEPT ![s] = c]
    <3>1. op[s] \in Ops
      BY <2>3, NoOpIsNobodys DEF StopThenStart
    <3>2. PICK c \in Ops : c = [op[s] EXCEPT !.phase = "start"]
      BY <3>1
    <3>3. c.by = op[s].by /\ c.restart = op[s].restart
      BY <3>1, <3>2
    <3>4. op' = [op EXCEPT ![s] = c]
      BY <2>3, <3>2 DEF StopThenStart
    <3> QED BY <3>3, <3>4
  <2>4. op' \in [Services -> Ops \cup {NoOp}]
        /\ \A r \in Services : op'[r].by = op[r].by /\ op'[r].restart = op[r].restart
    <3> HIDE DEF Ops
    <3>1. CASE op' = op
      BY <3>1
    <3>2. CASE StopThenStart(s)
      <4>1. PICK c \in Ops : c.by = op[s].by /\ c.restart = op[s].restart /\ op' = [op EXCEPT ![s] = c]
        BY <2>3, <3>2
      <4> QED BY <4>1
    <3> QED BY <2>2, <3>1, <3>2
  <2>5. ASSUME main \in {"stop services", "exited"}, NEW r \in Services
        PROVE  op[r].phase # "start" /\ ~(op[r].restart /\ op[r].phase = "stop")
    <3>1. op[r].by \in {"none", "main"}
      BY <2>5, NoOpIsNobodys
    <3> QED BY <2>5, <3>1, NoOpIsNobodys
  <2>6. main \in {"stop services", "exited"} =>
            op' = op /\ \A r \in Services : IsRecorded(r)' => IsRecorded(r)
    BY <1>4, <2>2, <2>5 DEF ServiceStep, Launch, Exit, GroupEnds, StopThenStart
  <2> QED BY <1>4, <2>1, <2>4, <2>6 DEF ServiceStep
<1>5. ASSUME NEW s \in Services, Request(s) PROVE LifeInv'
  <2>1. up' = up /\ (op' = op \/ \E c \in Ops : c.by = "operator" /\ op' = [op EXCEPT ![s] = c])
    <3>1. ASSUME NEW ph \in {"stop", "start"}, NEW r \in BOOLEAN, Occupy(s, "operator", ph, r)
          PROVE  \E c \in Ops : c.by = "operator" /\ op' = [op EXCEPT ![s] = c]
      <4> WITNESS [by |-> "operator", phase |-> ph, restart |-> r] \in Ops
      <4> QED BY <3>1 DEF Occupy
    <3> QED BY <1>5, <3>1 DEF Request, OperatorCall, BeginStart, RefuseStart, BeginStop, BeginRestart
  <2>2. op' \in [Services -> Ops \cup {NoOp}] /\ \A r \in Services : op'[r].by \in {op[r].by, "operator"}
    BY <2>1
  <2>3. main \in {"serve", "drain"} /\ UNCHANGED <<lifeVars, cycleVars>>
    BY <1>5 DEF Request, OperatorCall
  <2> QED BY <2>1, <2>2, <2>3
<1> QED BY <1>1, <1>2, <1>3, <1>4, <1>5 DEF Elsewhere

-----------------------------------------------------------------------------
(* The inputs of the monitor's decisions keep their types when main calls.  *)

LEMMA InputsInit == LifeInit => DecisionInputs
BY MonitorAssumption, ClockAssumption DEF LifeInit, Init, DecisionInputs, Healths

\* Every step is one of the monitor with its services and operator, or one of main,
\* which does not disturb the policy.
LEMMA LifeStep ==
    DecisionInputs /\ LifeNext => [Next]_vars \/ (UNCHANGED policyVars /\ DecisionInputs')
<1> SUFFICES ASSUME DecisionInputs, LifeNext
             PROVE  [Next]_vars \/ (UNCHANGED policyVars /\ DecisionInputs')
  OBVIOUS
<1>1. CASE WorkerStep
  BY <1>1 DEF WorkerStep, Check, WorkerEnds, InCycle, FallAsleep, Next, MonitorStep
<1>2. CASE Elsewhere \/ Signal \/ \E s \in Services : Request(s)
  BY <1>2 DEF Elsewhere, Signal, Request, Next
<1>3. CASE SkipService \/ AutoStartEnds \/ StartCollector \/ StartMonitor \/ StartServer \/ LeaveLoop
           \/ ServerStops \/ StopMonitor \/ JoinMonitor \/ StopCollector \/ Leave
  BY <1>3 DEF SkipService, AutoStartEnds, StartCollector, StartMonitor, StartServer, LeaveLoop,
     ServerStops, StopMonitor, JoinMonitor, StopCollector, Leave
<1>4. CASE AutoStart \/ AutoStartReturns \/ StopService \/ StopServiceReturns
  BY <1>4 DEF AutoStart, AutoStartReturns, StopService, StopServiceReturns, BeginStart, BeginStop,
     Returns, DecisionInputs
<1> QED BY <1>1, <1>2, <1>3, <1>4 DEF LifeNext, MainStep

LEMMA InputsAreTyped == LifeSpec => []DecisionInputs
<1>1. DecisionInputs /\ [LifeNext]_allVars => DecisionInputs'
  <2>1. CASE UNCHANGED allVars
    BY <2>1 DEF allVars, DecisionInputs
  <2> QED BY <2>1, LifeStep, DecisionInputsKept
<1> QED BY <1>1, InputsInit, PTL DEF LifeSpec

LEMMA LifeInvariant == LifeSpec => []LifeInv
<1>1. LifeInv /\ DecisionInputs /\ [LifeNext]_allVars => LifeInv'
  <2>1. CASE UNCHANGED allVars
    BY <2>1 DEF allVars, LifeInv, RequestsAreServed, RecoveryIsInCycle, MainIsInLoop, PassedAreDown,
       Current
  <2> QED BY <2>1, MainStepKeeps, WorkerStepKeeps, ElsewhereKeeps DEF LifeNext
<1> QED BY <1>1, LifeInvInit, InputsAreTyped, PTL DEF LifeSpec

\* When the agent has exited, only services whose own Stop failed are running, and the
\* exit code says so (main.cpp:241, ServiceRegistry::StopAll).
THEOREM NothingIsLeft == LifeSpec => []NothingIsLeftRunning
<1>1. LifeInv => NothingIsLeftRunning
  BY DEF LifeInv, PassedAreDown, NothingIsLeftRunning
<1> QED BY <1>1, LifeInvariant, PTL

\* The restart policy holds from the agent's start to its exit (EvaluateAndRecover).
THEOREM AgentKeepsPolicy == LifeSpec => PolicyIsKept
<1>1. LifeInit => PolicyInit
  BY DEF LifeInit, Init
<1>2. DecisionInputs /\ [LifeNext]_allVars => [PolicyNext]_policyVars
  <2>1. CASE UNCHANGED allVars
    BY <2>1 DEF allVars, policyVars
  <2> QED BY <2>1, LifeStep, PolicyStep
<1> QED BY <1>1, <1>2, InputsAreTyped, PTL DEF LifeSpec, PolicyIsKept, PolicySpec

=============================================================================
