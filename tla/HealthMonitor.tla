---------------------------- MODULE HealthMonitor ----------------------------
(***************************************************************************)
(* The monitor's cycle (health/health_monitor.cpp, CheckOnce) with the     *)
(* health checker, the restart policy of RecoveryManager, the services it  *)
(* watches and an operator who starts, stops and restarts them meanwhile.  *)
(*                                                                         *)
(* A cycle reads the clock once, then the status of one service after the  *)
(* other, judges all of them, and only then recovers one after the other:  *)
(* everything it acts on may be old.  A service is what ServiceLifecycle   *)
(* says of it; only the desired state is read again before it is acted on. *)
(* Calls of one supervisor exclude each other (operation_mutex_).          *)
(***************************************************************************)
EXTENDS RecoveryManager

CONSTANTS
    Order,           \* service_order_ of the registry
    Threshold,       \* failure_threshold of the health checks
    Horizon,         \* bound: the clock stops here
    OperatorCalls    \* bound: how many calls the operator makes

ASSUME MonitorAssumption ==
    /\ Order \in Seq(Services)
    /\ \A s \in Services : \E i \in DOMAIN Order : Order[i] = s
    /\ Threshold \in Nat \ {0} /\ Horizon \in Nat /\ OperatorCalls \in Nat
    /\ Clock = 0 .. Horizon

VARIABLES
    desired, state, up,  \* of each service: see ServiceLifecycle
    lingering,           \* services that are down with their process group still recorded
    op,                  \* the call each supervisor is executing
    calls,               \* calls the operator has still to make
    now,                 \* the system clock
    pc,                  \* where the monitor's worker is
    todo,                \* services left in the loop it is in
    checkedAt,           \* checked_at_unix_ms of the cycle
    running,             \* snapshot: listed as Running with a pid
    failures,            \* consecutive_failures_, saturated at Threshold
    health,              \* next_health of the cycle, which ends as latest_health_
    critical,            \* services with an active critical alert
    call,                \* what recovery is about to call
    everUp               \* services that were up at some time (history)

svcVars == <<desired, state, up, lingering, op>>
cycleVars == <<pc, todo, checkedAt, running, failures, health, critical, call>>
vars == <<policyVars, svcVars, cycleVars, calls, now, everUp>>

NoOp == [by |-> "none", phase |-> "none", restart |-> FALSE]
Ops  == [by : {"operator", "recovery", "main"}, phase : {"stop", "start"}, restart : BOOLEAN]
Pcs  == {"idle", "list", "check", "recover", "call", "wait"}

TypeOK ==
    /\ PolicyTypeOK
    /\ desired \in [Services -> {"stopped", "running"}]
    /\ state \in [Services -> {"stopped", "starting", "running", "stopping", "exited", "failed"}]
    /\ up \in [Services -> BOOLEAN] /\ lingering \subseteq Services
    /\ op \in [Services -> Ops \cup {NoOp}]
    /\ calls \in 0 .. OperatorCalls /\ now \in Clock
    /\ pc \in Pcs /\ todo \in Seq(Services) /\ checkedAt \in Clock
    /\ running \subseteq Services /\ critical \subseteq Services /\ everUp \subseteq Services
    /\ failures \in [Services -> 0 .. Threshold]
    /\ health \in [Services -> Healths]
    /\ call \in {"none", "start", "restart"}
    /\ pc \in {"call", "wait"} => todo # <<>> /\ acting = Head(todo)

Init ==
    /\ PolicyInit
    /\ desired = [s \in Services |-> IF s \in AutoStarted THEN "running" ELSE "stopped"]
    /\ state = [s \in Services |-> "stopped"]
    /\ up = [s \in Services |-> FALSE] /\ lingering = {}
    /\ op = [s \in Services |-> NoOp]
    /\ calls = OperatorCalls /\ now = 0
    /\ pc = "idle" /\ todo = <<>> /\ checkedAt = 0
    /\ running = {} /\ critical = {} /\ everUp = {}
    /\ failures = [s \in Services |-> 0]
    /\ health = [s \in Services |-> "unknown"]
    /\ call = "none"

-----------------------------------------------------------------------------
(* The supervisors: a call begins with the mutex, in the phase it starts with. *)

Occupy(s, by, phase, restart) ==
    op' = [op EXCEPT ![s] = [by |-> by, phase |-> phase, restart |-> restart]]

\* Is there anything to stop?
IsRecorded(s) == up[s] \/ s \in lingering

\* Start waits for the cleanup of the old group.
BeginStart(s, by) ==
    /\ op[s] = NoOp /\ ~up[s]
    /\ desired' = [desired EXCEPT ![s] = "running"]
    /\ state' = [state EXCEPT ![s] = "starting"]
    /\ Occupy(s, by, "start", FALSE)
    /\ lingering' = lingering \ {s}
    /\ UNCHANGED up

\* Start of a service that is already running, or whose old group has outlived the
\* cleanup, returns with an error.
RefuseStart(s) ==
    /\ op[s] = NoOp /\ IsRecorded(s)
    /\ desired' = [desired EXCEPT ![s] = "running"]
    /\ UNCHANGED <<state, up, lingering, op>>

BeginStop(s, by) ==
    /\ op[s] = NoOp
    /\ desired' = [desired EXCEPT ![s] = "stopped"]
    /\ IF IsRecorded(s)
       THEN state' = [state EXCEPT ![s] = "stopping"] /\ Occupy(s, by, "stop", FALSE)
       ELSE state' = [state EXCEPT ![s] = "stopped"] /\ UNCHANGED op
    /\ UNCHANGED <<up, lingering>>

BeginRestart(s, by) ==
    /\ op[s] = NoOp
    /\ desired' = [desired EXCEPT ![s] = "running"]
    /\ IF IsRecorded(s)
       THEN state' = [state EXCEPT ![s] = "stopping"] /\ Occupy(s, by, "stop", TRUE)
       ELSE state' = [state EXCEPT ![s] = "starting"] /\ Occupy(s, by, "start", TRUE)
    /\ UNCHANGED <<up, lingering>>

\* The child is there.
Launch(s) ==
    /\ op[s].phase = "start" /\ state[s] = "starting" /\ ~up[s]
    /\ up' = [up EXCEPT ![s] = TRUE]
    /\ everUp' = everUp \cup {s}
    /\ UNCHANGED <<desired, state, lingering, op>>

\* The service's process ends, by itself or because it is told to; its group is looked
\* at after that.
Exit(s) ==
    /\ up[s]
    /\ up' = [up EXCEPT ![s] = FALSE]
    /\ state' = [state EXCEPT ![s] = IF desired[s] = "stopped" \/ @ = "stopping"
                                     THEN "stopped" ELSE "exited"]
    /\ lingering' = lingering \cup {s}
    /\ UNCHANGED <<desired, op>>

\* The observer finds the old group gone.
GroupEnds(s) ==
    /\ s \in lingering
    /\ lingering' = lingering \ {s}
    /\ UNCHANGED <<desired, state, up, op>>

\* The old processes are gone: Restart goes on to its start.
StopThenStart(s) ==
    /\ op[s].phase = "stop" /\ op[s].restart /\ ~up[s]
    /\ state' = [state EXCEPT ![s] = "starting"]
    /\ op' = [op EXCEPT ![s].phase = "start"]
    /\ lingering' = lingering \ {s}
    /\ UNCHANGED <<desired, up>>

\* The ways a call returns, with its result.  A Stop that fails leaves what it was to stop;
\* the state is then Failed, unless the exit was published meanwhile.
Returns(s, ok) ==
    /\ op' = [op EXCEPT ![s] = NoOp]
    /\ UNCHANGED desired
    /\ \/ /\ op[s].phase = "start" /\ ok
          /\ \/ up[s] /\ state[s] = "starting" /\ state' = [state EXCEPT ![s] = "running"]
             \/ ~up[s] /\ state[s] = "exited" /\ UNCHANGED state
          /\ UNCHANGED <<up, lingering>>
       \/ /\ op[s].phase = "start" /\ ~ok /\ state[s] = "starting"
          /\ state' = [state EXCEPT ![s] = "failed"] /\ up' = [up EXCEPT ![s] = FALSE]
          /\ UNCHANGED lingering
       \/ /\ op[s].phase = "stop" /\ ok /\ ~op[s].restart /\ ~up[s]
          /\ lingering' = lingering \ {s}
          /\ UNCHANGED <<state, up>>
       \/ /\ op[s].phase = "stop" /\ ~ok
          /\ state' = [state EXCEPT ![s] = IF @ = "stopping" THEN "failed" ELSE @]
          /\ UNCHANGED <<up, lingering>>

\* The operator's calls, through the HTTP API.
OperatorCall(s) ==
    /\ calls > 0 /\ calls' = calls - 1
    /\ \/ BeginStart(s, "operator") \/ RefuseStart(s)
       \/ BeginStop(s, "operator") \/ BeginRestart(s, "operator")
    /\ UNCHANGED <<policyVars, cycleVars, now, everUp>>

ServiceStep(s) ==
    /\ \/ Launch(s)
       \/ (Exit(s) \/ GroupEnds(s) \/ StopThenStart(s)) /\ UNCHANGED everUp
    /\ UNCHANGED <<policyVars, cycleVars, calls, now>>

OperatorReturns(s) ==
    /\ op[s].by = "operator" /\ \E ok \in BOOLEAN : Returns(s, ok)
    /\ UNCHANGED <<policyVars, cycleVars, calls, now, everUp>>

-----------------------------------------------------------------------------
(* CheckOnce, under check_mutex_ *)

\* The service the loop is at.
Current == Head(todo)

BeginCycle ==
    /\ pc = "idle"
    /\ checkedAt' = now
    /\ pc' = "list" /\ todo' = Order
    /\ UNCHANGED <<policyVars, svcVars, running, failures, health, critical, call,
                   calls, now, everUp>>

\* ListServices takes the status of one supervisor after the other.
ListService ==
    /\ pc = "list" /\ todo # <<>>
    /\ running' = IF state[Current] = "running" /\ up[Current] THEN running \cup {Current} ELSE running \ {Current}
    /\ todo' = Tail(todo)
    /\ UNCHANGED <<policyVars, svcVars, pc, checkedAt, failures, health, critical, call,
                   calls, now, everUp>>

\* Mutant: the count does not outlive the check.
Failures_fresh(s) == IF s \in running THEN 0 ELSE 1

\* CheckProcess counts the checks in a row that did not see the service running.
Failures(s) == IF s \in running THEN 0
               ELSE IF failures[s] < Threshold THEN failures[s] + 1 ELSE Threshold

\* CheckProcess judges a service by its snapshot.
Judgement(s) ==
    IF s \in running THEN "healthy"
    ELSE IF Failures(s) < Threshold THEN "unknown" ELSE "unhealthy"

\* Every service is checked, and the alerts are brought up to date: which critical
\* ones are active afterwards depends on the metrics.
CheckServices ==
    /\ pc = "list" /\ todo = <<>>
    /\ failures' = [s \in Services |-> Failures(s)]
    /\ health' = [s \in Services |-> Judgement(s)]
    /\ \E c \in SUBSET Services : critical' = c /\ (~OnCritical => c = {})
    /\ pc' = "recover" /\ todo' = Order
    /\ UNCHANGED <<policyVars, svcVars, checkedAt, running, call, calls, now, everUp>>

\* EvaluateAndRecover of the next service reads its status anew: the desired state
\* is asked, and whether it is up chooses between Restart and Start.
Decide ==
    /\ pc = "recover" /\ todo # <<>>
    /\ Evaluate(Current, health[Current], Current \in critical, desired[Current], checkedAt)
    /\ IF acting' = Current
       THEN /\ call' = IF state[Current] = "running" /\ up[Current] THEN "restart" ELSE "start"
            /\ pc' = "call" /\ UNCHANGED todo
       ELSE todo' = Tail(todo) /\ UNCHANGED <<call, pc>>
    /\ UNCHANGED <<svcVars, checkedAt, running, failures, health, critical, calls, now,
                   everUp>>

\* Mutant: a refused start is no attempt.
RefusedAttempt_free ==
    acting' = NoService
    /\ UNCHANGED <<seenHealthy, attempts, nextAllowed, graceUntil, lastSuppressed, events,
                   actingAt, history>>

\* A start refused because the service is already running is a failed attempt.
RefusedAttempt == RecordRestartAttempt(FALSE)

NextService == pc' = "recover" /\ todo' = Tail(todo) /\ call' = "none"

\* The supervisor takes recovery's call when its mutex is free, whatever has been
\* asked of it since Decide.
CallSupervisor ==
    /\ pc = "call"
    /\ \/ /\ call = "start" /\ BeginStart(Current, "recovery")
          /\ pc' = "wait" /\ UNCHANGED <<policyVars, todo, call>>
       \/ /\ call = "restart" /\ BeginRestart(Current, "recovery")
          /\ pc' = "wait" /\ UNCHANGED <<policyVars, todo, call>>
       \/ /\ call = "start" /\ RefuseStart(Current)
          /\ RefusedAttempt /\ NextService
    /\ UNCHANGED <<checkedAt, running, failures, health, critical, calls, now, everUp>>

RecoveryReturns ==
    /\ pc = "wait" /\ op[Current].by = "recovery"
    /\ \E ok \in BOOLEAN : Returns(Current, ok) /\ RecordRestartAttempt(ok)
    /\ NextService
    /\ UNCHANGED <<checkedAt, running, failures, health, critical, calls, now, everUp>>

\* The health is published when all services have been dealt with; then the worker
\* waits for the interval. No service ever leaves the registry, so none is forgotten.
Publish ==
    /\ pc = "recover" /\ todo = <<>>
    /\ pc' = "idle" /\ checkedAt' = 0
    /\ UNCHANGED <<policyVars, svcVars, todo, running, failures, health, critical, call,
                   calls, now, everUp>>

CycleStep ==
    ListService \/ CheckServices \/ Decide \/ CallSupervisor \/ RecoveryReturns \/ Publish

MonitorStep == BeginCycle \/ CycleStep

Tick ==
    /\ now < Horizon /\ now' = now + 1
    /\ UNCHANGED <<policyVars, svcVars, cycleVars, calls, everUp>>

Next ==
    \/ MonitorStep
    \/ \E s \in Services : OperatorCall(s) \/ OperatorReturns(s) \/ ServiceStep(s)
    \/ Tick

Spec == Init /\ [][Next]_vars

\* The worker runs as long as the agent does, a call of a supervisor returns (see
\* OperationsReturn of ProcessSupervisor) and the clock goes on; nobody has to
\* call, and no service has to end.
Fairness ==
    /\ WF_vars(MonitorStep) /\ WF_vars(Tick)
    /\ \A s \in Services :
          /\ WF_vars(OperatorReturns(s))
          /\ WF_vars(Launch(s) /\ UNCHANGED <<policyVars, cycleVars, calls, now>>)
          /\ WF_vars(StopThenStart(s) /\ UNCHANGED <<policyVars, cycleVars, calls, now, everUp>>)
          /\ WF_vars(op[s].phase = "stop" /\ Exit(s)
                     /\ UNCHANGED <<policyVars, cycleVars, calls, now, everUp>>)

FairSpec == Spec /\ Fairness

-----------------------------------------------------------------------------
(* Properties *)

\* Recovery launches a service only while the operator wants it running: what
\* README.md and docs/state-machine.md say of a manual stop.
ManualStopSticks ==
    [][\A s \in Services :
        (op[s] = NoOp /\ op'[s].by = "recovery") => desired[s] = "running"]_vars

\* A service the operator never got up, and that is not started with the agent, is
\* left alone: it must have been seen healthy before recovery tries it
\* (has_seen_healthy), unless a critical alert asks for it.
NeverUpIsLeftAlone ==
    OnCritical \/ \A s \in Services \ AutoStarted : history[s] # <<>> => s \in everUp

\* Every attempt recovery makes goes through the policy, refused ones included: the
\* theorems about PolicySpec hold of the monitor (EvaluateAndRecover).
PolicyIsKept == PolicySpec

\* The operator wants s, it is down, and the policy allows a restart by Horizon.
WantsRecovery(s) ==
    /\ desired[s] = "running" /\ ~up[s] /\ OnUnhealthy
    /\ s \in seenHealthy \cup AutoStarted
    /\ ~IsInStartupGrace(s, Horizon) /\ ~IsInBackoff(s, Horizon) /\ HasRestartBudget(s, Horizon)

\* A wanted service that is down is retried, once the policy's periods are over,
\* unless it comes up or is no longer wanted (EvaluateAndRecover, CheckProcess).
WantedIsRetried ==
    \A s \in Services :
        WantsRecovery(s) ~> (acting = s \/ up[s] \/ desired[s] = "stopped")

=============================================================================
