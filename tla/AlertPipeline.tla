---------------------------- MODULE AlertPipeline ----------------------------
(***************************************************************************)
(* From a sample to an alert: the monitor's cycle evaluates the alert      *)
(* rules of a service (alerts/alert_evaluator.cpp, EvaluateRule) on the    *)
(* newest sample of MetricsCollector and hands the results to the alert    *)
(* manager (alerts/alert_manager.cpp, ApplyEvaluations); an operator       *)
(* acknowledges alerts meanwhile.                                          *)
(*                                                                         *)
(* Durations are measured on the system clock, which may be set back.      *)
(* (Set forward, it reads as if time had passed.)  The rules are on        *)
(* cpu_percent, whose value may be missing; a rule on health_state differs *)
(* in that its value never is.  The fields of an alert that nothing        *)
(* depends on (severity, message, trigger count) are left out, and so are  *)
(* the times of a resolved one.                                            *)
(***************************************************************************)
EXTENDS MetricsCollector

CONSTANTS
    RuleOrder,         \* the service's alert_rules; a rule's id makes the alert's id
    Duration,          \* duration_seconds of each
    ResolvedCapacity,  \* options_.recent_resolved_capacity
    Horizon,           \* bound: the clock stops here
    MaxSetBack,        \* bound: how far the clock is set back in all
    NoTime,            \* std::nullopt
    NoAlert            \* no active alert

Rules == {RuleOrder[i] : i \in DOMAIN RuleOrder}
Times == 0 .. Horizon

ASSUME AlertAssumption ==
    /\ RuleOrder \in Seq(Rules)
    /\ \A i, j \in DOMAIN RuleOrder : RuleOrder[i] = RuleOrder[j] => i = j
    /\ Duration \in [Rules -> Nat]
    /\ ResolvedCapacity \in Nat /\ Horizon \in Nat /\ MaxSetBack \in Nat
    /\ NoTime \notin Nat

VARIABLES
    now,        \* the system clock
    setBack,    \* how far it was set back so far (history)
    checkedAt,  \* checked_at_unix_ms of the cycle
    firing,     \* all_evaluations: the rules that fire, of those still to be applied
    since,      \* rule_states_: condition_started_at_unix_ms of each rule
    todo,       \* evaluations still to be applied
    phase,      \* where the monitor's worker is
    active,     \* active_alerts_
    resolved,   \* recent_resolved_alerts_
    checkedFor, \* time that really passed until the cycle read the clock (history)
    metSince    \* the same, for the first of the cycles in a row that found a
                \* rule's condition met (history)

clockVars == <<now, setBack>>
cycleVars == <<checkedAt, firing, since, todo, phase, checkedFor, metSince>>
alertVars == <<active, resolved>>
vars == <<collectorVars, clockVars, cycleVars, alertVars>>

\* asked: whether the operator acknowledged this very alert (history).
\* setBack: its value when the alert was triggered last (history).
Alerts == [rule : Rules, first : Times, last : Times,
           acknowledged : BOOLEAN, asked : BOOLEAN, setBack : 0 .. MaxSetBack]

ASSUME NoAlertAssumption == NoAlert \notin Alerts

Resolved == [rule : Rules, acknowledged : BOOLEAN, asked : BOOLEAN]
Kept(e)  == [rule |-> e.rule, acknowledged |-> e.acknowledged, asked |-> e.asked]

AlertTypeOK ==
    /\ now \in Times /\ checkedAt \in Times /\ setBack \in 0 .. MaxSetBack
    /\ firing \subseteq Rules
    /\ since \in [Rules -> Times \cup {NoTime}]
    /\ phase \in {"wait", "evaluate", "apply"} /\ todo \in 0 .. Len(RuleOrder)
    /\ active \in [Rules -> Alerts \cup {NoAlert}]
    /\ \A r \in Rules : active[r] # NoAlert =>
           active[r].rule = r /\ active[r].first <= active[r].last
    /\ resolved \in Seq(Resolved)
    /\ Len(resolved) <= (IF ResolvedCapacity = 0 THEN 1 ELSE ResolvedCapacity)
    /\ checkedFor \in Nat /\ metSince \in [Rules -> Nat \cup {NoTime}]

TypeOK == CollectorTypeOK /\ AlertTypeOK

Init ==
    /\ CollectorInit
    /\ now = 0 /\ setBack = 0 /\ checkedAt = 0 /\ checkedFor = 0
    /\ firing = {} /\ todo = 0 /\ phase = "wait"
    /\ since = [r \in Rules |-> NoTime]
    /\ metSince = [r \in Rules |-> NoTime]
    /\ active = [r \in Rules |-> NoAlert]
    /\ resolved = <<>>

-----------------------------------------------------------------------------
(* The clock. *)

Tick ==
    /\ now < Horizon
    /\ now' = now + 1
    /\ UNCHANGED <<setBack, collectorVars, cycleVars, alertVars>>

SetClockBack ==
    /\ \E d \in 1 .. MaxSetBack - setBack :
           d <= now /\ now' = now - d /\ setBack' = setBack + d
    /\ UNCHANGED <<collectorVars, cycleVars, alertVars>>

-----------------------------------------------------------------------------
(* The monitor's cycle: the clock, then the rules, then the alerts. *)

BeginCheck ==
    /\ phase = "wait"
    /\ phase' = "evaluate"
    /\ checkedAt' = now /\ checkedFor' = now + setBack
    /\ UNCHANGED <<collectorVars, clockVars, alertVars, firing, since, todo, metSince>>

\* EvaluateCondition: a sample without a value makes the rules unavailable.
Observed ==
    IF ~Latest.available \/ Latest.cpu = "none" THEN "unavailable"
    ELSE IF Latest.cpu = "hot" THEN "met" ELSE "unmet"

Met == Observed = "met"

Since_unavailableKept(r) ==
    IF Observed = "unavailable" THEN since[r]
    ELSE IF ~Met THEN NoTime
    ELSE IF since[r] = NoTime \/ since[r] > checkedAt THEN checkedAt
    ELSE since[r]

\* The rule's timer: dropped unless the condition is met, and started again
\* when the clock reads less than it did when the timer was started.
Since(r) ==
    IF ~Met THEN NoTime
    ELSE IF since[r] = NoTime \/ since[r] > checkedAt THEN checkedAt
    ELSE since[r]

\* Every rule is evaluated before the first result is applied.
Evaluate ==
    /\ phase = "evaluate"
    /\ since' = [r \in Rules |-> Since(r)]
    /\ firing' = {r \in Rules : Met /\ checkedAt - since'[r] >= Duration[r]}
    /\ metSince' = [r \in Rules |-> IF ~Met THEN NoTime
                                    ELSE IF metSince[r] = NoTime THEN checkedFor ELSE metSince[r]]
    /\ phase' = "apply" /\ todo' = Len(RuleOrder)
    /\ UNCHANGED <<collectorVars, clockVars, alertVars, checkedAt, checkedFor>>

\* The manager's mutex is held from the first evaluation to the last.
Locked == phase = "apply" /\ todo < Len(RuleOrder)

Create(r) ==
    /\ r \in firing /\ active[r] = NoAlert
    /\ active' = [active EXCEPT ![r] =
           [rule |-> r, first |-> checkedAt, last |-> checkedAt,
            acknowledged |-> FALSE, asked |-> FALSE, setBack |-> checkedFor - checkedAt]]
    /\ UNCHANGED resolved

Update_unacknowledged(r) ==
    /\ r \in firing /\ active[r] # NoAlert
    /\ active' = [active EXCEPT ![r] =
           IF checkedAt < @.first THEN NoAlert
           ELSE [@ EXCEPT !.last = checkedAt, !.acknowledged = FALSE,
                          !.setBack = checkedFor - checkedAt]]
    /\ UNCHANGED resolved

\* An alert whose times would contradict each other is dropped.
Update(r) ==
    /\ r \in firing /\ active[r] # NoAlert
    /\ active' = [active EXCEPT ![r] =
           IF checkedAt < @.first THEN NoAlert
           ELSE [@ EXCEPT !.last = checkedAt, !.setBack = checkedFor - checkedAt]]
    /\ UNCHANGED resolved

\* PushResolvedLocked
PushResolved(s, e) ==
    LET t == Append(s, e)
    IN  IF Len(t) > (IF ResolvedCapacity = 0 THEN 1 ELSE ResolvedCapacity) THEN Tail(t) ELSE t

Resolve_strict(r) ==
    /\ r \notin firing /\ active[r] # NoAlert
    /\ active' = [active EXCEPT ![r] = NoAlert]
    /\ resolved' = IF checkedAt > active[r].last THEN PushResolved(resolved, Kept(active[r]))
                                                 ELSE resolved

Resolve(r) ==
    /\ r \notin firing /\ active[r] # NoAlert
    /\ active' = [active EXCEPT ![r] = NoAlert]
    /\ resolved' = IF checkedAt >= active[r].last THEN PushResolved(resolved, Kept(active[r]))
                                                  ELSE resolved

Idle(r) == r \notin firing /\ active[r] = NoAlert /\ UNCHANGED alertVars

ApplyNext ==
    /\ phase = "apply" /\ todo > 0
    /\ LET r == RuleOrder[Len(RuleOrder) - todo + 1]
       IN  /\ Create(r) \/ Update(r) \/ Resolve(r) \/ Idle(r)
           /\ firing' = firing \ {r}
    /\ todo' = todo - 1
    /\ UNCHANGED <<collectorVars, clockVars, checkedAt, since, phase, checkedFor, metSince>>

\* Recovery follows (see HealthMonitor), then the worker waits for the next cycle.
EndCheck ==
    /\ phase = "apply" /\ todo = 0
    /\ phase' = "wait"
    /\ checkedAt' = 0 /\ checkedFor' = 0
    /\ UNCHANGED <<collectorVars, clockVars, alertVars, firing, since, todo, metSince>>

-----------------------------------------------------------------------------
(* AcknowledgeAndGet: the active alert with this id, or else the oldest     *)
(* resolved one; alerts of one rule all have the same id.                   *)

Marked(e) == [e EXCEPT !.acknowledged = TRUE, !.asked = TRUE]

AcknowledgeActive(r) ==
    /\ active[r] # NoAlert
    /\ active' = [active EXCEPT ![r] = Marked(@)]
    /\ UNCHANGED resolved

AcknowledgeResolved(r) ==
    /\ active[r] = NoAlert
    /\ \E i \in DOMAIN resolved :
        /\ resolved[i].rule = r /\ \A j \in 1 .. i - 1 : resolved[j].rule # r
        /\ resolved' = [resolved EXCEPT ![i] = Marked(@)]
    /\ UNCHANGED active

Acknowledge ==
    /\ ~Locked
    /\ \E r \in Rules : AcknowledgeActive(r) \/ AcknowledgeResolved(r)
    /\ UNCHANGED <<collectorVars, clockVars, cycleVars>>

-----------------------------------------------------------------------------
Monitor == BeginCheck \/ Evaluate \/ ApplyNext \/ EndCheck

CollectorStep == Collector /\ UNCHANGED <<clockVars, cycleVars, alertVars>>
ServiceStep   == Service /\ UNCHANGED <<clockVars, cycleVars, alertVars>>

Next == CollectorStep \/ ServiceStep \/ Monitor \/ Acknowledge \/ Tick \/ SetClockBack

Spec == Init /\ [][Next]_vars

\* Both workers run for as long as the agent does; their waits are timed.
FairSpec == Spec /\ WF_vars(CollectorStep) /\ WF_vars(Monitor)

-----------------------------------------------------------------------------
(* Properties.                                                             *)

(* A rule fires only when every cycle of at least its duration found its    *)
(* condition met, however the clock was set back meanwhile: a cycle without *)
(* a value in between starts the time anew (alert_evaluator.cpp:147).       *)
FiresAfterDuration ==
    phase = "apply" =>
        \A r \in firing : metSince[r] # NoTime /\ checkedFor - metSince[r] >= Duration[r]

(* An alert that is no longer active is the newest in the resolved history, *)
(* unless the clock was set back since it was last triggered                *)
(* (alert_manager.cpp:87 and :108 drop it then).                            *)
LossNeedsClockBack ==
    [][\A r \in Rules :
          active[r] # NoAlert /\ active'[r] = NoAlert =>
              \/ resolved' # <<>> /\ resolved'[Len(resolved')] = Kept(active[r])
              \/ checkedFor - checkedAt > active[r].setBack]_vars

(* An alert, active or resolved, counts as acknowledged exactly when an     *)
(* operator's request reached it: it does not lose the mark while it goes   *)
(* on firing, and a new alert with the same id does not inherit it          *)
(* (alert_manager.cpp:44, :78, :207).                                       *)
AcknowledgedAsAsked ==
    /\ \A r \in Rules : active[r] # NoAlert => active[r].acknowledged = active[r].asked
    /\ \A i \in DOMAIN resolved : resolved[i].acknowledged = resolved[i].asked

(* When a service has stopped for good, its alerts on processor load do not *)
(* stay active: the collector withdraws the sample they rest on, and the    *)
(* monitor resolves them (metrics_collector.cpp:174, alert_manager.cpp:99). *)
StoppedIsResolved ==
    <>[](status = NoProcess) => <>[](\A r \in Rules : active[r] = NoAlert)

-----------------------------------------------------------------------------
(* Why they hold.                                                          *)

\* A baseline is the process of the newest sample.
BaselineIsLatest ==
    baseline # NoProcess =>
        samples # <<>> /\ Latest.available /\ Latest.who = baseline

\* What a cycle knows of the clock is old.
CheckIsPast ==
    /\ checkedFor - checkedAt \in 0 .. setBack
    /\ checkedFor <= now + setBack

\* By the clock, a timer has never run for longer than the condition was really
\* met, although the clock may be set back between two cycles and within one.
TimersAreHonest ==
    LET past == IF phase = "evaluate" THEN checkedFor ELSE now + setBack
        back == IF phase = "evaluate" THEN checkedFor - checkedAt ELSE setBack
    IN  \A r \in Rules :
            /\ since[r] = NoTime <=> metSince[r] = NoTime
            /\ since[r] # NoTime => metSince[r] <= past /\ metSince[r] - since[r] <= back

\* An alert was triggered no later than the clock was read.
AlertsArePast ==
    \A r \in Rules : active[r] # NoAlert =>
        active[r].last + active[r].setBack
            <= IF phase = "wait" THEN now + setBack ELSE checkedFor

PipelineInv ==
    /\ TypeOK /\ BaselineIsLatest /\ LoadIsOfOneProcess
    /\ CheckIsPast /\ TimersAreHonest /\ FiresAfterDuration
    /\ AcknowledgedAsAsked

=============================================================================
