--------------------------- MODULE RecoveryManager ---------------------------
(***************************************************************************)
(* The restart policy of one agent (recovery/recovery_manager.cpp): when a *)
(* service may be restarted automatically, how often, and what is told     *)
(* about it.  One call of EvaluateAndRecover holds the manager's mutex; it *)
(* is two actions here, because Restart or Start of the supervisor runs in *)
(* the middle of it and takes time.                                        *)
(*                                                                         *)
(* Times are readings of the system clock, in ticks: an administrator or   *)
(* NTP may set it back or forward, so a reading may be any of Clock.  An   *)
(* optional time that is not set is NoTime.  Who calls, with which health  *)
(* and alerts, and how the supervisor answers is free here; HealthMonitor  *)
(* says who does.  A disabled policy is one without a trigger.             *)
(***************************************************************************)
EXTENDS Integers, Sequences, FiniteSets

CONSTANTS
    Clock,           \* what the system clock may read
    Services,        \* the registered services, all with the same policy
    AutoStarted,     \* those with auto_start
    OnUnhealthy,     \* restart_on_unhealthy
    OnCritical,      \* restart_on_critical_alert
    MaxRestarts, Window, Backoff, Grace,  \* max_restarts and the three periods
    Cooldown,        \* suppress_event_cooldown_seconds
    EventCapacity,   \* recent_event_capacity
    NoTime, NoService

ASSUME PolicyAssumption ==
    /\ AutoStarted \subseteq Services
    /\ OnUnhealthy \in BOOLEAN /\ OnCritical \in BOOLEAN
    /\ MaxRestarts \in Nat \ {0} /\ Window \in Nat \ {0}
    /\ Backoff \in Nat /\ Grace \in Nat
    /\ Cooldown \in Nat \ {0} /\ EventCapacity \in Nat \ {0}
ASSUME ClockAssumption == Clock \subseteq Nat /\ 0 \in Clock
ASSUME NoTimeAssumption == NoTime \notin Int
ASSUME NoServiceAssumption == NoService \notin Services

VARIABLES
    seenHealthy,     \* services observed healthy at least once
    attempts,        \* restart_attempts, oldest first
    nextAllowed, graceUntil, lastSuppressed,
    events,          \* recent_events_, oldest first
    acting,          \* the service whose supervisor is being called
    actingAt,        \* now_unix_ms of that call
    history          \* all recorded attempts of a service, never expired

policyVars == <<seenHealthy, attempts, nextAllowed, graceUntil, lastSuppressed, events,
                acting, actingAt, history>>

Healths    == {"healthy", "unhealthy", "unknown"}
EventTypes == {"started", "succeeded", "failed", "suppressed"}
Times      == Nat \cup {NoTime}
Entries    == [service : Services, type : EventTypes, at : Nat]

\* The journal's entries are in JournalPairs.
PolicyTypeOK ==
    /\ seenHealthy \subseteq Services
    /\ attempts \in [Services -> Seq(Nat)]
    /\ nextAllowed \in [Services -> Times]
    /\ graceUntil \in [Services -> Times]
    /\ lastSuppressed \in [Services -> Times]
    /\ acting \in Services \cup {NoService}
    /\ actingAt \in Nat
    /\ history \in [Services -> Seq(Nat)]

PolicyInit ==
    /\ seenHealthy = {}
    /\ attempts = [s \in Services |-> <<>>]
    /\ nextAllowed = [s \in Services |-> NoTime]
    /\ graceUntil = [s \in Services |-> NoTime]
    /\ lastSuppressed = [s \in Services |-> NoTime]
    /\ events = <<>>
    /\ acting = NoService
    /\ actingAt = 0
    /\ history = [s \in Services |-> <<>>]

-----------------------------------------------------------------------------
(* The conditions, in the order the code asks them. *)

Triggered(health, critical) ==
    (OnUnhealthy /\ health = "unhealthy") \/ (OnCritical /\ critical)

\* Mutant: a service need not have been seen healthy.
NeverHealthy_ignored(s, health) == FALSE

\* has_seen_healthy: what was never healthy is not restarted for being unhealthy.
NeverHealthy(s, health) ==
    health = "unhealthy" /\ s \notin seenHealthy /\ s \notin AutoStarted

IsInStartupGrace(s, t) == graceUntil[s] # NoTime /\ t < graceUntil[s]

IsInBackoff(s, t) == nextAllowed[s] # NoTime /\ t < nextAllowed[s]

\* Mutant: an attempt leaves the window one tick early.
Expired_early(a, t) == a + Window <= t

\* An attempt exactly Window ago still counts.
Expired(a, t) == a + Window < t

\* HasRestartBudgetLocked pops from the front up to the first that still counts.
Popped(seq, t) ==
    CHOOSE n \in 0 .. Len(seq) :
        /\ \A i \in 1 .. n : Expired(seq[i], t)
        /\ n < Len(seq) => ~Expired(seq[n + 1], t)

InWindow(seq, t) == SubSeq(seq, Popped(seq, t) + 1, Len(seq))

HasRestartBudget(s, t) == Len(InWindow(attempts[s], t)) < MaxRestarts

\* Why a wanted restart does not happen now.
Suppressed(s, health, t) ==
    \/ NeverHealthy(s, health)
    \/ IsInStartupGrace(s, t)
    \/ IsInBackoff(s, t)
    \/ ~HasRestartBudget(s, t)

\* The budget is asked, and the history trimmed, only when nothing before it
\* has suppressed the restart.
AsksBudget(s, health, t) ==
    ~(NeverHealthy(s, health) \/ IsInStartupGrace(s, t) \/ IsInBackoff(s, t))

-----------------------------------------------------------------------------
(* Events *)

Event(s, type, t) == [service |-> s, type |-> type, at |-> t]

\* Mutant: the ring drops the event it was given.
Push_dropsNew(seq, e) == IF Len(seq) = EventCapacity THEN seq ELSE Append(seq, e)

\* PushRecentEventLocked keeps the newest EventCapacity events.
Push(seq, e) == IF Len(seq) < EventCapacity THEN Append(seq, e)
                ELSE Append(Tail(seq), e)

\* ForgetService erases the entries about s and keeps the others in their order: the j-th
\* of those left is the kept one that has j kept ones up to itself.
Kept(seq, s) == {i \in DOMAIN seq : seq[i].service # s}

Rank(seq, s, i) == Cardinality({k \in Kept(seq, s) : k <= i})

Without(seq, s) ==
    [j \in 1 .. Cardinality(Kept(seq, s)) |->
        seq[CHOOSE i \in Kept(seq, s) : Rank(seq, s, i) = j]]

\* ShouldEmitSuppressedEventLocked
MayEmitSuppressed(s, t) ==
    lastSuppressed[s] = NoTime \/ t >= lastSuppressed[s] + Cooldown

-----------------------------------------------------------------------------
(* EvaluateAndRecover(s, health, alerts, t) up to the supervisor's call. *)

Note(s, health) ==
    seenHealthy' = IF health = "healthy" THEN seenHealthy \cup {s} ELSE seenHealthy

\* Mutant: the mutex is released around the supervisor's call.
MutexIsFree_released == TRUE

\* mutex_: another call waits while the supervisor acts.
MutexIsFree == acting = NoService

\* Nothing wrong, or the operator wants the service stopped.
EvaluateIdle(s, health, critical, desired) ==
    /\ MutexIsFree
    /\ Triggered(health, critical) => desired = "stopped"
    /\ Note(s, health)
    /\ UNCHANGED <<attempts, nextAllowed, graceUntil, lastSuppressed, events, acting,
                   actingAt, history>>

Trim(s, health, t) ==
    attempts' = IF AsksBudget(s, health, t)
                THEN [attempts EXCEPT ![s] = InWindow(attempts[s], t)] ELSE attempts

EvaluateSuppressed(s, health, critical, desired, t) ==
    /\ MutexIsFree
    /\ Triggered(health, critical) /\ desired = "running"
    /\ Suppressed(s, health, t)
    /\ Note(s, health)
    /\ Trim(s, health, t)
    /\ IF MayEmitSuppressed(s, t)
       THEN /\ lastSuppressed' = [lastSuppressed EXCEPT ![s] = t]
            /\ events' = Push(events, Event(s, "suppressed", t))
       ELSE UNCHANGED <<lastSuppressed, events>>
    /\ UNCHANGED <<nextAllowed, graceUntil, acting, actingAt, history>>

EvaluateRestart(s, health, critical, desired, t) ==
    /\ MutexIsFree
    /\ Triggered(health, critical) /\ desired = "running"
    /\ ~Suppressed(s, health, t)
    /\ Note(s, health)
    /\ Trim(s, health, t)
    /\ events' = Push(events, Event(s, "started", t))
    /\ acting' = s
    /\ actingAt' = t
    /\ UNCHANGED <<nextAllowed, graceUntil, lastSuppressed, history>>

\* Mutant: a failed restart is followed by no period.
RecordRestartAttempt_okOnly(ok) ==
    /\ acting # NoService
    /\ attempts' = [attempts EXCEPT ![acting] = Append(@, actingAt)]
    /\ nextAllowed' = IF ok THEN [nextAllowed EXCEPT ![acting] = actingAt + Backoff] ELSE nextAllowed
    /\ graceUntil' = IF ok THEN [graceUntil EXCEPT ![acting] = actingAt + Grace] ELSE graceUntil
    /\ history' = [history EXCEPT ![acting] = Append(@, actingAt)]
    /\ events' = Push(events, Event(acting, IF ok THEN "succeeded" ELSE "failed", actingAt))
    /\ acting' = NoService
    /\ UNCHANGED <<seenHealthy, lastSuppressed, actingAt>>

\* The supervisor has answered: the attempt is recorded, failed or not, with the time of the
\* decision, not that of the answer.
RecordRestartAttempt(ok) ==
    /\ acting # NoService
    /\ attempts' = [attempts EXCEPT ![acting] = Append(@, actingAt)]
    /\ nextAllowed' = [nextAllowed EXCEPT ![acting] = actingAt + Backoff]
    /\ graceUntil' = [graceUntil EXCEPT ![acting] = actingAt + Grace]
    /\ history' = [history EXCEPT ![acting] = Append(@, actingAt)]
    /\ events' = Push(events, Event(acting, IF ok THEN "succeeded" ELSE "failed", actingAt))
    /\ acting' = NoService
    /\ UNCHANGED <<seenHealthy, lastSuppressed, actingAt>>

ForgetService(s) ==
    /\ MutexIsFree
    /\ seenHealthy' = seenHealthy \ {s}
    /\ attempts' = [attempts EXCEPT ![s] = <<>>]
    /\ nextAllowed' = [nextAllowed EXCEPT ![s] = NoTime]
    /\ graceUntil' = [graceUntil EXCEPT ![s] = NoTime]
    /\ lastSuppressed' = [lastSuppressed EXCEPT ![s] = NoTime]
    /\ events' = Without(events, s)
    /\ history' = [history EXCEPT ![s] = <<>>]
    /\ UNCHANGED <<acting, actingAt>>

Clear ==
    /\ MutexIsFree
    /\ seenHealthy' = {}
    /\ attempts' = [s \in Services |-> <<>>]
    /\ nextAllowed' = [s \in Services |-> NoTime]
    /\ graceUntil' = [s \in Services |-> NoTime]
    /\ lastSuppressed' = [s \in Services |-> NoTime]
    /\ events' = <<>>
    /\ history' = [s \in Services |-> <<>>]
    /\ UNCHANGED <<acting, actingAt>>

Evaluate(s, health, critical, desired, t) ==
    \/ EvaluateIdle(s, health, critical, desired)
    \/ EvaluateSuppressed(s, health, critical, desired, t)
    \/ EvaluateRestart(s, health, critical, desired, t)

PolicyNext ==
    \/ \E s \in Services, health \in Healths, critical \in BOOLEAN,
          desired \in {"stopped", "running"}, t \in Clock :
          Evaluate(s, health, critical, desired, t)
    \/ \E ok \in BOOLEAN : RecordRestartAttempt(ok)
    \/ \E s \in Services : ForgetService(s)
    \/ Clear

PolicySpec == PolicyInit /\ [][PolicyNext]_policyVars

-----------------------------------------------------------------------------
(* Properties, whatever the clock does *)

\* Never more than MaxRestarts attempts in any Window, the limit recovery_policy
\* states with max_restarts and window_seconds (HasRestartBudgetLocked).
BudgetHolds ==
    \A s \in Services : \A i \in DOMAIN history[s] :
        i + MaxRestarts \in DOMAIN history[s]
            => history[s][i] + Window < history[s][i + MaxRestarts]

\* Two attempts on a service are at least the backoff and the grace period apart,
\* and in the order of the clock even when it was set back between them.
AttemptsSpaced ==
    \A s \in Services : \A i, j \in DOMAIN history[s] :
        i < j => /\ history[s][i] + Backoff <= history[s][j]
                 /\ history[s][i] + Grace <= history[s][j]

\* The journal never tells half a restart: a started event is followed by its own
\* outcome, with nothing between, unless the restart is still in progress.
JournalPairs ==
    /\ events \in Seq(Entries) /\ Len(events) <= EventCapacity
    /\ \A i \in DOMAIN events : events[i].type = "started" =>
          IF i = Len(events)
          THEN acting = events[i].service /\ actingAt = events[i].at
          ELSE /\ events[i + 1].type \in {"succeeded", "failed"}
               /\ events[i + 1].service = events[i].service
               /\ events[i + 1].at = events[i].at

\* The outcome of an attempt is the journal's newest event, however full it was.
OutcomeIsJournalled ==
    [][\A s \in Services :
        (acting = s /\ acting' = NoService)
            => /\ events'[Len(events')].service = s
               /\ events'[Len(events')].type \in {"succeeded", "failed"}]_policyVars

=============================================================================
