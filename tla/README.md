# AegisDesk in TLA+

AegisDesk is a process-supervision agent (C++20, HTTP API) with a Qt desktop client. This
directory holds its verification project: TLA+ modules translated from the source, the TLC
configurations that check them on small instances, and TLAPS proofs for every instance.
Paths below are relative to the repository (`src/` is its root).

## 1. The system and its parts

| Part | State it keeps | Operations | Hard behaviour |
|---|---|---|---|
| ProcessSupervisor (`service/process_supervisor.cpp`) | desired and actual state, pid, process group, observer thread | Start, Stop, Restart, SetDesiredState, destructor, GetStatus | operations against the observer thread and the kernel; exec handshake; signal escalation; pid reuse |
| ServiceRegistry (`service/service_registry.cpp`) | the supervisors, in configuration order | LoadFromFile, Find, ListServices, StartAutoStartServices, StopAll | one of several services failing; reverse stop order |
| RecoveryManager (`recovery/recovery_manager.cpp`) | per-service restart history, backoff, cooldown, event ring | EvaluateAndRecover, ForgetService, Clear | decides on a snapshot, acts later; wall clock; budget and backoff limits |
| HealthChecker, HealthMonitor (`health/*.cpp`) | consecutive failures, last snapshot, worker thread | CheckOnce, Start, Stop, Run | stale snapshots; stop of a sleeping worker; exceptions in a cycle |
| AlertEvaluator, AlertManager (`alerts/*.cpp`) | rule timers, active alerts, resolved ring | EvaluateRule, ApplyEvaluations, Acknowledge, GetAlert | duration over a wall clock that jumps; event id reuse after resolution; ring eviction |
| MetricsCollector, MetricsSampler (`metrics/*.cpp`) | CPU baselines, bounded histories, worker thread | CollectOnce, Start, Stop | counter rollback, changed process identity, bounded ring |
| BoundedRequestExecutor (`api/bounded_request_executor.cpp`) | task queue, in-flight counter, workers | Start, TrySubmit, RequestStop, Wait | full queue, stop against submit, wait from a worker |
| HttpServer, HttpSession (`api/http_server.cpp`, `api/http_session.cpp`) | acceptor, sessions, shutdown phases | Start, RequestStop, Wait, accept, read, handle, write, drain | stop posted from another thread, forced deadline, restart of the io context |
| AgentApi (`api/agent_api.cpp`) | none | routes requests to the parts above | actions against concurrent recovery |
| agent main (`agent/src/main.cpp`) | the stop request, the exit code | start order, signal wait, shutdown order | a signal at any point; a part stopping while another still uses it |
| LogReader (`service/log_reader.cpp`) | none | tail of a file by doubling windows | window boundaries |
| Desktop MainWindow and panels (`desktop/src/widgets/*.cpp`) | selection, snapshots, generation counters, in-flight flags | refresh, select, action, acknowledge | answers out of order, selection changed while a request is in flight |
| Desktop AgentClient (`desktop/src/api/agent_client.cpp`) | none | request, parse | no time limit of its own: an answer may never come |
| demo_service (`apps/demo_service/main.cpp`) | none | fault injection | none of its own |

How they interact: HTTP workers run AgentApi handlers, which call the registry's supervisors;
the health thread reads the same supervisors' status, feeds the checker, the evaluator and the
recovery manager, and recovery calls Start or Restart on a supervisor; every call of a supervisor
is serialised by its `operation_mutex_`, and its fields are read under `state_mutex_`. The desktop
polls the HTTP API and posts actions.

## 2. Modules

Specifications (`X.tla`), the definitions of their inductive invariants (`XInv.tla`), proofs
(`XProofs.tla`), instances for TLC (`MCX.tla` with its `.cfg` files).

| Module | Models | State, as in the code |
|---|---|---|
| `ProcessSupervisor` | `service/process_supervisor.cpp`, with the kernel | `desired`, `state`, `pid`, `pgid`, `observer` are the fields of the same name; `holder` is `operation_mutex_`; `pc`, `child`, `tpid`, `tgid` are the locals of a thread in Start, Stop, Restart or the destructor; `leader`, `kin`, `pipe`, `doomedLeader`, `doomedKin` are the processes, the exec handshake and the SIGKILLs under way |
| `ServiceLifecycle` | what `GetStatus` promises (abstract) | `desired`, `state`, whether a launch is recorded, the phase of the operation |
| `RecoveryManager` | `recovery/recovery_manager.cpp` | `attempts`, `nextAllowed`, `graceUntil`, `events` and the flags of `RecoveryState`; `acting` is the service the mutex holder restarts |
| `HealthMonitor` | `CheckOnce` of `health/health_monitor.cpp`, `CheckProcess` of `health/health_checker.cpp`, the operator's calls of `agent_api.cpp` | the variables of `RecoveryManager`, a `ServiceLifecycle` per service, `lingering` being the services that are down with `process_group_id_` still set, and the locals of a cycle: what was listed, `checkedAt`, the healths |
| `BoundedRequestExecutor` | `api/bounded_request_executor.cpp` | `tasks`, `workers`, the flags and `in_flight_count_`; `wpc`, `opc` and the wait set are where workers and the owner are |
| `RequestGate` | what the executor promises the server (abstract) | the gate, the requests admitted |
| `HttpServer` | `api/http_server.cpp`, `api/http_session.cpp` | lifecycle state, acceptor, session set, shutdown flags; the queue of the server's strand and of each session's strand; per session its phase and the asynchronous operation it has outstanding |
| `MetricsCollector` | `CollectOnce` of `metrics/metrics_collector.cpp`, `Sample` of `metrics/metrics_sampler.cpp` | `baseline` and `samples` are the sampler's baseline and the collector's history; `status` and `process` what is published of the service and what is there |
| `AgentLife` | `agent/src/main.cpp`, StartAutoStartServices and StopAll of `service/service_registry.cpp`, Start, Stop and Run of the monitor's and the collector's threads | the variables of `HealthMonitor`; `main` and `left`, where main is and which services its loop has still to deal with; `stopRequested` is the signal's flag, `workerStop` the monitor's, `worker` where its thread is; `unstopped` the failures StopAll counts |
| `AgentProtocol` | `api/agent_api.cpp` and `desktop/src/api/agent_client.cpp`: what may be answered to a request, and what the client makes of it | none, as in the code |
| `Desktop` | `desktop/src/widgets/main_window.cpp`, `service_health_panel.cpp`, `metrics_history_panel.cpp`, with an agent that changes | `desk` holds the fields of the window and its panels, `flags` being the in-flight flags that are up, and the requests that are out; a request is `live` as long as its generation is the channel's current one; `agent` is what the agent has been, so that a late answer can tell an old state |
| `AlertPipeline` | `alerts/alert_evaluator.cpp`, `alerts/alert_manager.cpp`, on top of `MetricsCollector` | `since` is `rule_states_`, `active` and `resolved` the manager's two containers, `checkedAt`, `firing`, `todo` the locals of a cycle |

Composition: `HealthMonitor` extends `RecoveryManager` and uses of each supervisor what
`ServiceLifecycle` says of it, which `ProcessSupervisor` is checked to implement. `HttpServer`
uses of the executor what `RequestGate` says of it, which `BoundedRequestExecutor` is proved to
implement. `AgentLife` extends `HealthMonitor`: monitor and operator are the same, but act only while
main lets them. `Desktop` extends `AgentProtocol`. `AlertPipeline` extends `MetricsCollector`; that a critical alert reaches recovery is in
`RecoveryManager`, where any alert may be active.

**Steps.** A section of code under one lock is one action; where a lock is released, or a call
that takes time is made while one is held, the action ends. Notifications that the code sends after
unlocking are actions of their own. In `HttpServer` a handler of a strand is one action, except
where it takes a lock that another thread may hold in between. In `Desktop` a handler is one action,
because Qt runs them one after the other; the dialog after a failed action has an event loop of its
own, and only takes the user's clicks away. Variables marked "history" are not
in the code: they remember what a property needs and no guard reads them.

**Data.** Messages, error texts, commands, arguments and payloads are left out. A pid is a member
of a small set and is used again as soon as the kernel may. Times are readings of a clock that may
be set back; timeouts may fire whenever the code could notice them, so that no property depends on
their length.

## 3. What is checked

| Run | Shows |
|---|---|
| `supervisor` | Every order of calls by two callers, of exits, signals, timeouts and failures: each forked process is recorded or in the hands of the Start that forked it (`LeaderAccounted`), nobody's `waitpid` loses a child to another (`SoleReaper`), the fields of one snapshot fit together (`StatusCoherent`), the cleanup of an old group never signals a later launch although pids are reused (`CleanupSparesNextLaunch`), no group is forgotten (`GroupAccounted`), the destructor leaves nobody unreaped (`DestructorReaps`), a Stop that returns true is complete (`StopOkLeavesNothing`), an exit is judged by the operator's intent (`ExitKeepsIntent`), and the whole implements `ServiceLifecycle` (`LifecycleImplemented`) |
| `supervisor_liveness` | Operations return, and an exit is published |
| `stop_leaves_stopping` | Finding A |
| `recovery` | For any clock readings and any outcome of a restart: never more than `max_restarts` attempts in a window (`BudgetHolds`), attempts a backoff and a grace period apart (`AttemptsSpaced`), the journal tells an outcome for each attempt (`JournalPairs`), and a full journal drops its oldest event (`OutcomeIsJournalled`) |
| `health_monitor` | The monitor, two services and an operator: each of its steps is one of the policy's or leaves it alone (`PolicyIsKept`), a wanted service that is down is retried (`WantedIsRetried`), one that was never up is left alone (`NeverUpIsLeftAlone`) |
| `manual_stop` | Finding B |
| `executor` | No worker sleeps over a backlog (`NoIdleBacklog`); accepted tasks are run although stops race them (`AcceptedIsRun`); Wait and a failing Start return (`OwnerReturns`); the executor is a `RequestGate` (`IsRequestGate`) |
| `http_server` | Stop, deadline, clients and handlers in every order: no accepted request goes unanswered, until the answer is written (`AcceptedIsAnswered`), no session misses the stop (`DrainReachesAll`), the stop completes once (`CompletionIsFinal`), a stopped server is quiet (`StoppedIsQuiet`) and one started again accepts (`RunningAccepts`) |
| `http_server_liveness` | RequestStop and Wait return, also when an exception ends the I/O threads |
| `alerts` | A processor load is measured between two consecutive samples of one process (`LoadIsOfOneProcess`); a rule fires only after its condition was met for its duration in every cycle (`FiresAfterDuration`); an alert disappears only into the resolved history, unless the clock was set back (`LossNeedsClockBack`); an acknowledgement stays with the alert it reached (`AcknowledgedAsAsked`); the alerts of a service that stopped are resolved (`StoppedIsResolved`) |
| `agent_life` | Every way the agent starts, fails to start and is stopped, with recoveries and requests under way: when it has exited, no service and no process group is left but those whose own Stop failed, and then the exit code tells (`NothingIsLeftRunning`); a signal ends it, although the monitor's notification may be lost (`SignalEndsAgent`) |
| `desktop` | Answers in any order, late, failed or refused, a user who selects, acts, refreshes and acknowledges, an agent that changes and is restarted with another configuration: the window shows nothing of a service that is not selected (`ShownIsOfSelected`); an in-flight flag is up exactly while one request is out whose callback takes it down (`FlagsAreAnswered`); the buttons fit the state on the screen (`ButtonsFit`); a status asked for before an action does not take its outcome back (`OutcomeStays`); in the end each channel whose requests are answered brings its part of the window up to date, whatever is still out on the others (`ScreenCatchesUp`) |

**Bounds.** The bounds are in the `.cfg` files; these are the ones that need a word.
- `supervisor`: two callers are enough, because `operation_mutex_` lets one through and the second
  is the one that waits, changes the intent or destroys; two pids, because the launch being cleaned
  up and the one being started are all that exist at a time, and a pid is reused. The number of
  operations and launches is not bounded.
- `recovery`, `health_monitor`: the clock runs to 3 with periods of 1 and 2, so that each period ends
  before, with and after the others, and an attempt can lie exactly `window_seconds` back. In
  `recovery` the clock may read anything at any time. `OperatorCalls` bounds the operator.
- `executor`: three workers and a capacity of two, so that workers outnumber tasks; three tasks, so
  that one is refused. Tasks and starts are not bounded.
- `http_server`: two callers, `MaxStarts = 2` for what one life leaves to the next; two sessions, of
  which the server keeps one, so that one is served while the other is refused. `CallsOverlap` says
  whether a call may overlap another thread's stop or a new start (FALSE in the runs, see D below), and
  `IoMayThrow` whether a handler's exception may end the I/O threads (TRUE for the liveness run).
- `alerts`: one pid for two launches and the foreign process in between; a rule with a duration, whose
  timer may run out in the cycle it was started in when the clock jumps; `Horizon = 1` and
  `MaxSetBack = 1` give all orders of two clock readings. What holds for longer times, for several rules
  and for rules without a duration is proved.
- `agent_life`: two services, one started automatically, one request of the operator, one restart within
  the window: enough for a recovery or a request to be inside a supervisor when the signal comes.
- `desktop`: two services, of which a restart of the agent may take one away; one area of the panels
  (alerts, the one that can also be acknowledged), two clicks, one change or failure of the agent or
  the network. The areas of the window itself only differ in being forgotten together with the status;
  with metrics in place of the empty set and one click the run passes too (409 000 states). What holds
  for all areas, any number of clicks and faults is proved.

**Fairness.** A thread that can run does, and a thread that waits for a mutex others release gets it
only where the code does not let newcomers overtake it for ever: no caller is assumed to win
`operation_mutex_`. SIGKILL ends a process, a child that reported an exec error exits. In the executor a
task ends even if it calls RequestStop several times, hence strong fairness of `TaskEnds`. In the
server reads and writes end, by their timeouts at the latest. The workers of collector and monitor
run as long as the agent does; in `agent_life` main and the monitor's thread take their steps, the
clock goes on (the wait has a timeout), and a request that a supervisor has begun returns. In `desktop`
only the timer is fair. `SendJsonRequest` calls back once when Qt ends the reply, but nothing bounds the
time until then (L below), so that no answer is owed: `ScreenCatchesUp` claims of each channel what it
brings as long as its own requests do not stay out (`IsAnswered`). An answer may be an error; only the
number of failures, clicks and changes of the agent is bounded. Nobody is assumed to call, no client to
come, no service to exit.

**Deadlock** is checked in every run but `agent_life`, where the agent exits and really stops.

## 4. What the code does otherwise

- **A** (`stop_leaves_stopping`). `process_supervisor.cpp:573`: a Stop that arrives after a leader's
  exit was published and before its group is cleaned up returns true and leaves the state Stopping,
  which only a later operation leaves. `docs/state-machine.md:16` says a stop that completes is Stopped.
- **B** (`manual_stop`). `recovery_manager.cpp:158`: the operator's Stop between the decision to
  restart and the call of Restart is undone. `README.md:418` lists no recovery after a manual stop.

Known and without a run of their own:
- **C** (`process_supervisor.cpp:164`): end of file on the handshake pipe reads as a successful exec,
  also when the child was killed before it; Start then returns true for a process that never ran
  the service. The exit is published like any other.
- **D** (`http_server.cpp:156`): a thread that is still inside RequestStop when the server has stopped and
  is started again closes the new acceptor. `docs/http-server-lifecycle.md:12,16` allow both calls, the
  agent makes neither. `HttpServer` with `CallsOverlap = TRUE` shows it as a violation of `RunningAccepts`.
- **E** (`http_server.cpp:178`): a handler that calls Wait is recognised only while its thread is in
  `workers_`; once another thread's Wait has moved that vector, the two wait for each other.
- **F** (`bounded_request_executor.cpp:162`): a finished task counts until its worker has the lock
  again, so that a request may be refused as overload while none is queued or running.
- **G** (`alert_manager.cpp:207`): all alerts of a rule have one id. An acknowledgement may reach a newer
  alert than the one that was shown, and among several resolved ones it always reaches the oldest.
- **H** (`alert_manager.cpp:87`, `:108`): after the clock was set back an active alert may be dropped
  without becoming a resolved one.
- **I** (`main_window.cpp:299`): a listing that was asked for before an action may arrive after its outcome
  and put the older state back on the screen, until the next refresh: ExecuteAction makes the status
  stale, not the listing. This is why `OutcomeStays` excepts listings.
- **J** (`service_health_panel.cpp:306`): the callback of an acknowledgement tests no generation. One for a
  service that is no longer shown lowers the flag of a newer one, so that two may be out, and a refresh
  is skipped while another is in flight; `FlagsAreAnswered` and `ScreenCatchesUp` say what remains true.
- **K** (`main_window.cpp:671`): `refresh_logs_button` is only re-enabled by the next snapshot, not by the
  answer of the logs. `service_health_panel.cpp:180`: toggling "include resolved" while a request is in
  flight takes effect with the next tick. `agent_client.cpp:283`: after the clock was set back a history
  is refused as a whole until the older points have left the agent's ring.
- **L** (`agent_client.cpp:525`): requests have no transfer timeout. A reply that never ends, of an agent
  that hangs or a connection that was lost in silence, keeps its in-flight flag up, and every refresh of
  that channel returns early (`main_window.cpp:290`, `:316`, `:344`, `:376`). Selecting another service (for
  status, logs and metrics also an action) forgets it; the listing and an action are never forgotten, so
  that the list of services, or the buttons, stay as they are until the client is closed.
- **M** (`process_supervisor.cpp:377`, `:385`): `std::filesystem::exists` and `is_directory` are called in the
  form that throws, when a directory on the path may not be searched say. Start then leaves by the
  exception, with the state still Starting; `docs/state-machine.md:12` takes a lack of permission to Failed.
  The model has the refusal, not the exception.

## 5. What is proved

All proofs are for every value of the constants that the modules' assumptions allow. They assume
nothing else, but for the two hypotheses about callers and handlers that some theorems of
`HttpServerProofs` state.

- `ProcessSupervisorProofs`. `IInv` (in `ProcessSupervisorInv`) says which thread a forked child
  belongs to at each control point, that nothing is recorded before `RecordLaunch`, that there is no
  observer between the join and `SpawnObserver`, and that a stop's target is the recorded launch or
  gone. It is needed because `LeaderAccounted` alone does not say why a Start that forks finds the
  record empty: that is the mutex, the join of the old observer and the check of the group together.
  From it follow the safety invariants of the run and `StopOkLeavesNothing`; `DestructorReaps` needs
  `EndInv` beside it (the destructor has joined the observer). `StateInv` relates the
  published state to where the operation stands, so that an observed exit finds the state it may
  change: hence `ExitKeepsIntent`, and every step is one of `ServiceLifecycle` or changes nothing a
  caller sees (`SupervisorIsLifecycle`).
- `RecoveryManagerProofs`. The attempts that count are the newest part of the history and the two
  deadlines are those of the newest attempt; what was popped had left the window. Hence `BudgetHolds`
  and `AttemptsSpaced`, whatever the clock reads. `PoppedFacts` is about the loop itself.
  `JournalPairs` is inductive with the types: with the mutex free the journal ends with no started event
  (`QuietPairs`), so that what is pushed follows whole restarts or closes the one in progress
  (`PushKeepsPairs`, also when the full journal drops its oldest entry, the start of a restart perhaps);
  and a start and its outcome are about one service, so that forgetting a service erases both or none
  (`ForgetKeepsPairs`). The last needs that neighbours that stay are neighbours in what is left, of a
  journal of any length (`WithoutFacts`); hence `Without`, which says where each entry that is kept comes
  to stand, in place of `SelectSeq`, of which nothing can be proved here; TLC evaluates that they agree
  (`WithoutIsSelect` in `MCRecoveryManager`). `OutcomeIsJournalled` follows from `PushFacts`.
- `HealthMonitorProofs`. The monitor implements the policy, so the policy's theorems hold of it, those
  about the journal too (`MonitorKeepsBudget`, `MonitorTellsRestarts`).
  `NeverUpIsLeftAlone` follows from `HealthyWereUp`: what the monitor remembers as healthy was up.
- `BoundedRequestExecutorProofs`. Who owns the threads at each place of the owner, and which flags
  are set there; hence the count is exact, tasks run once, Wait discards nothing, and every step
  is one of `RequestGate` or none. For `NoIdleBacklog` both sides are counted: a task arrives with
  its notification (`SubmitKeepsBacklog`), a test that takes one shortens the queue
  (`TakeKeepsBacklog`), and a notification is spent on a sleeper, who then tests
  (`NotifyOneKeepsBacklog`).
- `HttpServerProofs`. Five invariants (in `HttpServerInv`), each from as few hypotheses as it needs.
  `ServerInv`: one thread joins the I/O threads, and once the executor is drained nothing enters it.
  `SessionInv`: of the handlers that carry on an exchange, an operation, a request in the executor and a
  registration a session has one at most; a request is with a session that handles it, its response
  with one that has it queued or is writing it, unless the connection was cut. Both hold whatever
  callers and handlers do. `IoInv`: the I/O threads leave for lack of work only; it needs that no
  handler throws. `CallsInv`: what the callers may be doing in each state,
  and who still has to schedule the stop; it needs that callers do not overlap. `StopInv`, with all of
  the former: a stop is on its way to the acceptor from the first RequestStop on, and nothing is left
  between two runs but a completion posted too late. No theorem has more hypotheses than it needs:

  | Theorem | `~CallsOverlap` | `~IoMayThrow` |
  |---|---|---|
  | `TypeCorrect` | | |
  | `RequestsAreAnswered` | | needed: the threads that end leave requests behind |
  | `CompletionIsKept` | needed: a late stop completes the next run (D) | |
  | `StoppedServerIsQuiet`, `DrainReachesEverySession`, `RunningServerAccepts` | needed | needed |

  For each entry that says "needed" TLC finds a counterexample when the hypothesis is dropped, with one
  session. The agent satisfies the first: main is the only caller (`main.cpp`), one call after the other.
  The second is about its environment: no handler of the server throws by itself, but RunIoContext
  (`http_server.cpp:502`) provides for one that does, by a failing allocation say. The only lemmas about
  data are on how many results of accepts are queued (`ResultsAppend`, `ResultsTail`).
- `AlertPipelineProofs`. The baseline is the process of the newest sample, hence
  `LoadIsOfOneProcess`. By the clock, a rule's timer has never run for longer than
  the condition was really met (`TimersAreHonest`), although the clock may be set back between two
  cycles and within one; hence
  `FiresAfterDuration`. `AcknowledgedAsAsked` and `TypeOK` complete the invariant. `LossNeedsClockBack`
  needs that an alert was triggered no later than the clock was read, setting back added
  (`AlertsArePast`).
- `AgentLifeProofs`. The invariant has four parts: requests are under way only while the server is up or
  drains (`RequestsAreServed`); a recovery only inside a cycle of the monitor (`RecoveryIsInCycle`); main
  calls a supervisor only in its two loops (`MainIsInLoop`); hence, once StopAll has begun, nobody but main
  calls a supervisor, and the services it has passed are down, with their process groups, or among the
  failures (`PassedAreDown`). The
  order in which main stops the parts is what makes the last one inductive. `AgentKeepsPolicy` carries the
  monitor's theorem over.
- `DesktopProofs`. One lemma for each operator the handlers are built from says that the window stays
  `Sound`: all its parts are about the selected service and the buttons are as UpdateActionButtons
  leaves them. Hence `ShownIsOfSelected` and `ButtonsFit`.
  For the requests that are out: `Tidy` (a flag for each channel with a request that counts, at most
  one of these, and about what is selected) and `Ordered` (no status request counts while an action is
  under way, none that counts is older than the outcome on the screen). Hence `FlagsAreAnswered` and
  `OutcomeStays`.

Every invariant and every action property of the runs that pass is stated by a theorem. Only
model-checked is liveness, since fairness and ENABLED are beyond the prover.

## 6. What is not modelled, and what comes next

`LogReader`'s window, to be checked against its definition on bounded files, comes next: it keeps no
state, and no other part depends on which lines it returns.

Abstracted: of the configuration, that it names at least one service and is otherwise valid; of procfs
and the macOS calls, the counters and the identity of the process; of JSON, the fields that decide
something. In the desktop: the branch for an empty listing, which the registry rules out
(`service_registry.cpp:559`); that no item is selected, which only a list without items would cause; which
row of the alerts is selected; the text of labels and status bar. In the supervisor: the observer's answer
to an error of `waitpid` other than EINTR and ECHILD (`process_supervisor.cpp:674`), which a call with these
arguments does not return, and the exceptions of M.

Not planned: drawing, the demo service (any process may exit at any time in the models, which is all its
faults amount to), tests and benchmarks. `ForgetService` of checker, evaluator and alert manager is never
reached in the agent, whose registry does not lose a service.
