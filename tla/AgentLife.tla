------------------------------ MODULE AgentLife ------------------------------
(***************************************************************************)
(* The agent from start to exit (agent/main.cpp): the services are started,*)
(* then the collector, the monitor and the server; a signal ends it all in *)
(* the opposite order, and StopAll stops the services last.  The monitor,  *)
(* its recoveries and the operator's requests are HealthMonitor's; here    *)
(* they live only as long as main lets them.                               *)
(*                                                                         *)
(* The monitor's worker (Start, Stop and Run of health/health_monitor.cpp) *)
(* tests a flag that Stop sets without the mutex of the condition variable *)
(* it sleeps on, so that Stop's notification may find nobody asleep yet.   *)
(* The collector's worker is the same code; nothing it does reaches the    *)
(* services, and it is only started and joined here.                       *)
(***************************************************************************)
EXTENDS HealthMonitor, SequencesExt

VARIABLES
    main,           \* where main() is
    left,           \* services its loop has still to deal with
    stopRequested,  \* g_stop_requested
    exitCode,
    unstopped,      \* failures of StopAll: the services whose Stop failed
    worker,         \* where the monitor's thread is, outside a cycle
    workerStop      \* stop_requested_ of the monitor, with the thread's stop token

lifeVars == <<main, left, stopRequested, exitCode, unstopped, worker, workerStop>>
allVars  == <<vars, lifeVars>>

MainPcs == {"autostart", "collector", "monitor", "server", "serve", "drain",
            "stop monitor", "join monitor", "stop collector", "stop services", "exited"}

\* "unready" is a worker that has found the flag unset and is not asleep yet.
Workers == {"none", "awake", "cycle", "unready", "asleep", "ended"}

LifeTypeOK ==
    /\ main \in MainPcs /\ left \in Seq(Services)
    /\ stopRequested \in BOOLEAN /\ exitCode \in {0, 1} /\ unstopped \subseteq Services
    /\ worker \in Workers /\ workerStop \in BOOLEAN

LifeInit ==
    /\ Init
    /\ main = "autostart" /\ left = Order
    /\ stopRequested = FALSE /\ exitCode = 0 /\ unstopped = {}
    /\ worker = "none" /\ workerStop = FALSE

-----------------------------------------------------------------------------
(* Start *)

\* Services main is done with.
Rest == left' = Tail(left)

\* What main does not touch of the monitor and its services.
MonitorIsLeft == UNCHANGED <<policyVars, cycleVars, calls, now, everUp>>

\* StartAutoStartServices skips the services without auto_start.
SkipService ==
    /\ main = "autostart" /\ left # <<>> /\ Head(left) \notin AutoStarted
    /\ Rest
    /\ UNCHANGED <<vars, main, stopRequested, exitCode, unstopped, worker, workerStop>>

AutoStart ==
    /\ main = "autostart" /\ left # <<>> /\ Head(left) \in AutoStarted
    /\ BeginStart(Head(left), "main")
    /\ MonitorIsLeft /\ UNCHANGED lifeVars

\* A service that does not start keeps nothing else from starting.
AutoStartReturns ==
    /\ main = "autostart" /\ left # <<>> /\ op[Head(left)].by = "main"
    /\ \E ok \in BOOLEAN : Returns(Head(left), ok)
    /\ Rest
    /\ MonitorIsLeft
    /\ UNCHANGED <<main, stopRequested, exitCode, unstopped, worker, workerStop>>

AutoStartEnds ==
    /\ main = "autostart" /\ left = <<>>
    /\ main' = "collector"
    /\ UNCHANGED <<vars, left, stopRequested, exitCode, unstopped, worker, workerStop>>

\* MetricsCollector::Start, which fails when there is no thread to be had.
StartCollector ==
    /\ main = "collector"
    /\ \/ main' = "monitor" /\ UNCHANGED <<left, exitCode>>
       \/ main' = "stop services" /\ left' = Reverse(Order) /\ exitCode' = 1
    /\ UNCHANGED <<vars, stopRequested, unstopped, worker, workerStop>>

StartMonitor ==
    /\ main = "monitor"
    /\ \/ main' = "server" /\ worker' = "awake" /\ UNCHANGED exitCode
       \/ main' = "stop collector" /\ exitCode' = 1 /\ UNCHANGED worker
    /\ workerStop' = FALSE
    /\ UNCHANGED <<vars, left, stopRequested, unstopped>>

\* HttpServer::Start throws when the port is taken.
StartServer ==
    /\ main = "server"
    /\ \/ main' = "serve" /\ UNCHANGED exitCode
       \/ main' = "stop monitor" /\ exitCode' = 1
    /\ UNCHANGED <<vars, left, stopRequested, unstopped, worker, workerStop>>

-----------------------------------------------------------------------------
(* The end *)

\* HandleSignal, at any time.
Signal ==
    /\ ~stopRequested /\ main # "exited"
    /\ stopRequested' = TRUE
    /\ UNCHANGED <<vars, main, left, exitCode, unstopped, worker, workerStop>>

LeaveLoop ==
    /\ main = "serve" /\ stopRequested
    /\ main' = "drain"
    /\ UNCHANGED <<vars, left, stopRequested, exitCode, unstopped, worker, workerStop>>

\* HttpServer::Wait returns when the handlers have returned.
Drained == main = "drain" /\ \A s \in Services : op[s].by # "operator"

\* Wait throws again what ended an I/O thread.
ServerStops ==
    /\ Drained
    /\ main' = "stop monitor" /\ exitCode' \in {exitCode, 1}
    /\ UNCHANGED <<vars, left, stopRequested, unstopped, worker, workerStop>>

\* HealthMonitor::Stop sets the flag and notifies, outside wait_mutex_.
StopMonitor ==
    /\ main = "stop monitor"
    /\ workerStop' = TRUE
    /\ worker' = IF worker = "asleep" THEN "awake" ELSE worker
    /\ main' = "join monitor"
    /\ UNCHANGED <<vars, left, stopRequested, exitCode, unstopped>>

JoinMonitor ==
    /\ main = "join monitor" /\ worker = "ended"
    /\ main' = "stop collector"
    /\ UNCHANGED <<vars, left, stopRequested, exitCode, unstopped, worker, workerStop>>

StopCollector ==
    /\ main = "stop collector"
    /\ main' = "stop services" /\ left' = Reverse(Order)
    /\ UNCHANGED <<vars, stopRequested, exitCode, unstopped, worker, workerStop>>

\* StopAll goes through all services, the last one first.
StopService ==
    /\ main = "stop services" /\ left # <<>>
    /\ BeginStop(Head(left), "main")
    /\ IF op' = op THEN Rest ELSE UNCHANGED left
    /\ MonitorIsLeft
    /\ UNCHANGED <<main, stopRequested, exitCode, unstopped, worker, workerStop>>

\* Mutant: StopAll gives up when a service cannot be stopped.
AfterStop_givesUp(ok) == left' = IF ok THEN Tail(left) ELSE <<>>

\* A service that cannot be stopped keeps no other one running.
AfterStop(ok) == Rest

StopServiceReturns ==
    /\ main = "stop services" /\ left # <<>> /\ op[Head(left)].by = "main"
    /\ \E ok \in BOOLEAN :
          /\ Returns(Head(left), ok)
          /\ AfterStop(ok)
          /\ unstopped' = IF ok THEN unstopped ELSE unstopped \cup {Head(left)}
    /\ MonitorIsLeft
    /\ UNCHANGED <<main, stopRequested, exitCode, worker, workerStop>>

Leave ==
    /\ main = "stop services" /\ left = <<>>
    /\ main' = "exited"
    /\ exitCode' = IF unstopped = {} THEN exitCode ELSE 1
    /\ UNCHANGED <<vars, left, stopRequested, unstopped, worker, workerStop>>

MainStep ==
    \/ SkipService \/ AutoStart \/ AutoStartReturns \/ AutoStartEnds
    \/ StartCollector \/ StartMonitor \/ StartServer
    \/ LeaveLoop \/ ServerStops \/ StopMonitor \/ JoinMonitor \/ StopCollector
    \/ StopService \/ StopServiceReturns \/ Leave

-----------------------------------------------------------------------------
(* The monitor's thread *)

MainIsLeft == UNCHANGED <<main, left, stopRequested, exitCode, unstopped, workerStop>>

\* Mutant: the wait has no timeout.
MayCheck_untimed == worker = "awake"

\* The thread is new or was notified, or its wait has timed out.
MayCheck == worker \in {"awake", "asleep"}

\* Run's loop: the flag, then CheckOnce.
Check ==
    /\ MayCheck /\ ~workerStop
    /\ BeginCycle
    /\ worker' = "cycle"
    /\ MainIsLeft

WorkerEnds ==
    /\ MayCheck /\ workerStop
    /\ worker' = "ended"
    /\ MainIsLeft /\ UNCHANGED vars

\* After a cycle the flag is tested, then the wait begins.
InCycle ==
    /\ worker = "cycle"
    /\ CycleStep
    /\ worker' = IF pc' # "idle" THEN "cycle" ELSE IF workerStop THEN "awake" ELSE "unready"
    /\ MainIsLeft

FallAsleep ==
    /\ worker = "unready"
    /\ worker' = "asleep"
    /\ MainIsLeft /\ UNCHANGED vars

WorkerStep == Check \/ WorkerEnds \/ InCycle \/ FallAsleep

-----------------------------------------------------------------------------
\* A request is handled while the server is there; those it had accepted when it
\* was told to stop are handled too.
Request(s) == main \in {"serve", "drain"} /\ OperatorCall(s) /\ UNCHANGED lifeVars

\* What goes on by itself: handlers that return, services, the clock.
Elsewhere ==
    /\ \/ \E s \in Services : OperatorReturns(s) \/ ServiceStep(s)
       \/ Tick
    /\ UNCHANGED lifeVars

LifeNext ==
    \/ MainStep \/ Signal \/ WorkerStep
    \/ \E s \in Services : Request(s)
    \/ Elsewhere

LifeSpec == LifeInit /\ [][LifeNext]_allVars

\* Threads that can go on do, a call of a supervisor returns (OperationsReturn of
\* ProcessSupervisor) and the clock goes on.  Nobody has to call or to signal, and
\* no service has to end.
LifeFairness ==
    /\ WF_allVars(MainStep) /\ WF_allVars(WorkerStep) /\ WF_allVars(Tick /\ UNCHANGED lifeVars)
    /\ \A s \in Services :
          /\ WF_allVars(OperatorReturns(s) /\ UNCHANGED lifeVars)
          /\ WF_allVars(ServiceStep(s) /\ op[s] # NoOp /\ UNCHANGED lifeVars)

FairLifeSpec == LifeSpec /\ LifeFairness

-----------------------------------------------------------------------------
(* Properties *)

(* When the agent has left, neither a service nor what is left of its       *)
(* process group is running but where its own Stop failed, and the exit     *)
(* code tells: recovery and requests that were under way at the signal      *)
(* start nothing behind StopAll's back, and one service that cannot be      *)
(* stopped keeps no other one running (main.cpp:241,                        *)
(* service_registry.cpp:690).                                               *)
NothingIsLeftRunning ==
    main = "exited" =>
        \A s \in Services : IsRecorded(s) => s \in unstopped /\ exitCode = 1

(* A signal ends the agent, at whatever point of its start it comes, and    *)
(* also when the monitor's worker misses the notification                   *)
(* (main.cpp:230, health_monitor.cpp:64).                                   *)
SignalEndsAgent == stopRequested ~> main = "exited"

-----------------------------------------------------------------------------
(* Why nothing is left running.                                            *)

\* Before the requests come and after they are drained, no supervisor executes one.
RequestsAreServed ==
    main \notin {"serve", "drain"} => \A s \in Services : op[s].by # "operator"

\* Recovery is inside a supervisor only within a cycle, and there is no cycle once
\* the worker was joined.
RecoveryIsInCycle ==
    /\ \A s \in Services : op[s].by = "recovery" => pc = "wait" /\ s = Current
    /\ worker # "cycle" => pc = "idle"
    /\ main \in {"autostart", "collector", "monitor"} => worker = "none"
    /\ main \in {"stop collector", "stop services", "exited"} => worker \in {"none", "ended"}

\* Main is inside the supervisor its loop is at.
MainIsInLoop ==
    /\ left \in Seq(Services)
    /\ \A s \in Services : op[s].by = "main" =>
           /\ left # <<>> /\ s = Head(left)
           /\ \/ main = "autostart" /\ s \in AutoStarted
              \/ main = "stop services" /\ op[s].phase = "stop" /\ ~op[s].restart

\* StopAll has stopped every service it is past, or counts it as a failure.
PassedAreDown ==
    /\ main \in {"stop services", "exited"} =>
           \A s \in Services : IsRecorded(s) => s \in unstopped \/ \E i \in DOMAIN left : left[i] = s
    /\ main = "exited" => left = <<>> /\ (unstopped # {} => exitCode = 1)

LifeInv ==
    /\ op \in [Services -> Ops \cup {NoOp}] /\ up \in [Services -> BOOLEAN]
    /\ unstopped \subseteq Services
    /\ RequestsAreServed /\ RecoveryIsInCycle /\ MainIsInLoop /\ PassedAreDown

=============================================================================
