----------------------- MODULE BoundedRequestExecutor -----------------------
(***************************************************************************)
(* BoundedRequestExecutor (apps/agent/src/api/bounded_request_executor.cpp) *)
(*                                                                         *)
(* A deque of tasks, a pool of worker threads on one condition variable    *)
(* and one mutex.  Every critical section is one step; notifications       *)
(* follow it in a step of their own, because the code notifies after       *)
(* unlocking.  Threads that submit and stop (Caller: the I/O threads and   *)
(* whoever stops the server) run against one owner that calls Start and    *)
(* Wait (HttpServer lets one thread at a time through, wait_in_progress_). *)
(***************************************************************************)
EXTENDS FiniteSets, Naturals, Sequences

CONSTANTS
    Worker,    \* the threads WorkerLoop may run on; worker_count_ of them
    Caller,    \* threads that call TrySubmit and RequestStop
    Task,      \* identities of tasks; one is used again after it has finished
    Capacity,  \* capacity_
    Owner,     \* the thread that calls Start and Wait
    NoTask     \* no task

\* The constructor rejects zero workers and zero capacity.
ASSUME WorkerAssumption == IsFiniteSet(Worker) /\ Worker # {}
ASSUME CapacityAssumption == Capacity \in Nat \ {0}
ASSUME TaskAssumption == NoTask \notin Task
ASSUME ThreadAssumption ==
    /\ Owner \notin Worker \cup Caller
    /\ Worker \cap Caller = {}

VARIABLES
    tasks,         \* tasks_
    workers,       \* workers_: the threads the vector owns
    inFlight,      \* in_flight_count_
    accepting,     \* accepting_
    stopRequested, \* stop_requested_
    wpc,           \* where each worker thread is in WorkerLoop
    wtask,         \* the task each worker holds
    joining,       \* the local vector of Wait, or what a failed Start still joins
    opc,           \* where the owner is in Start or Wait
    owes,          \* the notification each thread still has to send
    accepted       \* history: tasks TrySubmit accepted and whose end is not counted yet

vars == <<tasks, workers, inFlight, accepting, stopRequested, wpc, wtask, joining, opc,
          owes, accepted>>

WorkerPcs == {"none", "test", "asleep", "task", "count", "gone"}
OwnerPcs == {"idle", "failed", "failJoin", "failEnd", "waitTake", "join", "reset"}
Threads == Worker \cup Caller \cup {Owner}

TypeOK ==
    /\ tasks \in Seq(Task)
    /\ workers \subseteq Worker
    /\ inFlight \in Nat
    /\ accepting \in BOOLEAN /\ stopRequested \in BOOLEAN
    /\ wpc \in [Worker -> WorkerPcs]
    /\ wtask \in [Worker -> Task \cup {NoTask}]
    /\ joining \subseteq Worker
    /\ opc \in OwnerPcs
    /\ owes \in [Threads -> {"none", "one", "all"}]
    /\ accepted \subseteq Task

Init ==
    /\ tasks = <<>> /\ workers = {} /\ inFlight = 0
    /\ accepting = FALSE /\ stopRequested = FALSE
    /\ wpc = [w \in Worker |-> "none"]
    /\ wtask = [w \in Worker |-> NoTask]
    /\ joining = {} /\ opc = "idle"
    /\ owes = [p \in Threads |-> "none"]
    /\ accepted = {}

queueVars == <<tasks, inFlight, accepted>>
flagVars == <<accepting, stopRequested>>
workerVars == <<wpc, wtask>>
ownerVars == <<workers, joining, opc>>

-----------------------------------------------------------------------------
(* The condition variable *)

\* notify_one: one sleeping worker, if there is one, has to test its predicate again.
NotifyOne(p) ==
    /\ owes[p] = "one"
    /\ owes' = [owes EXCEPT ![p] = "none"]
    /\ \/ \E w \in Worker : wpc[w] = "asleep" /\ wpc' = [wpc EXCEPT ![w] = "test"]
       \/ (\A w \in Worker : wpc[w] # "asleep") /\ UNCHANGED wpc
    /\ UNCHANGED <<queueVars, flagVars, wtask, ownerVars>>

\* notify_all.
NotifyAll(p) ==
    /\ owes[p] = "all"
    /\ owes' = [owes EXCEPT ![p] = "none"]
    /\ wpc' = [w \in Worker |-> IF wpc[w] = "asleep" THEN "test" ELSE wpc[w]]
    /\ UNCHANGED <<queueVars, flagVars, wtask, ownerVars>>

\* A condition variable may wake a sleeper for no reason.
SpuriousWakeup(w) ==
    /\ wpc[w] = "asleep"
    /\ wpc' = [wpc EXCEPT ![w] = "test"]
    /\ UNCHANGED <<queueVars, flagVars, wtask, ownerVars, owes>>

-----------------------------------------------------------------------------
(* TrySubmit and RequestStop *)

MayAccept == accepting /\ ~stopRequested /\ inFlight < Capacity

\* Mutant: only the first task of a queue is announced.
TrySubmit_notifiesFirst(c, t) ==
    /\ owes[c] = "none" /\ t \notin accepted /\ MayAccept
    /\ tasks' = Append(tasks, t) /\ inFlight' = inFlight + 1
    /\ accepted' = accepted \cup {t}
    /\ owes' = [owes EXCEPT ![c] = IF tasks = <<>> THEN "one" ELSE "none"]
    /\ UNCHANGED <<flagVars, workerVars, ownerVars>>

\* Mutant: no task is announced.
TrySubmit_silent(c, t) ==
    /\ owes[c] = "none" /\ t \notin accepted /\ MayAccept
    /\ tasks' = Append(tasks, t) /\ inFlight' = inFlight + 1
    /\ accepted' = accepted \cup {t}
    /\ UNCHANGED <<flagVars, workerVars, ownerVars, owes>>

TrySubmit(c, t) ==
    /\ owes[c] = "none"
    /\ t \notin accepted
    /\ MayAccept
    /\ tasks' = Append(tasks, t)
    /\ inFlight' = inFlight + 1
    /\ accepted' = accepted \cup {t}
    /\ owes' = [owes EXCEPT ![c] = "one"]
    /\ UNCHANGED <<flagVars, workerVars, ownerVars>>

\* Any thread, a worker inside its task included.
RequestStop(p) ==
    /\ owes[p] = "none"
    /\ p \in Worker => wpc[p] = "task"
    /\ accepting' = FALSE /\ stopRequested' = TRUE
    /\ owes' = [owes EXCEPT ![p] = "all"]
    /\ UNCHANGED <<queueVars, workerVars, ownerVars>>

-----------------------------------------------------------------------------
(* WorkerLoop *)

\* Mutant: a stop is obeyed before the queue is empty.
WorkerLeave_atOnce(w) ==
    /\ wpc[w] = "test" /\ stopRequested
    /\ wpc' = [wpc EXCEPT ![w] = "gone"]
    /\ UNCHANGED <<queueVars, flagVars, wtask, ownerVars, owes>>

\* The wait predicate holds under the lock: leave, or take the first task.
WorkerLeave(w) ==
    /\ wpc[w] = "test"
    /\ stopRequested /\ tasks = <<>>
    /\ wpc' = [wpc EXCEPT ![w] = "gone"]
    /\ UNCHANGED <<queueVars, flagVars, wtask, ownerVars, owes>>

WorkerTake(w) ==
    /\ wpc[w] = "test"
    /\ tasks # <<>>
    /\ wtask' = [wtask EXCEPT ![w] = Head(tasks)]
    /\ tasks' = Tail(tasks)
    /\ wpc' = [wpc EXCEPT ![w] = "task"]
    /\ UNCHANGED <<inFlight, accepted, flagVars, ownerVars, owes>>

WorkerSleep(w) ==
    /\ wpc[w] = "test"
    /\ ~stopRequested /\ tasks = <<>>
    /\ wpc' = [wpc EXCEPT ![w] = "asleep"]
    /\ UNCHANGED <<queueVars, flagVars, wtask, ownerVars, owes>>

\* The task returns or throws; both are caught.
TaskEnds(w) ==
    /\ wpc[w] = "task" /\ owes[w] = "none"
    /\ wpc' = [wpc EXCEPT ![w] = "count"]
    /\ UNCHANGED <<queueVars, flagVars, wtask, ownerVars, owes>>

WorkerCount(w) ==
    /\ wpc[w] = "count"
    /\ inFlight' = inFlight - 1
    /\ accepted' = accepted \ {wtask[w]}
    /\ wtask' = [wtask EXCEPT ![w] = NoTask]
    /\ wpc' = [wpc EXCEPT ![w] = "test"]
    /\ UNCHANGED <<tasks, flagVars, ownerVars, owes>>

-----------------------------------------------------------------------------
(* Start *)

MayStart ==
    /\ opc = "idle" /\ owes[Owner] = "none"
    /\ ~accepting /\ workers = {} /\ tasks = <<>> /\ inFlight = 0

\* The mutex is held while the threads are created: they first run after it.
Start ==
    /\ MayStart
    /\ accepting' = TRUE /\ stopRequested' = FALSE
    /\ workers' = Worker
    /\ wpc' = [w \in Worker |-> "test"]
    /\ UNCHANGED <<queueVars, wtask, joining, opc, owes>>

\* A thread cannot be created after those of ws: still under the mutex, all is undone.
StartFails(ws) ==
    /\ MayStart
    /\ accepting' = FALSE /\ stopRequested' = TRUE
    /\ workers' = ws
    /\ wpc' = [w \in Worker |-> IF w \in ws THEN "test" ELSE wpc[w]]
    /\ opc' = "failed"
    /\ owes' = [owes EXCEPT ![Owner] = "all"]
    /\ UNCHANGED <<queueVars, wtask, joining>>

StartFailJoin ==
    /\ opc = "failed" /\ owes[Owner] = "none"
    /\ joining' = workers /\ opc' = "failJoin"
    /\ UNCHANGED <<queueVars, flagVars, workerVars, workers, owes>>

StartFailJoined ==
    /\ opc = "failJoin" /\ joining = {}
    /\ opc' = "failEnd"
    /\ UNCHANGED <<queueVars, flagVars, workerVars, workers, joining, owes>>

StartFailEnd ==
    /\ opc = "failEnd"
    /\ workers' = {} /\ stopRequested' = FALSE /\ opc' = "idle"
    /\ UNCHANGED <<queueVars, accepting, workerVars, joining, owes>>

-----------------------------------------------------------------------------
(* Wait *)

\* Mutant: Wait stops the pool without waking it.
WaitBegin_silent ==
    /\ opc = "idle" /\ owes[Owner] = "none"
    /\ accepting' = FALSE /\ stopRequested' = TRUE
    /\ opc' = "waitTake"
    /\ UNCHANGED <<queueVars, workerVars, workers, joining, owes>>

WaitBegin ==
    /\ opc = "idle" /\ owes[Owner] = "none"
    /\ accepting' = FALSE /\ stopRequested' = TRUE
    /\ owes' = [owes EXCEPT ![Owner] = "all"]
    /\ opc' = "waitTake"
    /\ UNCHANGED <<queueVars, workerVars, workers, joining>>

\* The owner is no worker: it takes the vector.
WaitTake ==
    /\ opc = "waitTake" /\ owes[Owner] = "none"
    /\ joining' = workers /\ workers' = {}
    /\ opc' = "join"
    /\ UNCHANGED <<queueVars, flagVars, workerVars, owes>>

\* thread::join, of a failed Start too.
Join(w) ==
    /\ opc \in {"join", "failJoin"}
    /\ w \in joining /\ wpc[w] = "gone"
    /\ joining' = joining \ {w}
    /\ wpc' = [wpc EXCEPT ![w] = "none"]
    /\ UNCHANGED <<queueVars, flagVars, wtask, workers, opc, owes>>

WaitJoined ==
    /\ opc = "join" /\ joining = {}
    /\ opc' = "reset"
    /\ UNCHANGED <<queueVars, flagVars, workerVars, workers, joining, owes>>

WaitReset ==
    /\ opc = "reset"
    /\ tasks' = <<>> /\ inFlight' = 0 /\ stopRequested' = FALSE
    /\ opc' = "idle"
    /\ UNCHANGED <<accepted, accepting, workerVars, workers, joining, owes>>

-----------------------------------------------------------------------------

WorkerStep(w) == WorkerLeave(w) \/ WorkerTake(w) \/ WorkerSleep(w) \/ WorkerCount(w)

OwnerStep ==
    \/ StartFailJoin \/ StartFailJoined \/ StartFailEnd
    \/ WaitTake \/ WaitJoined \/ WaitReset
    \/ \E w \in Worker : Join(w)

Notify(p) == NotifyOne(p) \/ NotifyAll(p)

Next ==
    \/ \E c \in Caller, t \in Task : TrySubmit(c, t)
    \/ \E p \in Caller \cup Worker : RequestStop(p)
    \/ \E p \in Threads : Notify(p)
    \/ \E w \in Worker : WorkerStep(w) \/ TaskEnds(w) \/ SpuriousWakeup(w)
    \/ Start \/ WaitBegin \/ OwnerStep
    \/ \E ws \in SUBSET Worker : ws # Worker /\ StartFails(ws)

Spec == Init /\ [][Next]_vars

\* Threads are scheduled; a task ends, after calling RequestStop finitely often at most (SF);
\* nobody has to submit, stop or wake for no reason.
FairSpec ==
    /\ Spec
    /\ \A w \in Worker : WF_vars(WorkerStep(w)) /\ SF_vars(TaskEnds(w))
    /\ \A p \in Threads : WF_vars(Notify(p))
    /\ WF_vars(OwnerStep)

-----------------------------------------------------------------------------
(* Properties *)

Queued == {tasks[i] : i \in DOMAIN tasks}
Held == {w \in Worker : wpc[w] \in {"task", "count"}}
Running == {wtask[w] : w \in Held}

\* The counter TrySubmit tests is the number of tasks queued or running, and no more than
\* capacity_ are, whatever workers, callers and restarts do (TrySubmit, WorkerLoop, Wait).
CountIsExact ==
    /\ inFlight = Cardinality(accepted)
    /\ accepted = Queued \cup Running
    /\ inFlight <= Capacity

\* A task is in one place: queued once, or held by one worker (WorkerLoop moves it out).
RunsOnce ==
    /\ \A i, j \in DOMAIN tasks : i # j => tasks[i] # tasks[j]
    /\ \A v, w \in Held : v # w => wtask[v] # wtask[w]
    /\ Queued \cap Running = {}

\* Wait's final tasks_.clear() and in_flight_count_ = 0 throw nothing away: every accepted
\* task has run by then, and no thread of the pool is left (Wait, lines 103-112).
ResetDropsNothing ==
    opc = "reset" =>
        /\ tasks = <<>> /\ inFlight = 0 /\ accepted = {}
        /\ \A w \in Worker : wpc[w] = "none"

\* A worker leaves only when the queue it served is empty and stays empty (WorkerLoop).
LeaversLeaveNothing == (\E w \in Worker : wpc[w] = "gone") => tasks = <<>> /\ stopRequested

\* No worker sleeps over a backlog: while one is asleep, every queued task has a worker that
\* is about to test the queue or a notification on its way (notify_one after the unlock in
\* TrySubmit, against the predicate in WorkerLoop).
NoIdleBacklog ==
    (\E w \in Worker : wpc[w] = "asleep") =>
        Len(tasks) <= Cardinality({w \in Worker : wpc[w] = "test"})
                        + Cardinality({p \in Threads : owes[p] # "none"})

\* Each accepted task is eventually run and counted, a stop in between or not.
AcceptedIsRun == \A t \in Task : t \in accepted ~> t \notin accepted

\* Wait, and a Start that fails, return.
OwnerReturns == opc # "idle" ~> opc = "idle"

Gate == INSTANCE RequestGate WITH
    gate <- IF accepting /\ ~stopRequested THEN "open"
            ELSE IF workers = {} /\ joining = {} THEN "closed" ELSE "shut",
    pending <- accepted

\* The executor is a RequestGate.
IsRequestGate == Gate!Spec

=============================================================================
