-------------------------- MODULE ProcessSupervisor --------------------------
(***************************************************************************)
(* The life of one supervised service (service/process_supervisor.cpp).    *)
(*                                                                         *)
(* Client threads call Start, Stop, Restart and, last of all, the          *)
(* destructor.  operation_mutex_ serialises the calls; every short section *)
(* under state_mutex_ is one action here.  The observer thread is the one  *)
(* that waits for the leader, publishes its exit and then empties the      *)
(* process group.  The operating system is part of the module: a launched  *)
(* leader, the other members of its group, SIGKILLs not yet taken, and the *)
(* close-on-exec pipe that tells Start how exec went.                      *)
(*                                                                         *)
(* Timeouts (5 s for exec, 3 s graceful, 3 s forced) may fire at any time  *)
(* the code can notice them.  SIGTERM has no effect of its own: a process  *)
(* may exit, or go on, at any moment anyway.  A pid is reused as soon as   *)
(* the operating system allows it, so Pids bounds the launches that exist  *)
(* at one time and not the number of launches.                             *)
(***************************************************************************)
EXTENDS Naturals, FiniteSets

CONSTANTS
    Threads,    \* threads that call the supervisor: HTTP workers, health, main
    Pids,       \* process ids the operating system hands out
    NoThread,   \* "nobody holds operation_mutex_"
    NoPid,      \* the value -1 of pid_ and process_group_id_
    AutoStart   \* definition_.auto_start

ASSUME NoThreadAssumption == NoThread \notin Threads
ASSUME NoPidAssumption    == NoPid \notin Pids
ASSUME AutoStartAssumption == AutoStart \in BOOLEAN

VARIABLES
    \* fields guarded by state_mutex_
    desired, state, pid, pgid,
    \* observer_thread_: its control point and its target process group
    observer,
    \* the client threads: control point, call, its result, locals, the mutex
    pc, call, ret, child, tpid, tgid, holder,
    \* the operating system
    leader, kin, pipe, doomedLeader, doomedKin,
    \* history: groups whose leader alone was killed by an abandoned handshake
    strays

svcVars    == <<desired, state, pid, pgid>>
threadVars == <<pc, call, ret, child, tpid, tgid, holder>>
osVars     == <<leader, kin, pipe, doomedLeader, doomedKin, strays>>
vars       == <<svcVars, observer, threadVars, osVars>>

States   == {"stopped", "starting", "running", "stopping", "exited", "failed"}
Desires  == {"stopped", "running"}
Calls    == {"start", "stop", "restart", "destroy"}
Results  == {"none", "ok", "error"}

StartPcs == {"check", "join_old", "begin", "fork", "confirm", "abandon", "reap",
             "fail", "record", "spawn", "unwind_reap", "unwind", "publish"}
StopPcs  == {"want_running", "mark", "term", "grace", "kill", "forced", "refused",
             "join_stopped"}
EndPcs   == {"end_kill", "end_join", "destroyed"}
ThreadPcs == {"idle", "lock"} \cup StartPcs \cup StopPcs \cup EndPcs

ObserverPcs == {"none", "wait", "reaped", "probe", "term", "grace", "kill", "forced",
                "clear", "done"}

LeaderStates == {"none", "child", "service", "zombie"}
PipeStates   == {"open", "error", "eof"}

TypeOK ==
    /\ desired \in Desires
    /\ state \in States
    /\ pid \in Pids \cup {NoPid}
    /\ pgid \in Pids \cup {NoPid}
    /\ observer \in [pc : ObserverPcs, group : Pids \cup {NoPid}]
    /\ pc \in [Threads -> ThreadPcs]
    /\ call \in [Threads -> Calls \cup {"none"}]
    /\ ret \in [Threads -> Results]
    /\ child \in [Threads -> Pids \cup {NoPid}]
    /\ tpid \in [Threads -> Pids \cup {NoPid}]
    /\ tgid \in [Threads -> Pids \cup {NoPid}]
    /\ holder \in Threads \cup {NoThread}
    /\ leader \in [Pids -> LeaderStates]
    /\ kin \subseteq Pids
    /\ pipe \in [Pids -> PipeStates]
    /\ doomedLeader \subseteq Pids
    /\ doomedKin \subseteq Pids
    /\ strays \subseteq Pids

Init ==
    /\ desired = IF AutoStart THEN "running" ELSE "stopped"
    /\ state = "stopped"
    /\ pid = NoPid
    /\ pgid = NoPid
    /\ observer = [pc |-> "none", group |-> NoPid]
    /\ pc = [t \in Threads |-> "idle"]
    /\ call = [t \in Threads |-> "none"]
    /\ ret = [t \in Threads |-> "none"]
    /\ child = [t \in Threads |-> NoPid]
    /\ tpid = [t \in Threads |-> NoPid]
    /\ tgid = [t \in Threads |-> NoPid]
    /\ holder = NoThread
    /\ leader = [p \in Pids |-> "none"]
    /\ kin = {}
    /\ pipe = [p \in Pids |-> "eof"]
    /\ doomedLeader = {}
    /\ doomedKin = {}
    /\ strays = {}

-----------------------------------------------------------------------------
(* The operating system as the supervisor sees it. *)

\* kill(-g, 0): a zombie leader keeps its group in existence.
ProcessGroupExists(g) ==
    g \in Pids /\ (leader[g] # "none" \/ g \in kin)

\* A pid is handed out only when neither a process nor a group has it.
FreePids == {p \in Pids : leader[p] = "none" /\ p \notin kin}

\* SIGKILL to every process that is in group g now.
SigkillTree(g) ==
    /\ doomedLeader' = IF g \in Pids /\ leader[g] \in {"child", "service"}
                       THEN doomedLeader \cup {g} ELSE doomedLeader
    /\ doomedKin' = IF g \in kin THEN doomedKin \cup {g} ELSE doomedKin

\* execv succeeds: the write end of the pipe closes with the old image.
ExecSucceeds(p) ==
    /\ leader[p] = "child"
    /\ pipe[p] = "open"
    /\ p \notin doomedLeader
    /\ leader' = [leader EXCEPT ![p] = "service"]
    /\ pipe' = [pipe EXCEPT ![p] = "eof"]
    /\ UNCHANGED <<svcVars, observer, threadVars, kin, doomedLeader, doomedKin, strays>>

\* setpgid, chdir, a redirection or execv fails: the child reports and _exits.
ExecFails(p) ==
    /\ leader[p] = "child"
    /\ pipe[p] = "open"
    /\ p \notin doomedLeader
    /\ pipe' = [pipe EXCEPT ![p] = "error"]
    /\ UNCHANGED <<svcVars, observer, threadVars, leader, kin, doomedLeader, doomedKin,
                   strays>>

\* The leader ends, by itself or by a signal of anybody, and waits to be reaped.
LeaderDies(p) ==
    /\ leader[p] \in {"child", "service"}
    /\ leader' = [leader EXCEPT ![p] = "zombie"]
    /\ pipe' = IF pipe[p] = "open" THEN [pipe EXCEPT ![p] = "eof"] ELSE pipe
    /\ doomedLeader' = doomedLeader \ {p}
    /\ UNCHANGED <<svcVars, observer, threadVars, kin, doomedKin, strays>>

\* The running service forks descendants into its group.
KinForks(p) ==
    /\ leader[p] = "service"
    /\ p \notin doomedLeader
    /\ p \notin kin
    /\ kin' = kin \cup {p}
    /\ UNCHANGED <<svcVars, observer, threadVars, leader, pipe, doomedLeader, doomedKin,
                   strays>>

\* The last descendant ends; init reaps it.
KinDie(p) ==
    /\ p \in kin
    /\ kin' = kin \ {p}
    /\ doomedKin' = doomedKin \ {p}
    /\ strays' = strays \ {p}
    /\ UNCHANGED <<svcVars, observer, threadVars, leader, pipe, doomedLeader>>

-----------------------------------------------------------------------------
(* Calls, operation_mutex_ and returns. *)

Goto(t, label) == pc' = [pc EXCEPT ![t] = label]

\* The call of t returns r and releases operation_mutex_; the destructor goes on.
Return(t, r) ==
    /\ Goto(t, IF call[t] # "destroy" THEN "idle"
               ELSE IF r = "ok" THEN "end_join" ELSE "end_kill")
    /\ ret' = [ret EXCEPT ![t] = r]
    /\ holder' = NoThread
    /\ child' = [child EXCEPT ![t] = NoPid]
    /\ tpid' = [tpid EXCEPT ![t] = NoPid]
    /\ tgid' = [tgid EXCEPT ![t] = NoPid]
    /\ UNCHANGED call

\* A step of t that stays inside its call and leaves its locals alone.
Continue(t, label) ==
    /\ Goto(t, label)
    /\ UNCHANGED <<call, ret, child, tpid, tgid, holder>>

\* A caller enters Start, Stop or Restart; nothing may be called once the
\* destructor runs, and the destructor only when nothing is being called.
Invoke(t, c) ==
    /\ pc[t] = "idle"
    /\ \A u \in Threads : /\ call[u] # "destroy"
                          /\ c = "destroy" => pc[u] = "idle"
    /\ Goto(t, "lock")
    /\ call' = [call EXCEPT ![t] = c]
    /\ ret' = [ret EXCEPT ![t] = "none"]
    /\ UNCHANGED <<svcVars, observer, child, tpid, tgid, holder, osVars>>

\* Nobody holds operation_mutex_.
MutexIsFree == holder = NoThread

\* The operation begins once operation_mutex_ is free.
Acquire(t) ==
    /\ pc[t] = "lock"
    /\ MutexIsFree
    /\ holder' = t
    /\ Goto(t, IF call[t] = "start" THEN "check"
               ELSE IF call[t] = "restart" THEN "want_running" ELSE "mark")
    /\ UNCHANGED <<svcVars, observer, call, ret, child, tpid, tgid, osVars>>

\* SetDesiredState takes both mutexes for one assignment.
SetDesiredState(t, d) ==
    /\ pc[t] = "idle"
    /\ \A u \in Threads : call[u] # "destroy"
    /\ MutexIsFree
    /\ desired' = d
    /\ UNCHANGED <<state, pid, pgid, observer, threadVars, osVars>>

\* Mutant: the old observer thread is not waited for.
JoinObserver_detached == UNCHANGED observer

\* JoinObserverThread: returns when no thread is joinable or it has finished.
JoinObserver ==
    /\ observer.pc \in {"none", "done"}
    /\ observer' = [pc |-> "none", group |-> NoPid]

-----------------------------------------------------------------------------
(* StartOperation *)

StartCheck(t) ==
    /\ pc[t] = "check"
    /\ desired' = "running"
    /\ \/ /\ pid # NoPid                      \* "is already running"
          /\ Return(t, "error")
       \/ /\ pid = NoPid
          /\ Continue(t, "join_old")
    /\ UNCHANGED <<state, pid, pgid, observer, osVars>>

StartJoin(t) ==
    /\ pc[t] = "join_old"
    /\ JoinObserver
    /\ Continue(t, "begin")
    /\ UNCHANGED <<svcVars, osVars>>

StartBegin(t) ==
    /\ pc[t] = "begin"
    /\ \/ /\ pgid # NoPid                     \* "still has an active process group"
          /\ Return(t, "error")
          /\ UNCHANGED state
       \/ /\ pgid = NoPid
          /\ state' = "starting"
          /\ Continue(t, "fork")
    /\ UNCHANGED <<desired, pid, pgid, observer, osVars>>

\* Invalid definition, missing executable or directory, no pipe, no process.
StartRejected(t) ==
    /\ pc[t] = "fork"
    /\ state' = "failed"
    /\ Return(t, "error")
    /\ UNCHANGED <<desired, pid, pgid, observer, osVars>>

Fork(t, p) ==
    /\ pc[t] = "fork"
    /\ p \in FreePids
    /\ leader' = [leader EXCEPT ![p] = "child"]
    /\ pipe' = [pipe EXCEPT ![p] = "open"]
    /\ child' = [child EXCEPT ![t] = p]
    /\ Goto(t, "confirm")
    /\ UNCHANGED <<svcVars, observer, call, ret, tpid, tgid, holder, kin, doomedLeader,
                   doomedKin, strays>>

\* WaitForExecConfirmation reads end-of-file without a byte: exec "succeeded".
ConfirmEof(t) ==
    /\ pc[t] = "confirm"
    /\ pipe[child[t]] = "eof"
    /\ Continue(t, "record")
    /\ UNCHANGED <<svcVars, observer, osVars>>

\* A whole ChildStartError arrives; the child is about to _exit(127).
ConfirmError(t) ==
    /\ pc[t] = "confirm"
    /\ pipe[child[t]] = "error"
    /\ Continue(t, "reap")
    /\ UNCHANGED <<svcVars, observer, osVars>>

\* Five seconds pass, or the pipe fails, before an answer is read.
ConfirmTimeout(t) ==
    /\ pc[t] = "confirm"
    /\ Continue(t, "abandon")
    /\ UNCHANGED <<svcVars, observer, osVars>>

\* kill(child_pid, SIGKILL): the leader alone, whatever it has forked by now.
KillChild(t) ==
    /\ pc[t] = "abandon"
    /\ doomedLeader' = IF leader[child[t]] \in {"child", "service"}
                       THEN doomedLeader \cup {child[t]} ELSE doomedLeader
    /\ strays' = IF child[t] \in kin THEN strays \cup {child[t]} ELSE strays
    /\ Continue(t, "reap")
    /\ UNCHANGED <<svcVars, observer, leader, kin, pipe, doomedKin>>

\* ReapChildBlocking(child_pid), on either of its two paths.
ReapChild(t) ==
    /\ pc[t] \in {"reap", "unwind_reap"}
    /\ leader[child[t]] \in {"zombie", "none"}
    /\ leader' = [leader EXCEPT ![child[t]] = "none"]
    /\ Continue(t, IF pc[t] = "reap" THEN "fail" ELSE "unwind")
    /\ UNCHANGED <<svcVars, observer, kin, pipe, doomedLeader, doomedKin, strays>>

StartFails(t) ==
    /\ pc[t] = "fail"
    /\ state' = "failed"
    /\ Return(t, "error")
    /\ UNCHANGED <<desired, pid, pgid, observer, osVars>>

RecordLaunch(t) ==
    /\ pc[t] = "record"
    /\ pid' = child[t]
    /\ pgid' = child[t]
    /\ Continue(t, "spawn")
    /\ UNCHANGED <<desired, state, observer, osVars>>

\* Mutant: the observer thread is forgotten.
SpawnObserver_missing(t) ==
    /\ pc[t] = "spawn"
    /\ Continue(t, "publish")
    /\ UNCHANGED <<svcVars, observer, osVars>>

SpawnObserver(t) ==
    /\ pc[t] = "spawn"
    /\ observer' = [pc |-> "wait", group |-> child[t]]
    /\ Continue(t, "publish")
    /\ UNCHANGED <<svcVars, osVars>>

\* Mutant: only the leader is killed when the observer cannot be started.
SpawnFails_leaderOnly(t) ==
    /\ pc[t] = "spawn"
    /\ doomedLeader' = doomedLeader \cup {child[t]}
    /\ Continue(t, "unwind_reap")
    /\ UNCHANGED <<svcVars, observer, leader, kin, pipe, strays, doomedKin>>

\* Mutant: the child is not reaped when the observer cannot be started.
SpawnFails_noReap(t) ==
    /\ pc[t] = "spawn"
    /\ SigkillTree(child[t])
    /\ Continue(t, "unwind")
    /\ UNCHANGED <<svcVars, observer, leader, kin, pipe, strays>>

\* Mutant: the error path runs although the observer was started.
SpawnFails_watched(t) ==
    /\ pc[t] = "spawn"
    /\ SigkillTree(child[t])
    /\ observer' = [pc |-> "wait", group |-> child[t]]
    /\ Continue(t, "unwind_reap")
    /\ UNCHANGED <<svcVars, leader, kin, pipe, strays>>

\* std::thread throws: the whole group is killed and the leader reaped here.
SpawnFails(t) ==
    /\ pc[t] = "spawn"
    /\ SigkillTree(child[t])
    /\ Continue(t, "unwind_reap")
    /\ UNCHANGED <<svcVars, observer, leader, kin, pipe, strays>>

Unwind(t) ==
    /\ pc[t] = "unwind"
    /\ IF pid = child[t]
       THEN pid' = NoPid /\ pgid' = NoPid /\ state' = "failed"
       ELSE UNCHANGED <<pid, pgid, state>>
    /\ Return(t, "error")
    /\ UNCHANGED <<desired, observer, osVars>>

\* Mutant: Running is published without looking whether the child is still there.
Publish_unchecked(t) ==
    /\ pc[t] = "publish"
    /\ state' = "running"
    /\ Return(t, "ok")
    /\ UNCHANGED <<desired, pid, pgid, observer, osVars>>

\* The child may have been observed dead already; Start succeeds all the same.
Publish(t) ==
    /\ pc[t] = "publish"
    /\ state' = IF pid = child[t] /\ state = "starting" THEN "running" ELSE state
    /\ Return(t, "ok")
    /\ UNCHANGED <<desired, pid, pgid, observer, osVars>>

-----------------------------------------------------------------------------
(* Restart and StopOperation *)

RestartWantRunning(t) ==
    /\ pc[t] = "want_running"
    /\ desired' = "running"
    /\ Continue(t, "mark")
    /\ UNCHANGED <<state, pid, pgid, observer, osVars>>

FinalDesired(t) == IF call[t] = "restart" THEN "running" ELSE "stopped"

StopMark(t) ==
    /\ pc[t] = "mark"
    /\ desired' = FinalDesired(t)
    /\ tpid' = [tpid EXCEPT ![t] = pid]
    /\ tgid' = [tgid EXCEPT ![t] = pgid]
    /\ \/ /\ pid = NoPid /\ pgid = NoPid
          /\ state' = IF FinalDesired(t) = "stopped" THEN "stopped" ELSE state
          /\ Goto(t, "join_stopped")
       \/ /\ pid # NoPid \/ pgid # NoPid
          /\ state' = "stopping"
          /\ Goto(t, "term")
    /\ UNCHANGED <<pid, pgid, observer, call, ret, child, holder, osVars>>

StopTerm(t) ==
    /\ pc[t] = "term"
    /\ Continue(t, "grace")
    /\ UNCHANGED <<svcVars, observer, osVars>>

\* kill(-g) fails with something else than ESRCH: the group is there.
StopSignalRefused(t) ==
    /\ pc[t] \in {"term", "kill"}
    /\ ProcessGroupExists(tgid[t])
    /\ Continue(t, "refused")
    /\ UNCHANGED <<svcVars, observer, osVars>>

LeaderWasObserved(t) == tpid[t] = NoPid \/ pid # tpid[t]

\* Mutant: the stop is content when the leader is gone.
StopObserved_leaderOnly(t) ==
    /\ pc[t] \in {"grace", "forced"}
    /\ LeaderWasObserved(t)
    /\ pgid' = IF pgid = tgid[t] THEN NoPid ELSE pgid
    /\ Continue(t, "join_stopped")
    /\ UNCHANGED <<desired, state, pid, observer, osVars>>

\* WaitForObservedExitAndProcessGroup returns true.
StopObserved(t) ==
    /\ pc[t] \in {"grace", "forced"}
    /\ LeaderWasObserved(t)
    /\ ~ProcessGroupExists(tgid[t])
    /\ pgid' = IF pgid = tgid[t] THEN NoPid ELSE pgid
    /\ Continue(t, "join_stopped")
    /\ UNCHANGED <<desired, state, pid, observer, osVars>>

\* Mutant: the graceful wait has no deadline, SIGTERM is never escalated.
StopTimeout_never(t) ==
    /\ pc[t] = "forced" /\ Continue(t, "refused")
    /\ UNCHANGED <<svcVars, observer, osVars>>

\* Its two samples were taken before the last exit, and the deadline is over.
StopTimeout(t) ==
    /\ \/ pc[t] = "grace" /\ Continue(t, "kill")
       \/ pc[t] = "forced" /\ Continue(t, "refused")
    /\ UNCHANGED <<svcVars, observer, osVars>>

StopKill(t) ==
    /\ pc[t] = "kill"
    /\ SigkillTree(tgid[t])
    /\ Continue(t, "forced")
    /\ UNCHANGED <<svcVars, observer, leader, kin, pipe, strays>>

\* A signal was refused, or the group outlived SIGKILL: Stop gives up.
StopRefused(t) ==
    /\ pc[t] = "refused"
    /\ state' = IF pid = tpid[t] THEN "failed" ELSE state
    /\ Return(t, "error")
    /\ UNCHANGED <<desired, pid, pgid, observer, osVars>>

\* Stop is over; Restart goes on with StartOperation under the same mutex.
StopJoin(t) ==
    /\ pc[t] = "join_stopped"
    /\ JoinObserver
    /\ \/ call[t] = "restart" /\ Continue(t, "check")
       \/ call[t] # "restart" /\ Return(t, "ok")
    /\ UNCHANGED <<svcVars, osVars>>

\* ~ProcessSupervisor after a Stop that failed: no more waiting, SIGKILL.
EndKill(t) ==
    /\ pc[t] = "end_kill"
    /\ IF pid # NoPid \/ pgid # NoPid
       THEN SigkillTree(pgid)
       ELSE UNCHANGED <<doomedLeader, doomedKin>>
    /\ Continue(t, "end_join")
    /\ UNCHANGED <<svcVars, observer, leader, kin, pipe, strays>>

EndJoin(t) ==
    /\ pc[t] = "end_join"
    /\ JoinObserver
    /\ Continue(t, "destroyed")
    /\ UNCHANGED <<svcVars, osVars>>

-----------------------------------------------------------------------------
(* ObserveChildExit and CleanupProcessGroupAfterLeaderExit *)

ObserverGoto(label) == observer' = [observer EXCEPT !.pc = label]

\* waitpid returns: the leader is reaped, or there was none (ECHILD).
ObserverReap ==
    /\ observer.pc = "wait"
    /\ leader[observer.group] \in {"zombie", "none"}
    /\ leader' = [leader EXCEPT ![observer.group] = "none"]
    /\ ObserverGoto("reaped")
    /\ UNCHANGED <<svcVars, threadVars, kin, pipe, doomedLeader, doomedKin, strays>>

\* Mutant: only desired_state tells a stop from a crash.
ExitState_byIntent == IF desired = "stopped" THEN "stopped" ELSE "exited"

\* MarkChildExitedLocked.
ExitState == IF desired = "stopped" \/ state = "stopping" THEN "stopped" ELSE "exited"

ObserverRecord ==
    /\ observer.pc = "reaped"
    /\ IF pid = observer.group
       THEN pid' = NoPid /\ state' = ExitState /\ ObserverGoto("probe")
       ELSE UNCHANGED <<pid, state>> /\ ObserverGoto("done")
    /\ UNCHANGED <<desired, pgid, threadVars, osVars>>

ObserverProbe ==
    /\ observer.pc = "probe"
    /\ ObserverGoto(IF ProcessGroupExists(observer.group) THEN "term" ELSE "clear")
    /\ UNCHANGED <<svcVars, threadVars, osVars>>

ObserverTerm ==
    /\ observer.pc = "term"
    /\ ObserverGoto("grace")
    /\ UNCHANGED <<svcVars, threadVars, osVars>>

\* WaitForProcessGroupExit, graceful and forced: empty, or out of time.
ObserverGroupGone ==
    /\ observer.pc \in {"grace", "forced"}
    /\ ~ProcessGroupExists(observer.group)
    /\ ObserverGoto("clear")
    /\ UNCHANGED <<svcVars, threadVars, osVars>>

ObserverTimeout ==
    /\ \/ observer.pc = "grace" /\ ObserverGoto("kill")
       \/ observer.pc = "forced" /\ ObserverGoto("clear")
    /\ UNCHANGED <<svcVars, threadVars, osVars>>

\* The return value of kill is ignored; a refused signal reaches nobody.
ObserverKill ==
    /\ observer.pc = "kill"
    /\ SigkillTree(observer.group) \/ UNCHANGED <<doomedLeader, doomedKin>>
    /\ ObserverGoto("forced")
    /\ UNCHANGED <<svcVars, threadVars, leader, kin, pipe, strays>>

ObserverClear ==
    /\ observer.pc = "clear"
    /\ pgid' = IF pgid = observer.group /\ ~ProcessGroupExists(observer.group)
               THEN NoPid ELSE pgid
    /\ ObserverGoto("done")
    /\ UNCHANGED <<desired, state, pid, threadVars, osVars>>

-----------------------------------------------------------------------------
(* The next-state relation, the scheduling and the specification. *)

StartStep(t) ==
    \/ StartCheck(t) \/ StartJoin(t) \/ StartBegin(t) \/ StartRejected(t)
    \/ \E p \in Pids : Fork(t, p)
    \/ ConfirmEof(t) \/ ConfirmError(t) \/ ConfirmTimeout(t) \/ KillChild(t)
    \/ ReapChild(t) \/ StartFails(t) \/ RecordLaunch(t) \/ SpawnObserver(t)
    \/ SpawnFails(t) \/ Unwind(t) \/ Publish(t)

StopStep(t) ==
    \/ RestartWantRunning(t) \/ StopMark(t) \/ StopTerm(t) \/ StopSignalRefused(t)
    \/ StopObserved(t) \/ StopTimeout(t) \/ StopKill(t) \/ StopRefused(t)
    \/ StopJoin(t) \/ EndKill(t) \/ EndJoin(t)

OperationStep(t) == StartStep(t) \/ StopStep(t)

ObserverStep ==
    \/ ObserverReap \/ ObserverRecord \/ ObserverProbe \/ ObserverTerm
    \/ ObserverGroupGone \/ ObserverTimeout \/ ObserverKill \/ ObserverClear

ProcessStep(p) ==
    ExecSucceeds(p) \/ ExecFails(p) \/ LeaderDies(p) \/ KinForks(p) \/ KinDie(p)

\* The supervisor is gone: nothing of it moves any more.
Gone == (\E t \in Threads : pc[t] = "destroyed") /\ UNCHANGED vars

Next ==
    \/ \E t \in Threads :
          \/ \E c \in Calls : Invoke(t, c)
          \/ \E d \in Desires : SetDesiredState(t, d)
          \/ Acquire(t)
          \/ OperationStep(t)
    \/ ObserverStep
    \/ \E p \in Pids : ProcessStep(p)
    \/ Gone

Spec == Init /\ [][Next]_vars

\* A thread of the agent that can run does run; SIGKILL ends a process; a child
\* that has reported its error goes on to _exit(127).  Nothing makes exec
\* answer, a service exit, or a caller win operation_mutex_.
Fairness ==
    /\ \A t \in Threads : WF_vars(OperationStep(t))
    /\ WF_vars(ObserverStep)
    /\ \A p \in Pids :
          /\ WF_vars(LeaderDies(p) /\ (p \in doomedLeader \/ pipe[p] = "error"))
          /\ WF_vars(KinDie(p) /\ p \in doomedKin)

FairSpec == Spec /\ Fairness

-----------------------------------------------------------------------------
(* Safety *)

InOperation(t) == pc[t] \notin {"idle", "lock", "end_kill", "end_join", "destroyed"}

\* Control points at which a forked child belongs to the starting thread alone.
ChildPcs == {"confirm", "abandon", "reap", "record"}

LeaderIsChildOf(p, t) == pc[t] \in ChildPcs /\ child[t] = p

\* No leader is lost: every process the supervisor forked and nobody has reaped
\* yet is either the one in pid_ or in the hands of the one Start that forked
\* it.  With operation_mutex_ and the join in StartOperation this also says that
\* at most one leader exists (StartOperation, StopOperation, ObserveChildExit).
LeaderAccounted ==
    \A p \in Pids : leader[p] # "none" =>
        \/ pid = p
        \/ \E t \in Threads : LeaderIsChildOf(p, t)

AtMostOneLeader ==
    \A p, q \in Pids : leader[p] # "none" /\ leader[q] # "none" => p = q

\* One waiter per leader: waitpid of the observer thread, or of a Start that
\* failed, never finds its child reaped by somebody else (no ECHILD), so an exit
\* status is never lost (ObserveChildExit, ReapChildBlocking).
SoleReaper ==
    /\ observer.pc = "wait" => leader[observer.group] # "none"
    /\ \A t \in Threads :
          pc[t] \in {"reap", "unwind_reap"} => leader[child[t]] # "none"

\* What GetStatus shows in one snapshot fits together: Running and Stopping name
\* a launch, Stopped and Exited name none, and a pid comes with its group and
\* with a waiter that will report its exit.
StatusCoherent ==
    /\ state = "running" => pid # NoPid
    /\ state \in {"stopped", "exited"} => pid = NoPid
    /\ pid # NoPid => pgid = pid
    /\ pid # NoPid =>
          \/ observer.group = pid /\ observer.pc \in {"wait", "reaped"}
          \/ \E t \in Threads : child[t] = pid /\ pc[t] \in {"spawn", "unwind_reap", "unwind"}

\* The observer signals only what is left of its own launch: while it cleans up,
\* its process group id has not been given to a later launch
\* (CleanupProcessGroupAfterLeaderExit, JoinObserverThread in StartOperation).
CleanupSparesNextLaunch ==
    observer.pc \in {"probe", "term", "grace", "kill", "forced", "clear"} =>
        leader[observer.group] = "none"

\* No descendant is forgotten: a process group with members is the recorded one,
\* or that of the launch in progress, or has been sent SIGKILL, or was left by a
\* handshake abandoned after exec (StartOperation kills the leader only).
GroupAccounted ==
    \A p \in kin :
        \/ pgid = p
        \/ \E t \in Threads : LeaderIsChildOf(p, t)
        \/ p \in doomedKin
        \/ p \in strays

-----------------------------------------------------------------------------
(* Action properties *)

NothingAlive ==
    /\ \A p \in Pids : leader[p] = "none"
    /\ kin \subseteq strays \cup doomedKin

\* Stop that returns true has emptied the service: nothing recorded and no
\* process of any launch left, but for what already has its SIGKILL
\* (StopOperation, WaitForObservedExitAndProcessGroup).
StopOkLeavesNothing ==
    [][\A t \in Threads : StopJoin(t) /\ call[t] # "restart"
          => pid' = NoPid /\ pgid' = NoPid /\ NothingAlive']_vars

\* An exit during a stop or a restart is never published as Exited, the state
\* from which recovery counts a crash; and Exited is published only while the
\* operator wants the service to run (MarkChildExitedLocked).
ExitKeepsIntent ==
    [][state # "exited" /\ state' = "exited"
          => /\ desired = "running"
             /\ \A t \in Threads : pc[t] \notin StopPcs \ {"want_running", "mark"}]_vars

\* Stop that returns true leaves the state Stopped: "Stopping --> Stopped" when
\* a manual stop completes (docs/state-machine.md).
StopOkIsStopped ==
    [][\A t \in Threads : StopJoin(t) /\ call[t] = "stop" => state' = "stopped"]_vars

\* A supervisor that is gone has left no child unreaped (~ProcessSupervisor).
DestructorReaps ==
    (\E t \in Threads : pc[t] = "destroyed") => \A p \in Pids : leader[p] = "none"

-----------------------------------------------------------------------------
(* What callers are promised *)

\* The phase of the operation in progress.
Phase == IF \E t \in Threads : pc[t] \in StartPcs THEN "start"
         ELSE IF \E t \in Threads : pc[t] \in StopPcs THEN "stop" ELSE "none"

Lifecycle == INSTANCE ServiceLifecycle WITH up <- pid # NoPid, busy <- Phase

\* Every step of the supervisor is a step of ServiceLifecycle or changes nothing
\* a caller can see.
LifecycleImplemented == Lifecycle!Spec

-----------------------------------------------------------------------------
(* Liveness *)

\* Every call that holds operation_mutex_ returns: the handshake, the stop, the
\* reaping and the joins are all bounded (StartOperation, StopOperation).
OperationsReturn == \A t \in Threads : InOperation(t) ~> ~InOperation(t)

\* A leader that ended is reaped and its exit published (ObserveChildExit).
ExitIsPublished == \A p \in Pids : pid = p /\ leader[p] = "zombie" ~> pid # p

=============================================================================
