------------------------ MODULE ProcessSupervisorInv ------------------------
(***************************************************************************)
(* The inductive strengthening of the safety invariants of                 *)
(* ProcessSupervisor; the proofs are in ProcessSupervisorProofs.           *)
(***************************************************************************)
EXTENDS ProcessSupervisor

\* A thread inside an operation holds operation_mutex_.
MutexInv == \A t \in Threads : pc[t] \in StartPcs \cup StopPcs => holder = t

\* From the check of pid_ to RecordLaunch the recorded pid stays empty, and from
\* the check of process_group_id_ so do the group and the state Starting.
BeforeRecordPcs == {"join_old", "begin", "fork", "fail"} \cup ChildPcs
StartingPcs     == {"fork", "fail"} \cup ChildPcs

NothingRecorded ==
    \A t \in Threads :
        /\ pc[t] \in BeforeRecordPcs => pid = NoPid
        /\ pc[t] \in StartingPcs => pgid = NoPid /\ state = "starting"

\* No observer runs from the join to SpawnObserver.
UnwatchedPcs == {"begin", "spawn", "unwind_reap", "unwind"} \cup StartingPcs

NoObserverYet == \A t \in Threads : pc[t] \in UnwatchedPcs => observer.pc = "none"

\* A starting thread that has forked names its child.
HasChildPcs == ChildPcs \cup {"spawn", "unwind_reap", "unwind", "publish"}

ChildIsPid == \A t \in Threads : pc[t] \in HasChildPcs => child[t] \in Pids

\* What became of the child a starting thread holds.
ChildInv ==
    \A t \in Threads :
        /\ pc[t] \in ChildPcs \cup {"spawn", "unwind_reap"} => leader[child[t]] # "none"
        /\ pc[t] \in {"spawn", "unwind_reap", "unwind"} => pid = child[t]
        /\ pc[t] = "unwind" => leader[child[t]] = "none"
        /\ pc[t] \in {"reap", "unwind_reap"} /\ leader[child[t]] \in {"child", "service"}
              => \/ child[t] \in doomedLeader
                 \/ pc[t] = "reap" /\ pipe[child[t]] = "error"
        /\ pc[t] = "reap" /\ child[t] \in kin => child[t] \in strays
        /\ pc[t] \in {"unwind_reap", "unwind"} /\ child[t] \in kin
              => child[t] \in doomedKin

\* No launch is recorded while a stop waits for its target, and none after it.
TargetInv ==
    \A t \in Threads :
        /\ pc[t] \in {"term", "grace", "kill", "forced", "refused"}
              => pid \in {tpid[t], NoPid} /\ pgid \in {tgid[t], NoPid}
        /\ pc[t] = "join_stopped" => pid = NoPid /\ pgid = NoPid

\* The observer thread and the launch it was started for.
ObserverInv ==
    /\ observer.pc # "none" => observer.group \in Pids
    /\ observer.pc = "wait" => leader[observer.group] # "none"
    /\ observer.pc \in {"wait", "reaped"} => pid = observer.group
    /\ observer.pc \in ObserverPcs \ {"none", "wait", "done"}
          => leader[observer.group] = "none"

\* Only an exec'd leader has descendants, and a child that reported never execs.
PipeInv ==
    \A p \in Pids :
        /\ leader[p] = "child" => p \notin kin
        /\ leader[p] # "none" /\ pipe[p] = "error" => leader[p] # "service" /\ p \notin kin

IInv ==
    /\ TypeOK
    /\ ChildIsPid
    /\ MutexInv
    /\ NothingRecorded
    /\ NoObserverYet
    /\ ChildInv
    /\ TargetInv
    /\ ObserverInv
    /\ PipeInv
    /\ StatusCoherent
    /\ LeaderAccounted
    /\ GroupAccounted

\* The destructor is the last call: it does not start anything, and nobody else is
\* in the supervisor.
LastCall ==
    \A t \in Threads :
        /\ call[t] = "destroy" => /\ pc[t] \in {"lock"} \cup (StopPcs \ {"want_running"}) \cup EndPcs
                                  /\ \A u \in Threads \ {t} : pc[u] = "idle"
        /\ pc[t] \in EndPcs => call[t] = "destroy"

\* What makes DestructorReaps hold: the destructor has joined the observer.
EndInv ==
    /\ LastCall
    /\ \A t \in Threads : pc[t] = "destroyed" => observer.pc = "none"

\* What an operation knows of the state and the intent, until it returns: only an
\* exit that is observed changes the state under its hands.
LaunchedPcs == {"spawn", "unwind_reap", "unwind"}
StoppingPcs == {"term", "grace", "kill", "forced", "refused"}

StateInv ==
    /\ state = "starting" =>
          \E t \in Threads : pc[t] \in StartingPcs \cup LaunchedPcs \cup {"publish"}
    /\ \A t \in Threads :
          /\ pc[t] \in StartPcs \ {"check"} => desired = "running"
          /\ pc[t] \in LaunchedPcs => state = "starting"
          /\ pc[t] = "publish" => \/ pid = child[t] /\ state = "starting"
                                  \/ pid = NoPid /\ state = "exited"
          /\ pc[t] \in StoppingPcs /\ pid = tpid[t] => state = "stopping"

=============================================================================
