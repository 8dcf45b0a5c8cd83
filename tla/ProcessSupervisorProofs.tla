----------------------- MODULE ProcessSupervisorProofs -----------------------
(***************************************************************************)
(* Proofs about ProcessSupervisor for any set of threads and of pids.      *)
(***************************************************************************)
EXTENDS ProcessSupervisorInv, TLAPS

\* Types, together with the one fact they rest on: a child is held where one is used.
Typed == TypeOK /\ ChildIsPid

\* The types, with that fact, are inductive.
LEMMA TypedInvariant == Spec => []Typed
<1> USE NoThreadAssumption, NoPidAssumption, AutoStartAssumption
<1> USE DEF Typed, TypeOK, ChildIsPid, HasChildPcs, ChildPcs, States, Desires, Calls, Results, StartPcs, StopPcs, EndPcs,
            ThreadPcs, ObserverPcs, LeaderStates, PipeStates
<1>1. Init => Typed
  BY DEF Init
<1>2. Typed /\ [Next]_vars => Typed'
  <2> SUFFICES ASSUME Typed, [Next]_vars PROVE Typed'
    OBVIOUS
  <2> USE DEF svcVars, threadVars, osVars, Goto, Continue, Return
  <2>1. ASSUME NEW t \in Threads, NEW c \in Calls, Invoke(t, c) PROVE Typed'
    BY <2>1 DEF Invoke
  <2>2. ASSUME NEW t \in Threads, NEW d \in Desires, SetDesiredState(t, d) PROVE Typed'
    BY <2>2 DEF SetDesiredState
  <2>3. ASSUME NEW t \in Threads, Acquire(t) PROVE Typed'
    BY <2>3 DEF Acquire
  <2>4. ASSUME NEW t \in Threads, StartStep(t) PROVE Typed'
    <3>1. CASE StartCheck(t) \/ StartJoin(t) \/ StartBegin(t) \/ StartRejected(t)
      BY <3>1 DEF StartCheck, StartJoin, StartBegin, StartRejected, JoinObserver
    <3>2. CASE \E p \in Pids : Fork(t, p)
      BY <3>2 DEF Fork, FreePids
    <3>3. CASE ConfirmEof(t) \/ ConfirmError(t) \/ ConfirmTimeout(t)
      BY <3>3 DEF ConfirmEof, ConfirmError, ConfirmTimeout
    <3>6. CASE KillChild(t)
      BY <3>6 DEF KillChild
    <3>4. CASE ReapChild(t) \/ StartFails(t) \/ RecordLaunch(t) \/ SpawnObserver(t)
      BY <3>4 DEF ReapChild, StartFails, RecordLaunch, SpawnObserver
    <3>5. CASE SpawnFails(t) \/ Unwind(t) \/ Publish(t)
      BY <3>5 DEF SpawnFails, Unwind, Publish, SigkillTree
    <3> QED BY <2>4, <3>1, <3>2, <3>3, <3>4, <3>5, <3>6 DEF StartStep
  <2>5. ASSUME NEW t \in Threads, StopStep(t) PROVE Typed'
    <3>1. CASE RestartWantRunning(t) \/ StopMark(t) \/ StopTerm(t) \/ StopSignalRefused(t)
      BY <3>1 DEF RestartWantRunning, StopMark, StopTerm, StopSignalRefused, FinalDesired
    <3>2. CASE StopObserved(t) \/ StopTimeout(t) \/ StopKill(t) \/ StopRefused(t)
      BY <3>2 DEF StopObserved, StopTimeout, StopKill, StopRefused, SigkillTree
    <3>3. CASE StopJoin(t) \/ EndKill(t) \/ EndJoin(t)
      BY <3>3 DEF StopJoin, EndKill, EndJoin, SigkillTree, JoinObserver
    <3> QED BY <2>5, <3>1, <3>2, <3>3 DEF StopStep
  <2>6. CASE ObserverStep
    BY <2>6 DEF ObserverStep, ObserverReap, ObserverRecord, ObserverProbe, ObserverTerm,
       ObserverGroupGone, ObserverTimeout, ObserverKill, ObserverClear, ObserverGoto,
       ExitState, SigkillTree
  <2>7. ASSUME NEW p \in Pids, ProcessStep(p) PROVE Typed'
    <3>1. CASE ExecSucceeds(p) \/ ExecFails(p)
      BY <3>1 DEF ExecSucceeds, ExecFails
    <3>2. CASE LeaderDies(p)
      BY <3>2 DEF LeaderDies
    <3>3. CASE KinForks(p) \/ KinDie(p)
      BY <3>3 DEF KinForks, KinDie
    <3> QED BY <2>7, <3>1, <3>2, <3>3 DEF ProcessStep
  <2>8. CASE UNCHANGED vars
    BY <2>8 DEF vars
  <2> QED
    BY <2>1, <2>2, <2>3, <2>4, <2>5, <2>6, <2>7, <2>8 DEF Next, OperationStep, Gone
<1> QED
  BY <1>1, <1>2, PTL DEF Spec

\* Every variable of the supervisor keeps its type (all of process_supervisor.cpp).
THEOREM TypeCorrect == Spec => []TypeOK
<1>1. Typed => TypeOK
  BY DEF Typed
<1> QED
  BY <1>1, TypedInvariant, PTL


-----------------------------------------------------------------------------
(* The inductive invariant *)

\* What IInv says beyond types.
Linked ==
    /\ MutexInv
    /\ NothingRecorded
    /\ NoObserverYet
    /\ ChildInv
    /\ TargetInv
    /\ ObserverInv
    /\ PipeInv
    /\ StatusCoherent
    /\ LeaderAccounted
    /\ GroupAccounted

\* Every step of StartOperation keeps the links.
LEMMA StartStepKeepsLinked ==
    ASSUME NEW t \in Threads, Typed, Typed', Linked, StartStep(t)
    PROVE  Linked'
<1> USE NoThreadAssumption, NoPidAssumption
<1> USE DEF Typed, TypeOK, ChildIsPid, HasChildPcs, ChildPcs, StartPcs, StopPcs, EndPcs,
            Linked, MutexInv, NothingRecorded, NoObserverYet, ChildInv, TargetInv,
            ObserverInv, PipeInv,
            StatusCoherent, LeaderAccounted, GroupAccounted, LeaderIsChildOf,
            BeforeRecordPcs, StartingPcs, UnwatchedPcs, ObserverPcs,
            svcVars, threadVars, osVars, Goto, Continue, Return, ObserverGoto
<1>1. CASE StartCheck(t)
  BY <1>1 DEF StartCheck
<1>2. CASE StartJoin(t)
  BY <1>2 DEF StartJoin, JoinObserver
<1>3. CASE StartBegin(t)
  BY <1>3 DEF StartBegin
<1>4. CASE StartRejected(t)
  BY <1>4 DEF StartRejected
<1>5. ASSUME NEW p \in Pids, Fork(t, p) PROVE Linked'
  BY <1>5 DEF Fork, FreePids
<1>6. CASE ConfirmEof(t)
  BY <1>6 DEF ConfirmEof
<1>7. CASE ConfirmError(t)
  BY <1>7 DEF ConfirmError
<1>8. CASE ConfirmTimeout(t)
  BY <1>8 DEF ConfirmTimeout
<1>9. CASE KillChild(t)
  BY <1>9 DEF KillChild
<1>10. CASE ReapChild(t)
  BY <1>10 DEF ReapChild
<1>11. CASE StartFails(t)
  BY <1>11 DEF StartFails
<1>12. CASE RecordLaunch(t)
  BY <1>12 DEF RecordLaunch
<1>13. CASE SpawnObserver(t)
  BY <1>13 DEF SpawnObserver
<1>14. CASE SpawnFails(t)
  BY <1>14 DEF SpawnFails, SigkillTree
<1>15. CASE Unwind(t)
  BY <1>15 DEF Unwind
<1>16. CASE Publish(t)
  BY <1>16 DEF Publish
<1> QED BY <1>1, <1>2, <1>3, <1>4, <1>5, <1>6, <1>7, <1>8, <1>9, <1>10, <1>11, <1>12, <1>13, <1>14, <1>15, <1>16 DEF StartStep

\* Every step of Restart, StopOperation and the destructor keeps the links.
LEMMA StopStepKeepsLinked ==
    ASSUME NEW t \in Threads, Typed, Typed', Linked, StopStep(t)
    PROVE  Linked'
<1> USE NoThreadAssumption, NoPidAssumption
<1> USE DEF Typed, TypeOK, ChildIsPid, HasChildPcs, ChildPcs, StartPcs, StopPcs, EndPcs,
            Linked, MutexInv, NothingRecorded, NoObserverYet, ChildInv, TargetInv,
            ObserverInv, PipeInv,
            StatusCoherent, LeaderAccounted, GroupAccounted, LeaderIsChildOf,
            BeforeRecordPcs, StartingPcs, UnwatchedPcs, ObserverPcs,
            svcVars, threadVars, osVars, Goto, Continue, Return, ObserverGoto
<1>1. CASE RestartWantRunning(t)
  BY <1>1 DEF RestartWantRunning
<1>2. CASE StopMark(t)
  BY <1>2 DEF StopMark, FinalDesired
<1>3. CASE StopTerm(t)
  BY <1>3 DEF StopTerm
<1>4. CASE StopSignalRefused(t)
  BY <1>4 DEF StopSignalRefused, ProcessGroupExists
<1>5. CASE StopObserved(t)
  BY <1>5 DEF StopObserved, LeaderWasObserved, ProcessGroupExists
<1>6. CASE StopTimeout(t)
  BY <1>6 DEF StopTimeout
<1>7. CASE StopKill(t)
  BY <1>7 DEF StopKill, SigkillTree
<1>8. CASE StopRefused(t)
  BY <1>8 DEF StopRefused
<1>9. CASE StopJoin(t)
  BY <1>9 DEF StopJoin, JoinObserver
<1>10. CASE EndKill(t)
  BY <1>10 DEF EndKill, SigkillTree
<1>11. CASE EndJoin(t)
  BY <1>11 DEF EndJoin, JoinObserver
<1> QED BY <1>1, <1>2, <1>3, <1>4, <1>5, <1>6, <1>7, <1>8, <1>9, <1>10, <1>11 DEF StopStep

\* Every step of the observer thread keeps the links.
LEMMA ObserverStepKeepsLinked ==
    ASSUME Typed, Typed', Linked, ObserverStep
    PROVE  Linked'
<1> USE NoThreadAssumption, NoPidAssumption
<1> USE DEF Typed, TypeOK, ChildIsPid, HasChildPcs, ChildPcs, StartPcs, StopPcs, EndPcs,
            Linked, MutexInv, NothingRecorded, NoObserverYet, ChildInv, TargetInv,
            ObserverInv, PipeInv,
            StatusCoherent, LeaderAccounted, GroupAccounted, LeaderIsChildOf,
            BeforeRecordPcs, StartingPcs, UnwatchedPcs, ObserverPcs,
            svcVars, threadVars, osVars, Goto, Continue, Return, ObserverGoto
<1>1. CASE ObserverReap
  BY <1>1 DEF ObserverReap
<1>2. CASE ObserverRecord
  BY <1>2 DEF ObserverRecord, ExitState
<1>3. CASE ObserverProbe
  BY <1>3 DEF ObserverProbe, ProcessGroupExists
<1>4. CASE ObserverTerm
  BY <1>4 DEF ObserverTerm
<1>5. CASE ObserverGroupGone
  BY <1>5 DEF ObserverGroupGone, ProcessGroupExists
<1>6. CASE ObserverTimeout
  BY <1>6 DEF ObserverTimeout
<1>7. CASE ObserverKill
  BY <1>7 DEF ObserverKill, SigkillTree
<1>8. CASE ObserverClear
  BY <1>8 DEF ObserverClear, ProcessGroupExists
<1> QED BY <1>1, <1>2, <1>3, <1>4, <1>5, <1>6, <1>7, <1>8 DEF ObserverStep

\* Whatever the launched processes do keeps the links.
LEMMA ProcessStepKeepsLinked ==
    ASSUME NEW p \in Pids, Typed, Typed', Linked, ProcessStep(p)
    PROVE  Linked'
<1> USE NoThreadAssumption, NoPidAssumption
<1> USE DEF Typed, TypeOK, ChildIsPid, HasChildPcs, ChildPcs, StartPcs, StopPcs, EndPcs,
            Linked, MutexInv, NothingRecorded, NoObserverYet, ChildInv, TargetInv,
            ObserverInv, PipeInv,
            StatusCoherent, LeaderAccounted, GroupAccounted, LeaderIsChildOf,
            BeforeRecordPcs, StartingPcs, UnwatchedPcs, ObserverPcs,
            svcVars, threadVars, osVars, Goto, Continue, Return, ObserverGoto
<1>1. CASE ExecSucceeds(p)
  BY <1>1 DEF ExecSucceeds
<1>2. CASE ExecFails(p)
  BY <1>2 DEF ExecFails
<1>3. CASE LeaderDies(p)
  BY <1>3 DEF LeaderDies
<1>4. CASE KinForks(p)
  BY <1>4 DEF KinForks
<1>5. CASE KinDie(p)
  BY <1>5 DEF KinDie
<1> QED BY <1>1, <1>2, <1>3, <1>4, <1>5 DEF ProcessStep

\* Taking the mutex, entering a call and setting the intent.
LEMMA CallStepKeepsLinked ==
    ASSUME NEW t \in Threads, NEW c \in Calls, NEW d \in Desires, Typed, Typed', Linked,
           Invoke(t, c) \/ SetDesiredState(t, d) \/ Acquire(t)
    PROVE  Linked'
<1> USE NoThreadAssumption, NoPidAssumption
<1> USE DEF Typed, TypeOK, ChildIsPid, HasChildPcs, ChildPcs, StartPcs, StopPcs, EndPcs,
            Linked, MutexInv, NothingRecorded, NoObserverYet, ChildInv, TargetInv,
            ObserverInv, PipeInv, StatusCoherent, LeaderAccounted, GroupAccounted,
            LeaderIsChildOf, BeforeRecordPcs, StartingPcs, UnwatchedPcs, ObserverPcs,
            svcVars, threadVars, osVars, Goto
<1>1. CASE Invoke(t, c)
  BY <1>1 DEF Invoke
<1>2. CASE SetDesiredState(t, d)
  BY <1>2 DEF SetDesiredState
<1>3. CASE Acquire(t)
  BY <1>3 DEF Acquire, MutexIsFree
<1> QED BY <1>1, <1>2, <1>3

\* IInv is an invariant (ProcessSupervisorInv says why each part is needed).
THEOREM InductiveInvariant == Spec => []IInv
<1> USE NoThreadAssumption, NoPidAssumption
<1>1. Init => Linked
  BY DEF Init, Linked, MutexInv, NothingRecorded, NoObserverYet, ChildInv, TargetInv,
     ObserverInv, PipeInv, StatusCoherent, LeaderAccounted, GroupAccounted, StartPcs, StopPcs,
     BeforeRecordPcs, StartingPcs, UnwatchedPcs, ChildPcs
<1>2. Typed /\ Typed' /\ Linked /\ [Next]_vars => Linked'
  <2> SUFFICES ASSUME Typed, Typed', Linked, [Next]_vars PROVE Linked'
    OBVIOUS
  <2>1. ASSUME NEW t \in Threads, NEW c \in Calls, Invoke(t, c) PROVE Linked'
    BY <2>1, CallStepKeepsLinked DEF Desires
  <2>2. ASSUME NEW t \in Threads, NEW d \in Desires, SetDesiredState(t, d) PROVE Linked'
    BY <2>2, CallStepKeepsLinked DEF Calls
  <2>3. ASSUME NEW t \in Threads, Acquire(t) PROVE Linked'
    BY <2>3, CallStepKeepsLinked DEF Calls, Desires
  <2>4. ASSUME NEW t \in Threads, OperationStep(t) PROVE Linked'
    BY <2>4, StartStepKeepsLinked, StopStepKeepsLinked DEF OperationStep
  <2>5. CASE ObserverStep
    BY <2>5, ObserverStepKeepsLinked
  <2>6. ASSUME NEW p \in Pids, ProcessStep(p) PROVE Linked'
    BY <2>6, ProcessStepKeepsLinked
  <2>7. CASE UNCHANGED vars
    BY <2>7 DEF vars, svcVars, threadVars, osVars, Linked, MutexInv, NothingRecorded,
       NoObserverYet, ChildInv, TargetInv, ObserverInv, PipeInv, StatusCoherent,
       LeaderAccounted, GroupAccounted, LeaderIsChildOf
  <2> QED
    BY <2>1, <2>2, <2>3, <2>4, <2>5, <2>6, <2>7 DEF Next, Gone
<1>3. Typed /\ Linked => IInv
  BY DEF IInv, Typed, Linked
<1> QED
  BY <1>1, <1>2, <1>3, TypedInvariant, PTL DEF Spec

-----------------------------------------------------------------------------
(* What follows from it *)

\* No leader is lost: it is recorded or in the hands of the Start that forked it
\* (StartOperation, ObserveChildExit).
THEOREM LeaderIsAccounted == Spec => []LeaderAccounted
<1>1. IInv => LeaderAccounted
  BY DEF IInv
<1> QED BY <1>1, InductiveInvariant, PTL

\* Two leaders never exist at once, whatever the callers do (operation_mutex_ and
\* the check of pid_ in StartOperation).
THEOREM OneLeaderAtMost == Spec => []AtMostOneLeader
<1>1. IInv => AtMostOneLeader
  <2> SUFFICES ASSUME IInv, NEW p \in Pids, NEW q \in Pids,
                      leader[p] # "none", leader[q] # "none"
               PROVE  p = q
    BY DEF AtMostOneLeader
  <2> USE DEF IInv, LeaderAccounted, LeaderIsChildOf, NothingRecorded, MutexInv,
              BeforeRecordPcs, StartPcs, ChildPcs
  <2>1. CASE pid = p
    BY <2>1, NoPidAssumption
  <2>2. CASE pid = q
    BY <2>2, NoPidAssumption
  <2>3. CASE pid # p /\ pid # q
    BY <2>3
  <2> QED BY <2>1, <2>2, <2>3
<1> QED BY <1>1, InductiveInvariant, PTL

\* waitpid never finds its child reaped by somebody else (ObserveChildExit,
\* ReapChildBlocking).
THEOREM ReaperIsAlone == Spec => []SoleReaper
<1>1. IInv => SoleReaper
  BY DEF IInv, SoleReaper, ObserverInv, ChildInv, ChildPcs
<1> QED BY <1>1, InductiveInvariant, PTL

\* One GetStatus snapshot is coherent (the sections under state_mutex_).
THEOREM StatusIsCoherent == Spec => []StatusCoherent
<1>1. IInv => StatusCoherent
  BY DEF IInv
<1> QED BY <1>1, InductiveInvariant, PTL

\* An observer never signals the group of a later launch
\* (CleanupProcessGroupAfterLeaderExit, JoinObserverThread).
THEOREM CleanupIsSafe == Spec => []CleanupSparesNextLaunch
<1>1. IInv => CleanupSparesNextLaunch
  BY DEF IInv, CleanupSparesNextLaunch, ObserverInv, ObserverPcs
<1> QED BY <1>1, InductiveInvariant, PTL

\* No descendant is forgotten, but for an abandoned handshake (StartOperation,
\* WaitForObservedExitAndProcessGroup).
THEOREM GroupIsAccounted == Spec => []GroupAccounted
<1>1. IInv => GroupAccounted
  BY DEF IInv
<1> QED BY <1>1, InductiveInvariant, PTL

\* A Stop that returns true leaves nothing recorded and nothing alive but what
\* already has its SIGKILL (StopOperation, WaitForObservedExitAndProcessGroup).
THEOREM StopOkIsComplete == Spec => StopOkLeavesNothing
<1>1. ASSUME IInv, [Next]_vars, NEW t \in Threads, StopJoin(t), call[t] # "restart"
      PROVE  pid' = NoPid /\ pgid' = NoPid /\ NothingAlive'
  <2> USE DEF IInv, StopJoin, svcVars, osVars
  <2>1. pid = NoPid /\ pgid = NoPid /\ holder = t
    BY <1>1 DEF TargetInv, MutexInv, StopPcs
  <2>2. \A u \in Threads : pc[u] \notin ChildPcs
    BY <1>1, <2>1 DEF MutexInv, StartPcs, ChildPcs
  <2>3. ASSUME NEW p \in Pids PROVE leader[p] = "none"
    BY <1>1, <2>1, <2>2, NoPidAssumption DEF LeaderAccounted, LeaderIsChildOf
  <2>4. ASSUME NEW p \in kin PROVE p \in strays \cup doomedKin
    BY <1>1, <2>1, <2>2, NoPidAssumption DEF GroupAccounted, LeaderIsChildOf, TypeOK
  <2>5. UNCHANGED <<pid, pgid, leader, kin, doomedKin, strays>>
    BY <1>1
  <2> QED BY <2>1, <2>3, <2>4, <2>5 DEF NothingAlive
<1>2. IInv /\ [Next]_vars
        => [\A t \in Threads : StopJoin(t) /\ call[t] # "restart"
               => pid' = NoPid /\ pgid' = NoPid /\ NothingAlive']_vars
  BY <1>1
<1> QED BY <1>2, InductiveInvariant, PTL DEF StopOkLeavesNothing, Spec

-----------------------------------------------------------------------------
(* The end *)

\* Every step keeps what the destructor relies on.
LEMMA EndInvKept == IInv /\ IInv' /\ EndInv /\ [Next]_vars => EndInv'
<1> USE NoThreadAssumption, NoPidAssumption
<1> SUFFICES ASSUME IInv, IInv', EndInv, [Next]_vars PROVE EndInv'
  OBVIOUS
<1>0. TypeOK /\ ChildIsPid /\ ObserverInv /\ ChildInv /\ NothingRecorded /\ MutexInv
  BY DEF IInv
<1> USE <1>0 DEF EndInv, LastCall, TypeOK, StartPcs, StopPcs, EndPcs,
            svcVars, threadVars, osVars, Goto, Continue, Return
<1>1. ASSUME NEW t \in Threads, NEW c \in Calls, Invoke(t, c) PROVE EndInv'
  BY <1>1 DEF Invoke
<1>2. ASSUME NEW t \in Threads, NEW d \in Desires, SetDesiredState(t, d) PROVE EndInv'
  BY <1>2 DEF SetDesiredState
<1>3. ASSUME NEW t \in Threads, Acquire(t) PROVE EndInv'
  BY <1>3 DEF Acquire
<1>4. ASSUME NEW t \in Threads, StartStep(t) PROVE EndInv'
  <2>1. CASE StartCheck(t) \/ StartJoin(t) \/ StartBegin(t) \/ StartRejected(t)
    BY <2>1 DEF StartCheck, StartJoin, StartBegin, StartRejected, JoinObserver
  <2>2. CASE \E p \in Pids : Fork(t, p)
    BY <2>2 DEF Fork
  <2>3. CASE ConfirmEof(t) \/ ConfirmError(t) \/ ConfirmTimeout(t) \/ KillChild(t)
    BY <2>3 DEF ConfirmEof, ConfirmError, ConfirmTimeout, KillChild
  <2>4. CASE ReapChild(t) \/ StartFails(t) \/ RecordLaunch(t)
    BY <2>4 DEF ReapChild, StartFails, RecordLaunch
  <2>5. CASE SpawnObserver(t) \/ SpawnFails(t)
    BY <2>5 DEF SpawnObserver, SpawnFails
  <2>6. CASE Unwind(t)
    BY <2>6 DEF Unwind, ChildInv
  <2>7. CASE Publish(t)
    BY <2>7 DEF Publish
  <2> QED BY <1>4, <2>1, <2>2, <2>3, <2>4, <2>5, <2>6, <2>7 DEF StartStep
<1>5. ASSUME NEW t \in Threads, StopStep(t) PROVE EndInv'
  <2>1. CASE RestartWantRunning(t) \/ StopMark(t) \/ StopTerm(t) \/ StopSignalRefused(t)
    BY <2>1 DEF RestartWantRunning, StopMark, StopTerm, StopSignalRefused
  <2>2. CASE StopObserved(t) \/ StopTimeout(t) \/ StopKill(t) \/ StopRefused(t)
    BY <2>2 DEF StopObserved, StopTimeout, StopKill, StopRefused
  <2>3. CASE StopJoin(t) \/ EndKill(t)
    BY <2>3 DEF StopJoin, EndKill, JoinObserver
  <2>4. CASE EndJoin(t)
    BY <2>4 DEF EndJoin, JoinObserver
  <2> QED BY <1>5, <2>1, <2>2, <2>3, <2>4 DEF StopStep
<1>6. CASE ObserverStep
  <2>1. CASE ObserverReap
    BY <2>1 DEF ObserverReap, ObserverGoto
  <2>2. CASE ObserverRecord
    BY <2>2 DEF ObserverRecord, ObserverGoto, ObserverInv
  <2>3. CASE ObserverProbe \/ ObserverTerm \/ ObserverGroupGone
    BY <2>3 DEF ObserverProbe, ObserverTerm, ObserverGroupGone, ObserverGoto
  <2>4. CASE ObserverTimeout \/ ObserverKill \/ ObserverClear
    BY <2>4 DEF ObserverTimeout, ObserverKill, ObserverClear, ObserverGoto
  <2> QED BY <1>6, <2>1, <2>2, <2>3, <2>4 DEF ObserverStep
<1>7. ASSUME NEW p \in Pids, ProcessStep(p) PROVE EndInv'
  BY <1>7 DEF ProcessStep, ExecSucceeds, ExecFails, LeaderDies, KinForks, KinDie
<1>8. CASE UNCHANGED vars
  BY <1>8 DEF vars
<1> QED BY <1>1, <1>2, <1>3, <1>4, <1>5, <1>6, <1>7, <1>8 DEF Next, OperationStep, Gone

\* A supervisor that has been destroyed leaves no child unreaped, also when its Stop
\* had failed (~ProcessSupervisor, JoinObserverThread).
THEOREM DestructionReaps == Spec => []DestructorReaps
<1>1. Init => EndInv
  BY DEF Init, EndInv, LastCall, EndPcs
<1>2. IInv /\ EndInv => DestructorReaps
  <2> SUFFICES ASSUME IInv, EndInv, NEW t \in Threads, pc[t] = "destroyed", NEW p \in Pids
               PROVE  leader[p] = "none"
    BY DEF DestructorReaps
  <2>1. observer.pc = "none" /\ \A u \in Threads \ {t} : pc[u] = "idle"
    BY DEF EndInv, LastCall, EndPcs
  <2>2. pid = NoPid
    BY <2>1 DEF IInv, StatusCoherent
  <2>3. \A u \in Threads : ~LeaderIsChildOf(p, u)
    BY <2>1 DEF LeaderIsChildOf, ChildPcs
  <2> QED BY <2>2, <2>3, NoPidAssumption DEF IInv, LeaderAccounted
<1> QED BY <1>1, <1>2, EndInvKept, InductiveInvariant, PTL DEF Spec

-----------------------------------------------------------------------------
(* What callers are promised *)

\* Every step keeps what operations know of the state.
LEMMA StateInvKept == IInv /\ IInv' /\ StateInv /\ [Next]_vars => StateInv'
<1> USE NoThreadAssumption, NoPidAssumption
<1> SUFFICES ASSUME IInv, IInv', StateInv, [Next]_vars PROVE StateInv'
  OBVIOUS
<1>0. /\ TypeOK /\ ChildIsPid /\ MutexInv /\ NothingRecorded /\ NoObserverYet /\ ChildInv
      /\ TargetInv /\ ObserverInv
  BY DEF IInv
<1> USE <1>0 DEF StateInv, LaunchedPcs, StoppingPcs, StartingPcs, TypeOK, MutexInv,
            StartPcs, StopPcs, ChildPcs, svcVars, threadVars, osVars, Goto, Continue, Return
<1>1. ASSUME NEW t \in Threads, NEW c \in Calls, Invoke(t, c) PROVE StateInv'
  BY <1>1 DEF Invoke
<1>2. ASSUME NEW t \in Threads, NEW d \in Desires, SetDesiredState(t, d) PROVE StateInv'
  BY <1>2 DEF SetDesiredState, MutexIsFree
<1>3. ASSUME NEW t \in Threads, Acquire(t) PROVE StateInv'
  BY <1>3 DEF Acquire
<1>4. ASSUME NEW t \in Threads, StartStep(t) PROVE StateInv'
  <2>1. CASE StartCheck(t)
    BY <2>1 DEF StartCheck
  <2>2. CASE StartJoin(t)
    BY <2>2 DEF StartJoin
  <2>3. CASE StartBegin(t)
    BY <2>3 DEF StartBegin
  <2>4. CASE StartRejected(t)
    BY <2>4 DEF StartRejected
  <2>5. CASE \E p \in Pids : Fork(t, p)
    BY <2>5 DEF Fork
  <2>6. CASE ConfirmEof(t) \/ ConfirmError(t) \/ ConfirmTimeout(t) \/ KillChild(t)
    BY <2>6 DEF ConfirmEof, ConfirmError, ConfirmTimeout, KillChild
  <2>7. CASE ReapChild(t)
    BY <2>7 DEF ReapChild
  <2>8. CASE StartFails(t)
    BY <2>8 DEF StartFails
  <2>9. CASE RecordLaunch(t)
    BY <2>9 DEF RecordLaunch, NothingRecorded
  <2>10. CASE SpawnObserver(t)
    BY <2>10 DEF SpawnObserver, ChildInv
  <2>11. CASE SpawnFails(t)
    BY <2>11 DEF SpawnFails
  <2>12. CASE Unwind(t)
    BY <2>12 DEF Unwind, ChildInv
  <2>13. CASE Publish(t)
    BY <2>13 DEF Publish, ChildIsPid, HasChildPcs
  <2> QED BY <1>4, <2>1, <2>2, <2>3, <2>4, <2>5, <2>6, <2>7, <2>8, <2>9, <2>10, <2>11,
             <2>12, <2>13 DEF StartStep
<1>5. ASSUME NEW t \in Threads, StopStep(t) PROVE StateInv'
  <2>1. CASE RestartWantRunning(t)
    BY <2>1 DEF RestartWantRunning
  <2>2. CASE StopMark(t)
    BY <2>2 DEF StopMark
  <2>3. CASE StopTerm(t) \/ StopSignalRefused(t) \/ StopTimeout(t) \/ StopKill(t)
    BY <2>3 DEF StopTerm, StopSignalRefused, StopTimeout, StopKill
  <2>4. CASE StopObserved(t)
    BY <2>4 DEF StopObserved
  <2>5. CASE StopRefused(t)
    BY <2>5 DEF StopRefused
  <2>6. CASE StopJoin(t)
    BY <2>6 DEF StopJoin
  <2>7. CASE EndKill(t) \/ EndJoin(t)
    BY <2>7 DEF EndKill, EndJoin
  <2> QED BY <1>5, <2>1, <2>2, <2>3, <2>4, <2>5, <2>6, <2>7 DEF StopStep
<1>6. CASE ObserverStep
  <2>1. CASE ObserverRecord
    <3>1. pid = observer.group /\ observer.group \in Pids /\ pid' = NoPid /\ state' = ExitState
      BY <2>1 DEF ObserverRecord, ObserverInv
    <3>2. \A t \in Threads : pc[t] \notin StartingPcs \cup LaunchedPcs
      BY <2>1 DEF ObserverRecord, NoObserverYet, UnwatchedPcs
    <3>3. \A t \in Threads : pc[t] \in StoppingPcs => tpid[t] # NoPid
      BY <3>1 DEF TargetInv
    <3>4. UNCHANGED <<desired, pc, tpid, child>>
      BY <2>1 DEF ObserverRecord
    <3>5. state' # "starting"
      BY <3>1 DEF ExitState
    <3>6. \A t \in Threads : pc[t] = "publish" => state' = "exited"
      <4>1. SUFFICES ASSUME NEW t \in Threads, pc[t] = "publish" PROVE state' = "exited"
        OBVIOUS
      <4>2. desired = "running" /\ state = "starting"
        BY <3>1, <4>1
      <4> QED BY <3>1, <4>2 DEF ExitState
    <3> QED BY <3>1, <3>2, <3>3, <3>4, <3>5, <3>6
  <2>2. CASE ObserverReap \/ ObserverProbe \/ ObserverTerm \/ ObserverGroupGone
    BY <2>2 DEF ObserverReap, ObserverProbe, ObserverTerm, ObserverGroupGone
  <2>3. CASE ObserverTimeout \/ ObserverKill \/ ObserverClear
    BY <2>3 DEF ObserverTimeout, ObserverKill, ObserverClear
  <2> QED BY <1>6, <2>1, <2>2, <2>3 DEF ObserverStep
<1>7. ASSUME NEW p \in Pids, ProcessStep(p) PROVE StateInv'
  BY <1>7 DEF ProcessStep, ExecSucceeds, ExecFails, LeaderDies, KinForks, KinDie
<1>8. CASE UNCHANGED vars
  BY <1>8 DEF vars
<1> QED BY <1>1, <1>2, <1>3, <1>4, <1>5, <1>6, <1>7, <1>8 DEF Next, OperationStep, Gone

LEMMA StateInvariant == Spec => []StateInv
<1>1. Init => StateInv
  BY NoPidAssumption DEF Init, StateInv, LaunchedPcs, StoppingPcs, StartingPcs, StartPcs, ChildPcs
<1> QED BY <1>1, StateInvKept, InductiveInvariant, PTL DEF Spec

\* An exit becomes Exited only while the service is wanted and no stop is at work
\* (MarkChildExitedLocked).
THEOREM ExitsKeepIntent == Spec => ExitKeepsIntent
<1> USE NoPidAssumption
<1>1. ASSUME IInv, StateInv, [Next]_vars, state # "exited", state' = "exited"
      PROVE  /\ desired = "running"
             /\ \A t \in Threads : pc[t] \notin StopPcs \ {"want_running", "mark"}
  <2>1. ObserverRecord
    BY <1>1 DEF Next, Gone, vars, svcVars, Invoke, SetDesiredState, Acquire, OperationStep,
       StartStep, StartCheck, StartJoin, StartBegin, StartRejected, Fork, ConfirmEof,
       ConfirmError, ConfirmTimeout, KillChild, ReapChild, StartFails, RecordLaunch,
       SpawnObserver, SpawnFails, Unwind, Publish, StopStep, RestartWantRunning, StopMark,
       StopTerm, StopSignalRefused, StopObserved, StopTimeout, StopKill, StopRefused,
       StopJoin, EndKill, EndJoin, ObserverStep, ObserverReap, ObserverProbe, ObserverTerm,
       ObserverGroupGone, ObserverTimeout, ObserverKill, ObserverClear, ProcessStep,
       ExecSucceeds, ExecFails, LeaderDies, KinForks, KinDie
  <2>2. pid = observer.group /\ pid \in Pids /\ state' = ExitState
    BY <1>1, <2>1 DEF ObserverRecord, IInv, ObserverInv
  <2>3. desired = "running" /\ state # "stopping"
    BY <1>1, <2>2 DEF ExitState, IInv, TypeOK, Desires
  <2>4. \A t \in Threads : pc[t] \notin StoppingPcs \cup {"join_stopped"}
    BY <1>1, <2>2, <2>3 DEF IInv, TargetInv, StateInv, StoppingPcs
  <2> QED BY <2>3, <2>4 DEF StopPcs, StoppingPcs
<1>2. IInv /\ StateInv /\ [Next]_vars
        => [state # "exited" /\ state' = "exited"
              => /\ desired = "running"
                 /\ \A t \in Threads : pc[t] \notin StopPcs \ {"want_running", "mark"}]_vars
  BY <1>1
<1> QED BY <1>2, StateInvariant, InductiveInvariant, PTL DEF ExitKeepsIntent, Spec

\* The phase, before and after a step, is that of the one thread that holds the mutex.
LEMMA PhaseFacts ==
    ASSUME MutexInv
    PROVE  /\ \A t \in Threads : pc[t] \in StartPcs => Phase = "start"
           /\ \A t \in Threads : pc[t] \in StopPcs => Phase = "stop"
           /\ (\A t \in Threads : pc[t] \notin StartPcs \cup StopPcs) => Phase = "none"
BY DEF MutexInv, Phase, StartPcs, StopPcs

\* A thread inside an operation decides the phase; when it leaves, nobody is inside.
LEMMA PhaseStep ==
    ASSUME IInv, IInv', NEW t \in Threads, NEW l \in ThreadPcs,
           pc[t] \in StartPcs \cup StopPcs, Goto(t, l)
    PROVE  /\ pc[t] \in StartPcs => Phase = "start"
           /\ pc[t] \in StopPcs => Phase = "stop"
           /\ Phase' = IF l \in StartPcs THEN "start" ELSE IF l \in StopPcs THEN "stop" ELSE "none"
<1>1. MutexInv /\ MutexInv' /\ pc \in [Threads -> ThreadPcs]
  BY DEF IInv, TypeOK
<1>2. /\ pc[t] \in StartPcs => Phase = "start"
      /\ pc[t] \in StopPcs => Phase = "stop"
  BY <1>1, PhaseFacts
<1>3. \A u \in Threads : pc'[u] = IF u = t THEN l ELSE pc[u]
  BY <1>1 DEF Goto
<1>4. \A u \in Threads \ {t} : pc'[u] \notin StartPcs \cup StopPcs
  BY <1>1, <1>3 DEF MutexInv
<1>5. StartPcs \cap StopPcs = {}
  BY DEF StartPcs, StopPcs
<1>6. Phase' = IF l \in StartPcs THEN "start" ELSE IF l \in StopPcs THEN "stop" ELSE "none"
  BY <1>3, <1>4, <1>5 DEF Phase
<1> QED BY <1>2, <1>6

\* Where a return leads is outside.
LEMMA ReturnIsOutside ==
    ASSUME IInv, IInv', NEW t \in Threads, NEW r, pc[t] \in StartPcs \cup StopPcs, Return(t, r)
    PROVE  /\ pc[t] \in StartPcs => Phase = "start"
           /\ pc[t] \in StopPcs => Phase = "stop"
           /\ Phase' = "none"
<1> DEFINE l == IF call[t] # "destroy" THEN "idle"
                ELSE IF r = "ok" THEN "end_join" ELSE "end_kill"
<1>1. l \in ThreadPcs /\ l \notin StartPcs /\ l \notin StopPcs
  BY DEF ThreadPcs, StartPcs, StopPcs, EndPcs
<1>2. Goto(t, l)
  BY DEF Return
<1> HIDE DEF l
<1> QED BY <1>1, <1>2, PhaseStep

\* A step of an operation that a caller cannot see.
LEMMA HiddenStep ==
    ASSUME IInv, IInv', NEW t \in Threads, NEW l \in ThreadPcs, Goto(t, l),
           UNCHANGED <<desired, state, pid>>,
           \/ pc[t] \in StartPcs /\ l \in StartPcs
           \/ pc[t] \in StopPcs /\ l \in StopPcs
           \/ pc[t] \notin StartPcs \cup StopPcs /\ l \notin StartPcs \cup StopPcs
    PROVE  UNCHANGED Lifecycle!vars
<1>1. CASE pc[t] \in StartPcs \cup StopPcs
  <2>1. Phase' = Phase
    BY <1>1, PhaseStep DEF StartPcs, StopPcs
  <2> QED BY <2>1 DEF Lifecycle!vars
<1>2. CASE pc[t] \notin StartPcs \cup StopPcs
  <2>1. \A u \in Threads : pc'[u] = IF u = t THEN l ELSE pc[u]
    BY DEF IInv, TypeOK, Goto
  <2>2. Phase' = Phase
    BY <1>2, <2>1 DEF Phase
  <2> QED BY <2>2 DEF Lifecycle!vars
<1> QED BY <1>1, <1>2

\* StartOperation does what the lifecycle allows.
LEMMA StartStepMaps ==
    ASSUME IInv, IInv', StateInv, NEW t \in Threads, StartStep(t)
    PROVE  Lifecycle!Next \/ UNCHANGED Lifecycle!vars
<1> USE NoPidAssumption DEF Continue, svcVars
<1> USE DEF Lifecycle!Next
<1>0. /\ TypeOK /\ ChildIsPid /\ MutexInv /\ NothingRecorded /\ NoObserverYet /\ ChildInv
      /\ StatusCoherent
  BY DEF IInv
<1>a. pc[t] \in {"check", "join_old", "begin"} => state # "starting"
  BY <1>0 DEF StateInv, MutexInv, StartPcs, StartingPcs, ChildPcs, LaunchedPcs
<1>b. StartPcs \subseteq ThreadPcs /\ StopPcs \subseteq ThreadPcs
  BY DEF ThreadPcs
<1>c. pc[t] \in {"begin", "fork", "fail"} \cup ChildPcs => pid = NoPid
  BY <1>0 DEF NothingRecorded, BeforeRecordPcs
<1>d. pc[t] \in {"fork", "fail"} \cup ChildPcs => state = "starting"
  BY <1>0 DEF NothingRecorded, StartingPcs
<1>1. CASE StartCheck(t)
  <2>1. CASE Return(t, "error")
    BY <1>1, <1>a, <2>1, ReturnIsOutside DEF StartCheck, StartPcs, Lifecycle!RefuseStart
  <2>2. CASE Goto(t, "join_old")
    <3>1. Phase' = Phase
      BY <1>1, <1>b, <2>2, PhaseStep DEF StartCheck, StartPcs
    <3> QED BY <1>1, <3>1 DEF StartCheck, Lifecycle!Intend
  <2> QED BY <1>1, <2>1, <2>2 DEF StartCheck
<1>2. CASE StartJoin(t)
  BY <1>2, <1>b, HiddenStep DEF StartJoin, StartPcs
<1>3. CASE StartBegin(t)
  <2>1. CASE Return(t, "error") /\ UNCHANGED state
    <3>1. desired = "running"
      BY <1>3 DEF StartBegin, StateInv, StartPcs
    <3> QED BY <1>3, <1>a, <2>1, <3>1, ReturnIsOutside
         DEF StartBegin, StartPcs, Lifecycle!RefuseStart
  <2>2. CASE Goto(t, "fork") /\ state' = "starting"
    <3>1. Phase = "start" /\ Phase' = "start"
      BY <1>3, <1>b, <2>2, PhaseStep DEF StartBegin, StartPcs
    <3>2. pid = NoPid /\ pid' = NoPid /\ desired' = desired
      BY <1>3, <1>c DEF StartBegin
    <3>3. state \in {"stopped", "exited", "failed", "stopping"}
      BY <1>0, <1>3, <1>a, <3>2 DEF StartBegin, TypeOK, States, StatusCoherent
    <3> QED BY <2>2, <3>1, <3>2, <3>3 DEF Lifecycle!EnterStarting
  <2> QED BY <1>3, <2>1, <2>2 DEF StartBegin
<1>4. CASE StartRejected(t)
  BY <1>4, <1>c, <1>d, ReturnIsOutside DEF StartRejected, StartPcs, Lifecycle!StartFails
<1>5. CASE \E p \in Pids : Fork(t, p)
  <2>1. pc[t] = "fork" /\ Goto(t, "confirm") /\ UNCHANGED <<desired, state, pid>>
    BY <1>5 DEF Fork
  <2> QED BY <1>b, <2>1, HiddenStep DEF StartPcs
<1>6. CASE ConfirmEof(t)
  BY <1>6, <1>b, HiddenStep DEF ConfirmEof, StartPcs
<1>7. CASE ConfirmError(t)
  BY <1>7, <1>b, HiddenStep DEF ConfirmError, StartPcs
<1>8. CASE ConfirmTimeout(t)
  BY <1>8, <1>b, HiddenStep DEF ConfirmTimeout, StartPcs
<1>9. CASE KillChild(t)
  BY <1>9, <1>b, HiddenStep DEF KillChild, StartPcs
<1>10. CASE ReapChild(t)
  <2> DEFINE l == IF pc[t] = "reap" THEN "fail" ELSE "unwind"
  <2>1. l \in StartPcs /\ l \in ThreadPcs /\ pc[t] \in StartPcs
    BY <1>10, <1>b DEF ReapChild, StartPcs
  <2>2. Goto(t, l) /\ UNCHANGED <<desired, state, pid>>
    BY <1>10 DEF ReapChild
  <2> HIDE DEF l
  <2> QED BY <2>1, <2>2, HiddenStep
<1>11. CASE StartFails(t)
  BY <1>11, <1>c, <1>d, ReturnIsOutside DEF StartFails, StartPcs, Lifecycle!StartFails
<1>12. CASE RecordLaunch(t)
  <2>1. Phase = "start" /\ Phase' = "start"
    BY <1>12, <1>b, PhaseStep DEF RecordLaunch, StartPcs
  <2>2. pid = NoPid /\ pid' # NoPid /\ state = "starting" /\ UNCHANGED <<desired, state>>
    BY <1>0, <1>12, <1>c, <1>d DEF RecordLaunch, ChildPcs, ChildIsPid, HasChildPcs
  <2> QED BY <2>1, <2>2 DEF Lifecycle!Launch
<1>13. CASE SpawnObserver(t)
  BY <1>13, <1>b, HiddenStep DEF SpawnObserver, StartPcs
<1>14. CASE SpawnFails(t)
  BY <1>14, <1>b, HiddenStep DEF SpawnFails, StartPcs
<1>15. CASE Unwind(t)
  <2>1. pid = child[t] /\ state = "starting"
    BY <1>0, <1>15 DEF Unwind, ChildInv, StateInv, LaunchedPcs
  <2>2. pid' = NoPid /\ state' = "failed" /\ desired' = desired
    BY <1>15, <2>1 DEF Unwind
  <2>3. Phase = "start" /\ Phase' = "none"
    BY <1>15, ReturnIsOutside DEF Unwind, StartPcs
  <2> QED BY <2>1, <2>2, <2>3 DEF Lifecycle!StartFails
<1>16. CASE Publish(t)
  <2>1. child[t] # NoPid
    BY <1>0, <1>16 DEF Publish, ChildIsPid, HasChildPcs
  <2>2. Phase = "start" /\ Phase' = "none" /\ UNCHANGED <<desired, pid>>
    BY <1>16, ReturnIsOutside DEF Publish, StartPcs
  <2>3. IF pid # NoPid THEN state = "starting" /\ state' = "running"
                       ELSE state = "exited" /\ UNCHANGED state
    BY <1>16, <2>1 DEF Publish, StateInv
  <2> QED BY <2>2, <2>3 DEF Lifecycle!StartSucceeds
<1> QED BY <1>1, <1>2, <1>3, <1>4, <1>5, <1>6, <1>7, <1>8, <1>9, <1>10, <1>11, <1>12,
           <1>13, <1>14, <1>15, <1>16 DEF StartStep

\* So do Restart, StopOperation and the destructor.
LEMMA StopStepMaps ==
    ASSUME IInv, IInv', StateInv, NEW t \in Threads, StopStep(t)
    PROVE  Lifecycle!Next \/ UNCHANGED Lifecycle!vars
<1> USE NoPidAssumption DEF Continue, svcVars
<1> USE DEF Lifecycle!Next
<1>0. TypeOK /\ MutexInv /\ TargetInv
  BY DEF IInv
<1>b. StartPcs \subseteq ThreadPcs /\ StopPcs \subseteq ThreadPcs /\ EndPcs \subseteq ThreadPcs
  BY DEF ThreadPcs
<1>1. CASE RestartWantRunning(t)
  <2>1. Phase' = Phase
    BY <1>1, <1>b, PhaseStep DEF RestartWantRunning, StopPcs, StartPcs
  <2> QED BY <1>1, <2>1 DEF RestartWantRunning, Lifecycle!Intend
<1>2. CASE StopMark(t)
  <2> DEFINE d == FinalDesired(t)
  <2>1. d \in {"stopped", "running"} /\ desired' = d /\ UNCHANGED pid
    BY <1>2 DEF StopMark, FinalDesired
  <2>2. CASE Goto(t, "join_stopped") /\ pid = NoPid
             /\ state' = IF d = "stopped" THEN "stopped" ELSE state
    <3>1. Phase = "stop" /\ Phase' = "stop"
      BY <1>2, <1>b, <2>2, PhaseStep DEF StopMark, StopPcs, StartPcs
    <3> HIDE DEF d
    <3>2. Lifecycle!NothingToStop(d)
      BY <2>1, <2>2, <3>1 DEF Lifecycle!NothingToStop
    <3> QED BY <2>1, <3>2
  <2>3. CASE Goto(t, "term") /\ state' = "stopping"
    <3>1. Phase = "stop" /\ Phase' = "stop"
      BY <1>2, <1>b, <2>3, PhaseStep DEF StopMark, StopPcs, StartPcs
    <3> HIDE DEF d
    <3>2. Lifecycle!EnterStopping(d)
      BY <2>1, <2>3, <3>1 DEF Lifecycle!EnterStopping
    <3> QED BY <2>1, <3>2
  <2> QED BY <1>2, <2>2, <2>3 DEF StopMark
<1>3. CASE StopTerm(t)
  BY <1>3, <1>b, HiddenStep DEF StopTerm, StopPcs
<1>4. CASE StopSignalRefused(t)
  BY <1>4, <1>b, HiddenStep DEF StopSignalRefused, StopPcs
<1>5. CASE StopObserved(t)
  BY <1>5, <1>b, HiddenStep DEF StopObserved, StopPcs
<1>6. CASE StopTimeout(t)
  <2>1. PICK l \in {"kill", "refused"} : Goto(t, l)
    BY <1>6 DEF StopTimeout
  <2>2. l \in StopPcs /\ l \in ThreadPcs /\ pc[t] \in StopPcs
    BY <1>6, <1>b DEF StopTimeout, StopPcs
  <2> QED BY <1>6, <2>1, <2>2, HiddenStep DEF StopTimeout
<1>7. CASE StopKill(t)
  BY <1>7, <1>b, HiddenStep DEF StopKill, StopPcs
<1>8. CASE StopRefused(t)
  <2>1. Phase = "stop" /\ Phase' = "none" /\ UNCHANGED <<desired, pid>>
    BY <1>8, ReturnIsOutside DEF StopRefused, StopPcs, StartPcs
  <2>2. CASE pid = tpid[t]
    <3>1. state = "stopping" /\ state' = "failed"
      BY <1>8, <2>2 DEF StopRefused, StateInv, StoppingPcs
    <3> QED BY <2>1, <3>1 DEF Lifecycle!GiveUpStop
  <2>3. CASE pid # tpid[t]
    BY <1>8, <2>1, <2>3 DEF StopRefused, Lifecycle!EndStop
  <2> QED BY <2>2, <2>3
<1>9. CASE StopJoin(t)
  <2>1. CASE Goto(t, "check")
    <3>1. Phase = "stop" /\ Phase' = "start"
      BY <1>9, <1>b, <2>1, PhaseStep DEF StopJoin, StopPcs, StartPcs
    <3> QED BY <1>9, <3>1 DEF StopJoin, Lifecycle!StopThenStart
  <2>2. CASE Return(t, "ok")
    <3>1. Phase = "stop" /\ Phase' = "none"
      BY <1>9, <2>2, ReturnIsOutside DEF StopJoin, StopPcs, StartPcs
    <3> QED BY <1>9, <3>1 DEF StopJoin, Lifecycle!EndStop
  <2> QED BY <1>9, <2>1, <2>2 DEF StopJoin
<1>10. CASE EndKill(t)
  BY <1>10, <1>b, HiddenStep DEF EndKill, EndPcs, StopPcs, StartPcs
<1>11. CASE EndJoin(t)
  BY <1>11, <1>b, HiddenStep DEF EndJoin, EndPcs, StopPcs, StartPcs
<1> QED BY <1>1, <1>2, <1>3, <1>4, <1>5, <1>6, <1>7, <1>8, <1>9, <1>10, <1>11 DEF StopStep

LEMMA StepMapsToLifecycle ==
    ASSUME IInv, IInv', StateInv, [Next]_vars
    PROVE  [Lifecycle!Next]_(Lifecycle!vars)
<1> USE NoThreadAssumption, NoPidAssumption
<1>0. TypeOK /\ MutexInv /\ ObserverInv
  BY DEF IInv
<1>a. ASSUME UNCHANGED <<desired, state, pid, pc>> PROVE UNCHANGED Lifecycle!vars
  BY <1>a DEF Lifecycle!vars, Phase
<1>b. MutexIsFree => Phase = "none"
  BY <1>0 DEF MutexIsFree, MutexInv, Phase
<1>1. ASSUME NEW t \in Threads, NEW c \in Calls, Invoke(t, c) PROVE UNCHANGED Lifecycle!vars
  <2>1. "lock" \in ThreadPcs /\ {"idle", "lock"} \cap (StartPcs \cup StopPcs) = {}
    BY DEF ThreadPcs, StartPcs, StopPcs
  <2> QED BY <1>1, <2>1, HiddenStep DEF Invoke, svcVars
<1>2. ASSUME NEW t \in Threads, NEW d \in Desires, SetDesiredState(t, d)
      PROVE  Lifecycle!Next
  <2>1. Phase = "none" /\ Phase' = Phase
    BY <1>2, <1>b DEF SetDesiredState, threadVars, Phase
  <2>2. Lifecycle!Intend(d)
    BY <1>2, <2>1 DEF SetDesiredState, Lifecycle!Intend
  <2> QED BY <2>1, <2>2 DEF Lifecycle!Next, Desires
<1>3. ASSUME NEW t \in Threads, Acquire(t) PROVE Lifecycle!Next
  <2>1. Phase = "none" /\ UNCHANGED <<desired, state, pid>>
    BY <1>3, <1>b DEF Acquire, svcVars
  <2>2. pc'[t] \in {"check", "want_running", "mark"}
    BY <1>0, <1>3 DEF Acquire, Goto, TypeOK
  <2>3. Phase' \in {"start", "stop"}
    BY <2>2 DEF Phase, StartPcs, StopPcs
  <2> QED BY <2>1, <2>3 DEF Lifecycle!Next, Lifecycle!Begin
<1>4. ASSUME NEW t \in Threads, OperationStep(t)
      PROVE  Lifecycle!Next \/ UNCHANGED Lifecycle!vars
  BY <1>4, StartStepMaps, StopStepMaps DEF OperationStep
<1>5. CASE ObserverStep
  <2>1. CASE ObserverRecord
    <3>1. pid # NoPid /\ pid' = NoPid /\ state' = ExitState /\ UNCHANGED <<desired, pc>>
      BY <1>0, <2>1 DEF ObserverRecord, ObserverInv, threadVars
    <3>2. Phase' = Phase
      BY <3>1 DEF Phase
    <3> QED BY <3>1, <3>2 DEF ExitState, Lifecycle!Exit, Lifecycle!Next
  <2>2. CASE ~ObserverRecord
    BY <1>5, <1>a, <2>2 DEF ObserverStep, ObserverReap, ObserverProbe, ObserverTerm,
       ObserverGroupGone, ObserverTimeout, ObserverKill, ObserverClear, svcVars, threadVars
  <2> QED BY <2>1, <2>2
<1>6. ASSUME NEW p \in Pids, ProcessStep(p) PROVE UNCHANGED Lifecycle!vars
  BY <1>6, <1>a DEF ProcessStep, ExecSucceeds, ExecFails, LeaderDies, KinForks, KinDie,
     svcVars, threadVars
<1>7. CASE UNCHANGED vars
  BY <1>7, <1>a DEF vars, svcVars, threadVars
<1> QED BY <1>1, <1>2, <1>3, <1>4, <1>5, <1>6, <1>7 DEF Next, Gone

\* Whatever callers, services and signals do, a caller of GetStatus sees the state
\* machine of ServiceLifecycle.
THEOREM SupervisorIsLifecycle == Spec => LifecycleImplemented
<1>1. Init => Lifecycle!Init
  BY NoPidAssumption DEF Init, Lifecycle!Init, Phase, StartPcs, StopPcs
<1>2. IInv /\ IInv' /\ StateInv /\ [Next]_vars => [Lifecycle!Next]_(Lifecycle!vars)
  BY StepMapsToLifecycle
<1> QED BY <1>1, <1>2, StateInvariant, InductiveInvariant, PTL
     DEF Spec, LifecycleImplemented, Lifecycle!Spec

=============================================================================
