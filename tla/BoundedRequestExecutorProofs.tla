-------------------- MODULE BoundedRequestExecutorProofs --------------------
(***************************************************************************)
(* Proofs about BoundedRequestExecutor for any pool, callers, tasks and    *)
(* capacity.                                                               *)
(***************************************************************************)
EXTENDS BoundedRequestExecutorInv, FiniteSetTheorems, TLAPS

-----------------------------------------------------------------------------
(* The deque *)

Elems(q) == {q[i] : i \in DOMAIN q}
Distinct(q) == \A i, j \in DOMAIN q : i # j => q[i] # q[j]

LEMMA EmptyFacts ==
    /\ <<>> \in Seq(Task) /\ Elems(<<>>) = {} /\ Distinct(<<>>)
  BY DEF Elems, Distinct

\* push_back adds one element.
LEMMA PushFacts ==
    ASSUME NEW q \in Seq(Task), NEW t \in Task
    PROVE  /\ Append(q, t) \in Seq(Task)
           /\ Append(q, t) # <<>>
           /\ Elems(Append(q, t)) = Elems(q) \cup {t}
           /\ Distinct(q) /\ t \notin Elems(q) => Distinct(Append(q, t))
<1> DEFINE r == Append(q, t)
<1>1. r \in Seq(Task) /\ Len(r) = Len(q) + 1 /\ Len(q) \in Nat
  OBVIOUS
<1>2. DOMAIN q = 1 .. Len(q) /\ DOMAIN r = 1 .. Len(q) + 1
  BY <1>1
<1>3. \A i \in 1 .. Len(q) : r[i] = q[i]
  OBVIOUS
<1>4. r[Len(q) + 1] = t
  OBVIOUS
<1> HIDE DEF r
<1>5. r # <<>>
  BY <1>1, <1>2
<1>6. \A i \in DOMAIN r : i \in DOMAIN q \/ i = Len(q) + 1
  BY <1>1, <1>2
<1>7. \A i \in DOMAIN q : i \in DOMAIN r /\ i # Len(q) + 1
  BY <1>1, <1>2
<1>8. Len(q) + 1 \in DOMAIN r
  BY <1>1, <1>2
<1>9. Elems(r) = Elems(q) \cup {t}
  BY <1>2, <1>3, <1>4, <1>6, <1>7, <1>8 DEF Elems
<1>10. ASSUME Distinct(q), t \notin Elems(q), NEW i \in DOMAIN r, NEW j \in DOMAIN r, i # j
      PROVE  r[i] # r[j]
  <2>1. CASE i \in DOMAIN q /\ j \in DOMAIN q
    BY <1>2, <1>3, <1>10, <2>1 DEF Distinct
  <2>2. CASE i \in DOMAIN q /\ j = Len(q) + 1
    BY <1>2, <1>3, <1>4, <1>10, <2>2 DEF Elems
  <2>3. CASE i = Len(q) + 1 /\ j \in DOMAIN q
    BY <1>2, <1>3, <1>4, <1>10, <2>3 DEF Elems
  <2> QED BY <1>6, <1>10, <2>1, <2>2, <2>3
<1>11. Distinct(q) /\ t \notin Elems(q) => Distinct(r)
  BY <1>10 DEF Distinct
<1> QED BY <1>1, <1>5, <1>9, <1>11 DEF r

\* pop_front takes the front and leaves the rest.
LEMMA PopFacts ==
    ASSUME NEW q \in Seq(Task), q # <<>>
    PROVE  /\ Head(q) \in Task /\ Tail(q) \in Seq(Task)
           /\ Head(q) \in Elems(q)
           /\ Elems(q) = {Head(q)} \cup Elems(Tail(q))
           /\ Distinct(q) => Head(q) \notin Elems(Tail(q)) /\ Distinct(Tail(q))
<1> DEFINE r == Tail(q)
<1>1. Len(q) \in Nat /\ Len(q) > 0 /\ r \in Seq(Task) /\ Len(r) = Len(q) - 1
  OBVIOUS
<1>2. DOMAIN q = 1 .. Len(q) /\ DOMAIN r = 1 .. Len(q) - 1
  BY <1>1
<1>3. \A i \in 1 .. Len(q) - 1 : r[i] = q[i + 1]
  BY <1>1
<1>4. Head(q) = q[1] /\ q[1] \in Task /\ 1 \in DOMAIN q
  BY <1>1, <1>2
<1> HIDE DEF r
<1>5. \A i \in DOMAIN r : i + 1 \in DOMAIN q /\ i + 1 # 1 /\ r[i] = q[i + 1]
  BY <1>1, <1>2, <1>3
<1>6. \A i \in DOMAIN q : i = 1 \/ (i - 1 \in DOMAIN r /\ r[i - 1] = q[i])
  <2> SUFFICES ASSUME NEW i \in DOMAIN q, i # 1 PROVE i - 1 \in DOMAIN r /\ r[i - 1] = q[i]
    OBVIOUS
  <2>1. i - 1 \in 1 .. Len(q) - 1 /\ (i - 1) + 1 = i
    BY <1>1, <1>2
  <2> QED BY <1>2, <1>3, <2>1
<1>7. Elems(q) = {q[1]} \cup Elems(r)
  <2>1. ASSUME NEW x \in Elems(q) PROVE x \in {q[1]} \cup Elems(r)
    <3>1. PICK i \in DOMAIN q : x = q[i]
      BY <2>1 DEF Elems
    <3> QED BY <1>6, <3>1 DEF Elems
  <2>2. ASSUME NEW x \in Elems(r) PROVE x \in Elems(q)
    <3>1. PICK i \in DOMAIN r : x = r[i]
      BY <2>2 DEF Elems
    <3> QED BY <1>5, <3>1 DEF Elems
  <2>3. q[1] \in Elems(q)
    BY <1>4 DEF Elems
  <2> QED BY <2>1, <2>2, <2>3
<1>8. ASSUME Distinct(q) PROVE q[1] \notin Elems(r)
  <2> SUFFICES ASSUME NEW i \in DOMAIN r, q[1] = r[i] PROVE FALSE
    BY DEF Elems
  <2> QED BY <1>4, <1>5, <1>8 DEF Distinct
<1>9. ASSUME Distinct(q) PROVE Distinct(r)
  <2> SUFFICES ASSUME NEW i \in DOMAIN r, NEW j \in DOMAIN r, i # j PROVE r[i] # r[j]
    BY DEF Distinct
  <2>1. i + 1 # j + 1
    BY <1>1, <1>2
  <2> QED BY <1>5, <1>9, <2>1 DEF Distinct
<1>10. q[1] \in Elems(q)
  BY <1>4 DEF Elems
<1> QED BY <1>1, <1>4, <1>7, <1>8, <1>9, <1>10 DEF r

LEMMA QueuedIsElems == Queued = Elems(tasks)
  BY DEF Queued, Elems

-----------------------------------------------------------------------------
(* Threads and flags: what IInv says beside the counting *)

\* TypeOK but for the counter, whose type rests on the counting.
TypedControl ==
    /\ tasks \in Seq(Task)
    /\ workers \subseteq Worker
    /\ accepting \in BOOLEAN /\ stopRequested \in BOOLEAN
    /\ wpc \in [Worker -> WorkerPcs]
    /\ wtask \in [Worker -> Task \cup {NoTask}]
    /\ joining \subseteq Worker
    /\ opc \in OwnerPcs
    /\ owes \in [Threads -> {"none", "one", "all"}]
    /\ accepted \subseteq Task

LEMMA InitIsTyped == Init => TypedControl
  BY EmptyFacts DEF Init, TypedControl, WorkerPcs, OwnerPcs

\* Every step keeps the types.
LEMMA StepKeepsTypes ==
    ASSUME TypedControl, [Next]_vars
    PROVE  TypedControl'
<1> USE DEF TypedControl, WorkerPcs, OwnerPcs, queueVars, flagVars, workerVars, ownerVars
<1>1. ASSUME NEW c \in Caller, NEW t \in Task, TrySubmit(c, t) PROVE TypedControl'
  <2>1. tasks' \in Seq(Task)
    BY <1>1, PushFacts DEF TrySubmit
  <2> QED BY <1>1, <2>1 DEF TrySubmit
<1>2. ASSUME NEW p \in Caller \cup Worker, RequestStop(p) PROVE TypedControl'
  BY <1>2 DEF RequestStop
<1>3. ASSUME NEW p \in Threads, Notify(p) PROVE TypedControl'
  <2>1. CASE NotifyOne(p)
    BY <2>1 DEF NotifyOne
  <2>2. CASE NotifyAll(p)
    BY <2>2 DEF NotifyAll
  <2> QED BY <1>3, <2>1, <2>2 DEF Notify
<1>4. ASSUME NEW w \in Worker, WorkerTake(w) PROVE TypedControl'
  <2>1. tasks' \in Seq(Task) /\ Head(tasks) \in Task
    BY <1>4, PopFacts DEF WorkerTake
  <2> QED BY <1>4, <2>1 DEF WorkerTake
<1>5. ASSUME NEW w \in Worker, WorkerLeave(w) \/ WorkerSleep(w) \/ TaskEnds(w) \/ SpuriousWakeup(w)
      PROVE  TypedControl'
  BY <1>5 DEF WorkerLeave, WorkerSleep, TaskEnds, SpuriousWakeup
<1>6. ASSUME NEW w \in Worker, WorkerCount(w) PROVE TypedControl'
  BY <1>6 DEF WorkerCount
<1>7. CASE Start \/ WaitBegin
  BY <1>7 DEF Start, WaitBegin
<1>8. ASSUME NEW ws \in SUBSET Worker, StartFails(ws) PROVE TypedControl'
  BY <1>8 DEF StartFails
<1>9. CASE StartFailJoin \/ StartFailJoined \/ StartFailEnd
  BY <1>9 DEF StartFailJoin, StartFailJoined, StartFailEnd
<1>10. CASE WaitTake \/ WaitJoined
  BY <1>10 DEF WaitTake, WaitJoined
<1>11. CASE WaitReset
  BY <1>11, EmptyFacts DEF WaitReset
<1>12. ASSUME NEW w \in Worker, Join(w) PROVE TypedControl'
  BY <1>12 DEF Join
<1>13. CASE UNCHANGED vars
  BY <1>13 DEF vars
<1> QED
  BY <1>1, <1>2, <1>3, <1>4, <1>5, <1>6, <1>7, <1>8, <1>9, <1>10, <1>11, <1>12, <1>13
  DEF Next, WorkerStep, OwnerStep

LEMMA InitIsControlled == Init => Control
  BY TaskAssumption DEF Init, Control, HoldersHaveTask, VectorsOwnThreads, FlagsFollowOwner,
     QueueHasPool, LeaversLeaveNothing, Alive, Held

\* Every step keeps threads, flags and vectors together.
LEMMA StepKeepsControl ==
    ASSUME TypedControl, Control, [Next]_vars
    PROVE  Control'
<1> USE WorkerAssumption, TaskAssumption
<1> USE DEF TypedControl, WorkerPcs, OwnerPcs, Control, HoldersHaveTask, VectorsOwnThreads,
            FlagsFollowOwner, QueueHasPool, LeaversLeaveNothing, Alive, Held,
            queueVars, flagVars, workerVars, ownerVars
<1>1. ASSUME NEW c \in Caller, NEW t \in Task, TrySubmit(c, t) PROVE Control'
  <2>1. tasks' # <<>>
    BY <1>1, PushFacts DEF TrySubmit
  <2>2. accepting /\ ~stopRequested /\ opc = "idle" /\ workers = Worker
    BY <1>1 DEF TrySubmit, MayAccept
  <2> QED BY <1>1, <2>1, <2>2 DEF TrySubmit
<1>2. ASSUME NEW p \in Caller \cup Worker, RequestStop(p) PROVE Control'
  BY <1>2 DEF RequestStop
<1>3. ASSUME NEW p \in Threads, Notify(p) PROVE Control'
  <2>1. CASE NotifyOne(p)
    BY <2>1 DEF NotifyOne
  <2>2. CASE NotifyAll(p)
    BY <2>2 DEF NotifyAll
  <2> QED BY <1>3, <2>1, <2>2 DEF Notify
<1>4. ASSUME NEW w \in Worker, WorkerTake(w) PROVE Control'
  <2>1. Head(tasks) \in Task /\ Head(tasks) # NoTask
    BY <1>4, PopFacts DEF WorkerTake
  <2>2. Alive' = Alive /\ \A v \in Worker : wpc[v] # "gone" /\ wpc'[v] # "gone"
    BY <1>4 DEF WorkerTake
  <2>3. HoldersHaveTask'
    BY <1>4, <2>1 DEF WorkerTake
  <2> QED BY <1>4, <2>2, <2>3 DEF WorkerTake
<1>5. ASSUME NEW w \in Worker, WorkerLeave(w) PROVE Control'
  BY <1>5 DEF WorkerLeave
<1>6. ASSUME NEW w \in Worker, WorkerSleep(w) \/ TaskEnds(w) \/ SpuriousWakeup(w) PROVE Control'
  BY <1>6 DEF WorkerSleep, TaskEnds, SpuriousWakeup
<1>7. ASSUME NEW w \in Worker, WorkerCount(w) PROVE Control'
  BY <1>7 DEF WorkerCount
<1>8. CASE Start
  BY <1>8 DEF Start, MayStart
<1>9. CASE WaitBegin
  BY <1>9 DEF WaitBegin
<1>10. ASSUME NEW ws \in SUBSET Worker, StartFails(ws) PROVE Control'
  BY <1>10 DEF StartFails, MayStart
<1>11. CASE StartFailJoin \/ StartFailJoined \/ StartFailEnd
  BY <1>11 DEF StartFailJoin, StartFailJoined, StartFailEnd
<1>12. CASE WaitTake \/ WaitJoined
  BY <1>12 DEF WaitTake, WaitJoined
<1>13. CASE WaitReset
  BY <1>13 DEF WaitReset
<1>14. ASSUME NEW w \in Worker, Join(w) PROVE Control'
  <2>1. tasks = <<>> /\ tasks' = tasks
    BY <1>14 DEF Join
  <2>2. Alive' = Alive \ {w} /\ Held' = Held
    BY <1>14 DEF Join
  <2> QED BY <1>14, <2>1, <2>2 DEF Join
<1>15. CASE UNCHANGED vars
  BY <1>15 DEF vars
<1> QED
  BY <1>1, <1>2, <1>3, <1>4, <1>5, <1>6, <1>7, <1>8, <1>9, <1>10, <1>11, <1>12, <1>13, <1>14, <1>15
  DEF Next, WorkerStep, OwnerStep

-----------------------------------------------------------------------------
(* Counting *)

\* The same over the operators of the deque lemmas.
CountedElems ==
    /\ Distinct(tasks)
    /\ \A v, w \in Held : v # w => wtask[v] # wtask[w]
    /\ Elems(tasks) \cap Running = {}
    /\ IsFiniteSet(accepted)
    /\ inFlight = Cardinality(accepted)
    /\ accepted = Elems(tasks) \cup Running
    /\ inFlight <= Capacity

LEMMA CountedByElems == Counted <=> CountedElems
  BY QueuedIsElems DEF Counted, RunsOnce, CountIsExact, Distinct, CountedElems

\* A step that moves no task keeps the counting.
LEMMA IdleStepKeepsCounted ==
    ASSUME Counted, UNCHANGED <<tasks, inFlight, accepted, wtask>>, Held' = Held
    PROVE  Counted'
<1>1. Running' = Running /\ Queued' = Queued
  BY DEF Running, Queued
<1> QED BY <1>1 DEF Counted, RunsOnce, CountIsExact

LEMMA SubmitKeepsCounted ==
    ASSUME TypedControl, Control, Counted, NEW c \in Caller, NEW t \in Task, TrySubmit(c, t)
    PROVE  Counted'
<1> USE DEF TypedControl
<1>1. Held' = Held /\ Running' = Running /\ wtask' = wtask
  BY DEF TrySubmit, workerVars, Held, Running
<1>2. CountedElems
  BY CountedByElems
<1>3. /\ t \notin accepted /\ accepted' = accepted \cup {t}
      /\ tasks' = Append(tasks, t) /\ inFlight' = inFlight + 1 /\ inFlight < Capacity
  BY DEF TrySubmit, MayAccept
<1>4. Elems(tasks') = Elems(tasks) \cup {t} /\ Distinct(tasks')
  <2>1. t \notin Elems(tasks) /\ Distinct(tasks)
    BY <1>2, <1>3 DEF CountedElems
  <2> QED BY <1>3, <2>1, PushFacts
<1>5. IsFiniteSet(accepted') /\ Cardinality(accepted') = Cardinality(accepted) + 1
  BY <1>2, <1>3, FS_AddElement DEF CountedElems
<1>6. inFlight' = Cardinality(accepted')
  BY <1>2, <1>3, <1>5 DEF CountedElems
<1>7. inFlight' <= Capacity
  <2>1. inFlight \in Nat
    BY <1>2, FS_CardinalityType DEF CountedElems
  <2> QED BY <1>3, <2>1, CapacityAssumption
<1>8. accepted' = Elems(tasks') \cup Running' /\ Elems(tasks') \cap Running' = {}
  BY <1>1, <1>2, <1>3, <1>4 DEF CountedElems
<1>9. \A v, w \in Held' : v # w => wtask'[v] # wtask'[w]
  BY <1>1, <1>2 DEF CountedElems
<1>10. CountedElems'
  BY <1>4, <1>5, <1>6, <1>7, <1>8, <1>9 DEF CountedElems, Distinct, Elems
<1>11. (Counted <=> CountedElems)'
  BY CountedByElems, PTL
<1> QED BY <1>10, <1>11

\* The front of the queue goes to a worker that held nothing.
LEMMA TakeKeepsCounted ==
    ASSUME TypedControl, Control, Counted, NEW w \in Worker, WorkerTake(w)
    PROVE  Counted'
<1> DEFINE h == Head(tasks)
<1> USE DEF TypedControl
<1>1. CountedElems
  BY CountedByElems
<1>2. /\ w \notin Held /\ Held' = Held \cup {w}
      /\ wtask' = [wtask EXCEPT ![w] = h]
      /\ tasks' = Tail(tasks) /\ inFlight' = inFlight /\ accepted' = accepted
  BY DEF WorkerTake, Held, WorkerPcs
<1>3. /\ Elems(tasks) = {h} \cup Elems(tasks')
      /\ h \notin Elems(tasks') /\ Distinct(tasks')
  BY <1>1, <1>2, PopFacts DEF WorkerTake, CountedElems
<1> HIDE DEF h
<1>4. wtask'[w] = h /\ \A v \in Held : v # w /\ wtask'[v] = wtask[v]
  BY <1>2 DEF Held
<1>5. Running' = Running \cup {h}
  BY <1>2, <1>4 DEF Running
<1>6. h \notin Running
  BY <1>1, <1>3 DEF CountedElems
<1>7. \A v \in Held : wtask[v] # h
  BY <1>6 DEF Running
<1>8. \A u, v \in Held' : u # v => wtask'[u] # wtask'[v]
  BY <1>1, <1>2, <1>4, <1>7 DEF CountedElems
<1>9. accepted' = Elems(tasks') \cup Running' /\ Elems(tasks') \cap Running' = {}
  BY <1>1, <1>2, <1>3, <1>5 DEF CountedElems
<1>10. CountedElems'
  BY <1>1, <1>2, <1>3, <1>8, <1>9 DEF CountedElems, Distinct, Elems
<1>11. (Counted <=> CountedElems)'
  BY CountedByElems, PTL
<1> QED BY <1>10, <1>11

\* The task a worker counts leaves accepted, and no other worker held it.
LEMMA CountKeepsCounted ==
    ASSUME TypedControl, Control, Counted, NEW w \in Worker, WorkerCount(w)
    PROVE  Counted' /\ inFlight' \in Nat
<1> DEFINE k == wtask[w]
<1> USE DEF TypedControl
<1>1. CountedElems
  BY CountedByElems
<1>2. /\ w \in Held /\ Held' = Held \ {w}
      /\ wtask' = [wtask EXCEPT ![w] = NoTask]
      /\ tasks' = tasks /\ inFlight' = inFlight - 1 /\ accepted' = accepted \ {k}
  BY DEF WorkerCount, Held, WorkerPcs
<1>3. k \in Running
  BY <1>2 DEF Running
<1> HIDE DEF k
<1>4. \A v \in Held' : wtask'[v] = wtask[v] /\ wtask[v] # k /\ v \in Held
  BY <1>1, <1>2 DEF CountedElems, Held, k
<1>5. Running' = Running \ {k}
  <2>1. ASSUME NEW x \in Running' PROVE x \in Running \ {k}
    BY <1>4, <2>1 DEF Running
  <2>2. ASSUME NEW x \in Running \ {k} PROVE x \in Running'
    <3>1. PICK v \in Held : x = wtask[v]
      BY <2>2 DEF Running
    <3>2. v \in Held'
      BY <1>2, <2>2, <3>1 DEF k
    <3> QED BY <1>4, <3>1, <3>2 DEF Running
  <2> QED BY <2>1, <2>2
<1>6. k \in accepted /\ k \notin Elems(tasks)
  BY <1>1, <1>3 DEF CountedElems
<1>7. /\ IsFiniteSet(accepted') /\ Cardinality(accepted') = Cardinality(accepted) - 1
      /\ Cardinality(accepted) \in Nat /\ Cardinality(accepted') \in Nat
  BY <1>1, <1>2, <1>6, FS_RemoveElement, FS_CardinalityType DEF CountedElems
<1>8. inFlight' = Cardinality(accepted') /\ inFlight' <= Capacity
  <2>1. inFlight = Cardinality(accepted) /\ inFlight <= Capacity /\ inFlight' = inFlight - 1
    BY <1>1, <1>2 DEF CountedElems
  <2>2. inFlight \in Nat
    BY <1>7, <2>1
  <2>3. inFlight' <= Capacity
    BY <2>1, <2>2, CapacityAssumption
  <2> QED BY <1>7, <2>1, <2>3
<1>9. accepted' = Elems(tasks') \cup Running' /\ Elems(tasks') \cap Running' = {}
  BY <1>1, <1>2, <1>5, <1>6 DEF CountedElems
<1>10. \A u, v \in Held' : u # v => wtask'[u] # wtask'[v]
  BY <1>1, <1>4 DEF CountedElems
<1>11. CountedElems'
  BY <1>1, <1>2, <1>7, <1>8, <1>9, <1>10 DEF CountedElems, Distinct, Elems
<1>12. (Counted <=> CountedElems)'
  BY CountedByElems, PTL
<1> QED BY <1>7, <1>8, <1>11, <1>12

\* When the owner resets, nothing is left to throw away.
LEMMA NothingLeftAtReset ==
    ASSUME TypedControl, Control, Counted
    PROVE  ResetDropsNothing
<1> SUFFICES ASSUME opc = "reset"
             PROVE  /\ tasks = <<>> /\ inFlight = 0 /\ accepted = {}
                    /\ \A w \in Worker : wpc[w] = "none"
  BY DEF ResetDropsNothing
<1>1. Alive = {} /\ tasks = <<>>
  BY DEF Control, VectorsOwnThreads, QueueHasPool
<1>2. \A w \in Worker : wpc[w] = "none"
  BY <1>1 DEF Alive
<1>3. Held = {}
  BY <1>2 DEF Held
<1>4. Running = {} /\ Elems(tasks) = {}
  BY <1>1, <1>3, EmptyFacts DEF Running
<1>5. accepted = {} /\ inFlight = Cardinality(accepted)
  BY <1>4, CountedByElems DEF CountedElems
<1>6. inFlight = 0
  BY <1>5, FS_EmptySet
<1> QED BY <1>1, <1>2, <1>5, <1>6

LEMMA ResetKeepsCounted ==
    ASSUME TypedControl, Control, Counted, WaitReset
    PROVE  Counted'
<1>1. tasks = <<>> /\ inFlight = 0
  BY NothingLeftAtReset DEF ResetDropsNothing, WaitReset
<1>2. UNCHANGED <<tasks, inFlight, accepted, wtask>> /\ Held' = Held
  BY <1>1 DEF WaitReset, workerVars, Held
<1> QED BY <1>2, IdleStepKeepsCounted

-----------------------------------------------------------------------------
(* The invariant *)

FullInv == TypedControl /\ IInv

LEMMA StepKeepsCounted ==
    ASSUME FullInv, [Next]_vars
    PROVE  Counted'
<1> USE DEF FullInv, IInv
<1>1. ASSUME NEW c \in Caller, NEW t \in Task, TrySubmit(c, t) PROVE Counted'
  BY <1>1, SubmitKeepsCounted
<1>2. ASSUME NEW w \in Worker, WorkerTake(w) PROVE Counted'
  BY <1>2, TakeKeepsCounted
<1>3. ASSUME NEW w \in Worker, WorkerCount(w) PROVE Counted'
  BY <1>3, CountKeepsCounted
<1>4. CASE WaitReset
  BY <1>4, ResetKeepsCounted
<1> USE DEF TypedControl, WorkerPcs, queueVars, flagVars, workerVars, ownerVars
<1>5. ASSUME NEW p \in Caller \cup Worker, RequestStop(p) PROVE Counted'
  <2>1. UNCHANGED <<tasks, inFlight, accepted, wtask>> /\ Held' = Held
    BY <1>5 DEF RequestStop, Held
  <2> QED BY <2>1, IdleStepKeepsCounted
<1>6. ASSUME NEW p \in Threads, Notify(p) PROVE Counted'
  <2>1. UNCHANGED <<tasks, inFlight, accepted, wtask>> /\ Held' = Held
    <3>1. CASE NotifyOne(p)
      BY <3>1 DEF NotifyOne, Held
    <3>2. CASE NotifyAll(p)
      BY <3>2 DEF NotifyAll, Held
    <3> QED BY <1>6, <3>1, <3>2 DEF Notify
  <2> QED BY <2>1, IdleStepKeepsCounted
<1>7. ASSUME NEW w \in Worker,
             WorkerLeave(w) \/ WorkerSleep(w) \/ TaskEnds(w) \/ SpuriousWakeup(w)
      PROVE  Counted'
  <2>1. UNCHANGED <<tasks, inFlight, accepted, wtask>> /\ Held' = Held
    BY <1>7 DEF WorkerLeave, WorkerSleep, TaskEnds, SpuriousWakeup, Held
  <2> QED BY <2>1, IdleStepKeepsCounted
<1>8. ASSUME Start \/ \E ws \in SUBSET Worker : StartFails(ws) PROVE Counted'
  <2>1. UNCHANGED <<tasks, inFlight, accepted, wtask>> /\ Alive = {}
    BY <1>8 DEF Start, StartFails, MayStart, Control, VectorsOwnThreads
  <2>2. Held = {} /\ Held' = {}
    BY <1>8, <2>1 DEF Start, StartFails, Held, Alive
  <2> QED BY <2>1, <2>2, IdleStepKeepsCounted
<1>9. CASE WaitBegin \/ StartFailJoin \/ StartFailJoined \/ StartFailEnd \/ WaitTake \/ WaitJoined
  <2>1. UNCHANGED <<tasks, inFlight, accepted, wtask>> /\ Held' = Held
    BY <1>9 DEF WaitBegin, StartFailJoin, StartFailJoined, StartFailEnd, WaitTake, WaitJoined, Held
  <2> QED BY <2>1, IdleStepKeepsCounted
<1>10. ASSUME NEW w \in Worker, Join(w) PROVE Counted'
  <2>1. UNCHANGED <<tasks, inFlight, accepted, wtask>> /\ Held' = Held
    BY <1>10 DEF Join, Held
  <2> QED BY <2>1, IdleStepKeepsCounted
<1>11. CASE UNCHANGED vars
  <2>1. UNCHANGED <<tasks, inFlight, accepted, wtask>> /\ Held' = Held
    BY <1>11 DEF vars, Held
  <2> QED BY <2>1, IdleStepKeepsCounted
<1> QED
  BY <1>1, <1>2, <1>3, <1>4, <1>5, <1>6, <1>7, <1>8, <1>9, <1>10, <1>11
  DEF Next, WorkerStep, OwnerStep

LEMMA InitIsCounted == Init => Counted
<1> SUFFICES ASSUME Init PROVE CountedElems
  BY CountedByElems
<1>1. Held = {} /\ tasks = <<>> /\ inFlight = 0 /\ accepted = {}
  BY DEF Init, Held
<1>2. Running = {}
  BY <1>1 DEF Running
<1>3. Cardinality({}) = 0 /\ IsFiniteSet({})
  BY FS_EmptySet
<1> QED BY <1>1, <1>2, <1>3, EmptyFacts, CapacityAssumption DEF CountedElems

LEMMA FullInvariant == Spec => []FullInv
<1>1. Init => FullInv
  BY InitIsTyped, InitIsControlled, InitIsCounted DEF FullInv, IInv
<1>2. FullInv /\ [Next]_vars => FullInv'
  BY StepKeepsTypes, StepKeepsControl, StepKeepsCounted DEF FullInv, IInv
<1> QED BY <1>1, <1>2, PTL DEF Spec

\* Every variable keeps its type; the counter never runs below zero (WorkerLoop, Wait).
THEOREM TypeCorrect == Spec => []TypeOK
<1>1. FullInv => TypeOK
  <2> SUFFICES ASSUME FullInv PROVE TypeOK
    OBVIOUS
  <2>1. inFlight \in Nat
    BY CountedByElems, FS_CardinalityType DEF FullInv, IInv, CountedElems
  <2> QED BY <2>1 DEF FullInv, TypedControl, TypeOK
<1> QED BY <1>1, FullInvariant, PTL

\* The counter is exact and within capacity_, for any number of workers, callers and tasks.
THEOREM CountIsKept == Spec => []CountIsExact
<1>1. FullInv => CountIsExact
  BY DEF FullInv, IInv, Counted
<1> QED BY <1>1, FullInvariant, PTL

\* A task is queued once or held by one worker.
THEOREM TasksRunOnce == Spec => []RunsOnce
<1>1. FullInv => RunsOnce
  BY DEF FullInv, IInv, Counted
<1> QED BY <1>1, FullInvariant, PTL

\* Wait's final clear and zero throw nothing away.
THEOREM WaitDropsNothing == Spec => []ResetDropsNothing
<1>1. FullInv => ResetDropsNothing
  BY NothingLeftAtReset DEF FullInv, IInv
<1> QED BY <1>1, FullInvariant, PTL

-----------------------------------------------------------------------------
(* Nobody sleeps over a backlog *)

Asleep == {w \in Worker : wpc[w] = "asleep"}

\* BacklogInv over the two counts.
LEMMA BacklogByCounts ==
    BacklogInv <=> /\ IsFiniteSet(Owing)
                   /\ Asleep # {} => Len(tasks) <= Cardinality(Testing) + Cardinality(Owing)
BY DEF BacklogInv, NoIdleBacklog, Asleep, Testing, Owing

LEMMA CountsAreNaturals ==
    ASSUME tasks \in Seq(Task), IsFiniteSet(Owing)
    PROVE  /\ IsFiniteSet(Testing) /\ Cardinality(Testing) \in Nat
           /\ Cardinality(Owing) \in Nat /\ Len(tasks) \in Nat
<1>1. IsFiniteSet(Testing)
  BY WorkerAssumption, FS_Subset DEF Testing
<1> QED BY <1>1, FS_CardinalityType

\* With nothing queued, or with nobody asleep, there is nothing to serve.
LEMMA NothingToServe ==
    ASSUME tasks \in Seq(Task), IsFiniteSet(Owing), tasks = <<>> \/ Asleep = {}
    PROVE  BacklogInv
<1>1. tasks = <<>> => Len(tasks) = 0
  OBVIOUS
<1> QED BY <1>1, CountsAreNaturals, BacklogByCounts

\* More tests and more notifications under way do no harm.
LEMMA MoreToCome ==
    ASSUME TypedControl, TypedControl', BacklogInv, tasks' = tasks, IsFiniteSet(Owing'),
           Asleep' \subseteq Asleep, Testing \subseteq Testing', Owing \subseteq Owing'
    PROVE  BacklogInv'
<1>1. /\ IsFiniteSet(Owing)
      /\ Asleep # {} => Len(tasks) <= Cardinality(Testing) + Cardinality(Owing)
  BY BacklogByCounts
<1>2. /\ IsFiniteSet(Testing) /\ Cardinality(Testing) \in Nat
      /\ Cardinality(Owing) \in Nat /\ Len(tasks) \in Nat
  BY <1>1, CountsAreNaturals DEF TypedControl
<1>3. IsFiniteSet(Testing') /\ Cardinality(Testing') \in Nat /\ Cardinality(Owing') \in Nat
  <2>1. IsFiniteSet(Testing')
    BY WorkerAssumption, FS_Subset DEF Testing
  <2> QED BY <2>1, FS_CardinalityType
<1>4. Cardinality(Testing) <= Cardinality(Testing') /\ Cardinality(Owing) <= Cardinality(Owing')
  BY <1>3, FS_Subset
<1>5. Asleep' # {} => Len(tasks') <= Cardinality(Testing') + Cardinality(Owing')
  BY <1>1, <1>2, <1>3, <1>4
<1>6. (BacklogInv <=> /\ IsFiniteSet(Owing)
                      /\ Asleep # {} => Len(tasks) <= Cardinality(Testing) + Cardinality(Owing))'
  BY BacklogByCounts, PTL
<1> QED BY <1>5, <1>6

\* A step that leaves the queue as long as its tests and notifications together allow.
LEMMA CountsMove ==
    ASSUME TypedControl, TypedControl', BacklogInv, IsFiniteSet(Owing'),
           Asleep' # {} =>
               /\ Asleep # {}
               /\ Len(tasks') - Len(tasks) <=
                    (Cardinality(Testing') - Cardinality(Testing))
                        + (Cardinality(Owing') - Cardinality(Owing))
    PROVE  BacklogInv'
<1>1. /\ IsFiniteSet(Owing)
      /\ Asleep # {} => Len(tasks) <= Cardinality(Testing) + Cardinality(Owing)
  BY BacklogByCounts
<1>2. /\ Cardinality(Testing) \in Nat /\ Cardinality(Owing) \in Nat /\ Len(tasks) \in Nat
  BY <1>1, CountsAreNaturals DEF TypedControl
<1>3. /\ Cardinality(Testing') \in Nat /\ Cardinality(Owing') \in Nat /\ Len(tasks') \in Nat
  <2>1. IsFiniteSet(Testing')
    BY WorkerAssumption, FS_Subset DEF Testing
  <2>2. Len(tasks') \in Nat
    BY DEF TypedControl
  <2> QED BY <2>1, <2>2, FS_CardinalityType
<1>4. Asleep' # {} => Len(tasks') <= Cardinality(Testing') + Cardinality(Owing')
  BY <1>1, <1>2, <1>3
<1>5. (BacklogInv <=> /\ IsFiniteSet(Owing)
                      /\ Asleep # {} => Len(tasks) <= Cardinality(Testing) + Cardinality(Owing))'
  BY BacklogByCounts, PTL
<1> QED BY <1>4, <1>5

\* A task comes with its notification.
LEMMA SubmitKeepsBacklog ==
    ASSUME TypedControl, TypedControl', BacklogInv, NEW c \in Caller, NEW t \in Task,
           TrySubmit(c, t)
    PROVE  BacklogInv'
<1> USE DEF TypedControl, workerVars, Threads
<1>1. /\ c \notin Owing /\ Owing' = Owing \cup {c}
      /\ Testing' = Testing /\ Asleep' = Asleep
  BY DEF TrySubmit, Owing, Testing, Asleep
<1>2. IsFiniteSet(Owing') /\ Cardinality(Owing') = Cardinality(Owing) + 1
  BY <1>1, BacklogByCounts, FS_AddElement
<1>3. Len(tasks') = Len(tasks) + 1
  BY DEF TrySubmit
<1>4. Cardinality(Testing) \in Nat /\ Cardinality(Owing) \in Nat /\ Len(tasks) \in Nat
  BY BacklogByCounts, CountsAreNaturals
<1>5. Len(tasks') - Len(tasks) <= (Cardinality(Testing') - Cardinality(Testing))
                                      + (Cardinality(Owing') - Cardinality(Owing))
  BY <1>1, <1>2, <1>3, <1>4
<1> QED BY <1>1, <1>2, <1>5, CountsMove

\* The test that takes a task is one fewer, and so is the queue.
LEMMA TakeKeepsBacklog ==
    ASSUME TypedControl, TypedControl', BacklogInv, NEW w \in Worker, WorkerTake(w)
    PROVE  BacklogInv'
<1> USE DEF TypedControl, ownerVars, flagVars
<1>1. /\ w \in Testing /\ Testing' = Testing \ {w}
      /\ Owing' = Owing /\ Asleep' = Asleep
  BY DEF WorkerTake, Owing, Testing, Asleep
<1>2. IsFiniteSet(Owing) /\ IsFiniteSet(Testing)
  BY BacklogByCounts, CountsAreNaturals
<1>3. Cardinality(Testing') = Cardinality(Testing) - 1
  BY <1>1, <1>2, FS_RemoveElement
<1>4. Len(tasks') = Len(tasks) - 1
  BY DEF WorkerTake
<1>5. Cardinality(Testing) \in Nat /\ Cardinality(Owing) \in Nat /\ Len(tasks) \in Nat
  BY <1>2, CountsAreNaturals
<1>6. Len(tasks') - Len(tasks) <= (Cardinality(Testing') - Cardinality(Testing))
                                      + (Cardinality(Owing') - Cardinality(Owing))
  BY <1>1, <1>3, <1>4, <1>5
<1> QED BY <1>1, <1>2, <1>6, CountsMove

\* A notification is spent on a sleeper, who then tests, or there is none.
LEMMA NotifyOneKeepsBacklog ==
    ASSUME TypedControl, TypedControl', BacklogInv, NEW p \in Threads, NotifyOne(p)
    PROVE  BacklogInv'
<1> USE DEF TypedControl, queueVars
<1>1. p \in Owing /\ Owing' = Owing \ {p} /\ tasks' = tasks
  BY DEF NotifyOne, Owing
<1>2. IsFiniteSet(Owing) /\ IsFiniteSet(Testing)
  BY BacklogByCounts, CountsAreNaturals
<1>3. IsFiniteSet(Owing') /\ Cardinality(Owing') = Cardinality(Owing) - 1
  BY <1>1, <1>2, FS_RemoveElement
<1>4. ASSUME NEW w \in Worker, wpc[w] = "asleep", wpc' = [wpc EXCEPT ![w] = "test"]
      PROVE  BacklogInv'
  <2>1. /\ w \notin Testing /\ Testing' = Testing \cup {w}
        /\ w \in Asleep
    BY <1>4 DEF Testing, Asleep
  <2>2. Cardinality(Testing') = Cardinality(Testing) + 1
    BY <1>2, <2>1, FS_AddElement
  <2>3. Cardinality(Testing) \in Nat /\ Cardinality(Owing) \in Nat /\ Len(tasks) \in Nat
    BY <1>2, CountsAreNaturals
  <2>4. Len(tasks') - Len(tasks) <= (Cardinality(Testing') - Cardinality(Testing))
                                        + (Cardinality(Owing') - Cardinality(Owing))
    BY <1>1, <1>3, <2>2, <2>3
  <2> QED BY <1>3, <2>1, <2>4, CountsMove
<1>5. CASE (\A w \in Worker : wpc[w] # "asleep") /\ UNCHANGED wpc
  <2>1. Asleep' = {}
    BY <1>5 DEF Asleep
  <2> QED BY <1>3, <2>1, CountsMove
<1> QED BY <1>4, <1>5 DEF NotifyOne

\* A thread that leaves a queue that is empty, or sleeps on one, leaves nothing behind.
LEMMA EmptyKeepsBacklog ==
    ASSUME TypedControl', IsFiniteSet(Owing'), tasks' = <<>> \/ Asleep' = {}
    PROVE  BacklogInv'
<1>1. (TypedControl /\ IsFiniteSet(Owing) /\ (tasks = <<>> \/ Asleep = {}) => BacklogInv)'
  BY NothingToServe, PTL DEF TypedControl
<1> QED BY <1>1

LEMMA StepKeepsBacklog ==
    ASSUME FullInv, FullInv', BacklogInv, [Next]_vars
    PROVE  BacklogInv'
<1>0. TypedControl /\ TypedControl' /\ IsFiniteSet(Owing)
  BY BacklogByCounts DEF FullInv
<1> USE DEF queueVars, flagVars, workerVars, ownerVars
<1>1. ASSUME NEW c \in Caller, NEW t \in Task, TrySubmit(c, t) PROVE BacklogInv'
  BY <1>0, <1>1, SubmitKeepsBacklog
<1>2. ASSUME NEW p \in Caller \cup Worker \cup {Owner},
             owes[p] = "none", owes' = [owes EXCEPT ![p] = "all"],
             tasks' = tasks, wpc' = wpc
      PROVE  BacklogInv'
  <2>1. /\ Owing' = Owing \cup {p} /\ Testing' = Testing /\ Asleep' = Asleep
    BY <1>0, <1>2 DEF Owing, Testing, Asleep, TypedControl, Threads
  <2>2. IsFiniteSet(Owing')
    BY <1>0, <2>1, FS_AddElement
  <2> QED BY <1>0, <1>2, <2>1, <2>2, MoreToCome
<1>3. ASSUME NEW p \in Threads, NotifyAll(p) PROVE BacklogInv'
  <2>1. Owing' = Owing \ {p} /\ Asleep' = {}
    BY <1>0, <1>3 DEF NotifyAll, Owing, Asleep, TypedControl
  <2>2. IsFiniteSet(Owing')
    BY <1>0, <2>1, FS_RemoveElement
  <2> QED BY <1>0, <2>1, <2>2, EmptyKeepsBacklog
<1>4. ASSUME NEW p \in Threads, NotifyOne(p) PROVE BacklogInv'
  BY <1>0, <1>4, NotifyOneKeepsBacklog
<1>5. ASSUME NEW w \in Worker, WorkerTake(w) PROVE BacklogInv'
  BY <1>0, <1>5, TakeKeepsBacklog
<1>6. ASSUME NEW w \in Worker, WorkerLeave(w) \/ WorkerSleep(w) PROVE BacklogInv'
  <2>1. Owing' = Owing /\ tasks' = <<>>
    BY <1>6 DEF WorkerLeave, WorkerSleep, Owing
  <2> QED BY <1>0, <2>1, EmptyKeepsBacklog
<1>7. ASSUME NEW w \in Worker, WorkerCount(w) \/ TaskEnds(w) \/ SpuriousWakeup(w)
      PROVE  BacklogInv'
  <2>1. /\ tasks' = tasks /\ Owing' = Owing
        /\ Asleep' \subseteq Asleep /\ Testing \subseteq Testing'
    BY <1>0, <1>7 DEF WorkerCount, TaskEnds, SpuriousWakeup, Owing, Asleep, Testing, TypedControl
  <2> QED BY <1>0, <2>1, MoreToCome
<1>8. CASE Start
  <2>1. Owing' = Owing /\ tasks' = <<>>
    BY <1>8 DEF Start, MayStart, Owing
  <2> QED BY <1>0, <2>1, EmptyKeepsBacklog
<1>9. ASSUME NEW ws \in SUBSET Worker, StartFails(ws) PROVE BacklogInv'
  <2>1. Owing' = Owing \cup {Owner} /\ tasks' = <<>>
    BY <1>0, <1>9 DEF StartFails, MayStart, Owing, TypedControl, Threads
  <2>2. IsFiniteSet(Owing')
    BY <1>0, <2>1, FS_AddElement
  <2> QED BY <1>0, <2>1, <2>2, EmptyKeepsBacklog
<1>10. CASE WaitBegin
  BY <1>2, <1>10 DEF WaitBegin
<1>11. ASSUME NEW p \in Caller \cup Worker, RequestStop(p) PROVE BacklogInv'
  BY <1>2, <1>11 DEF RequestStop
<1>12. ASSUME StartFailJoin \/ StartFailJoined \/ StartFailEnd \/ WaitTake \/ WaitJoined \/ UNCHANGED vars
       PROVE  BacklogInv'
  <2>1. tasks' = tasks /\ Owing' = Owing /\ Asleep' = Asleep /\ Testing' = Testing
    BY <1>12 DEF StartFailJoin, StartFailJoined, StartFailEnd, WaitTake, WaitJoined, vars,
       Owing, Asleep, Testing
  <2> QED BY <1>0, <2>1, MoreToCome
<1>13. CASE WaitReset
  <2>1. Owing' = Owing /\ tasks' = <<>>
    BY <1>13 DEF WaitReset, Owing
  <2> QED BY <1>0, <2>1, EmptyKeepsBacklog
<1>14. ASSUME NEW w \in Worker, Join(w) PROVE BacklogInv'
  <2>1. /\ tasks' = tasks /\ Owing' = Owing
        /\ Asleep' \subseteq Asleep /\ Testing \subseteq Testing'
    BY <1>0, <1>14 DEF Join, Owing, Asleep, Testing, TypedControl
  <2> QED BY <1>0, <2>1, MoreToCome
<1> QED
  BY <1>1, <1>3, <1>4, <1>5, <1>6, <1>7, <1>8, <1>9, <1>10, <1>11, <1>12, <1>13, <1>14
  DEF Next, Notify, WorkerStep, OwnerStep

\* While a worker is asleep every queued task has a worker about to test or a notification on
\* its way, for any pool: no wakeup is lost between TrySubmit and WorkerLoop.
THEOREM BacklogIsServed == Spec => []NoIdleBacklog
<1>1. Init => BacklogInv
  <2> SUFFICES ASSUME Init PROVE BacklogInv
    OBVIOUS
  <2>1. Owing = {} /\ Asleep = {} /\ tasks = <<>>
    BY DEF Init, Owing, Asleep
  <2> QED BY <2>1, FS_EmptySet, BacklogByCounts
<1>2. FullInv /\ FullInv' /\ BacklogInv /\ [Next]_vars => BacklogInv'
  BY StepKeepsBacklog
<1>3. BacklogInv => NoIdleBacklog
  BY DEF BacklogInv
<1> QED BY <1>1, <1>2, <1>3, FullInvariant, PTL DEF Spec

-----------------------------------------------------------------------------
(* The executor is a RequestGate *)

LEMMA NoThreadsNoTasks ==
    ASSUME FullInv, Alive = {}
    PROVE  accepted = {}
<1>1. tasks = <<>> /\ Held = {}
  BY DEF FullInv, IInv, Control, QueueHasPool, Held, Alive
<1>2. Running = {} /\ Elems(tasks) = {}
  BY <1>1, EmptyFacts DEF Running
<1> QED BY <1>2, CountedByElems DEF FullInv, IInv, CountedElems

LEMMA SameCardinality == \A S : Gate!Cardinality(S) = Cardinality(S)
  BY DEF Gate!Cardinality, Cardinality

LEMMA StepMapsToGate ==
    ASSUME FullInv, FullInv', [Next]_vars
    PROVE  [Gate!Next]_(Gate!vars)
<1> USE WorkerAssumption DEF FullInv, IInv, TypedControl, Control, VectorsOwnThreads, FlagsFollowOwner
<1> USE DEF queueVars, flagVars, workerVars, ownerVars, OwnerPcs
<1>a. ASSUME UNCHANGED <<accepting, stopRequested, workers, joining, accepted>>
      PROVE  UNCHANGED Gate!vars
  BY <1>a DEF Gate!vars
<1>1. ASSUME NEW c \in Caller, NEW t \in Task, TrySubmit(c, t) PROVE Gate!Next
  <2>1. accepting /\ ~stopRequested /\ accepting' = accepting /\ stopRequested' = stopRequested
    BY <1>1 DEF TrySubmit, MayAccept
  <2>2. t \notin accepted /\ accepted' = accepted \cup {t} /\ inFlight < Capacity
    BY <1>1 DEF TrySubmit, MayAccept
  <2>3. Cardinality(accepted) < Capacity
    BY <2>2, CountedByElems DEF CountedElems
  <2>5. accepting' /\ ~stopRequested'
    BY <2>1
  <2>4. Gate!Admit(t)
    BY <2>1, <2>2, <2>3, <2>5, SameCardinality DEF Gate!Admit
  <2> QED BY <2>4 DEF Gate!Next
<1>2. ASSUME NEW w \in Worker, WorkerCount(w) PROVE Gate!Next
  <2>1. wtask[w] \in Running
    BY <1>2 DEF WorkerCount, Held, Running
  <2>2. wtask[w] \in accepted /\ accepted' = accepted \ {wtask[w]}
    BY <1>2, <2>1, CountedByElems DEF CountedElems, WorkerCount
  <2>3. UNCHANGED <<accepting, stopRequested, workers, joining>>
    BY <1>2 DEF WorkerCount
  <2>4. Gate!Finish(wtask[w])
    BY <2>2, <2>3 DEF Gate!Finish
  <2> QED BY <2>2, <2>4 DEF Gate!Next
<1>3. ASSUME (\E p \in Caller \cup Worker : RequestStop(p)) \/ WaitBegin
      PROVE  Gate!Shut \/ UNCHANGED Gate!vars
  <2>1. /\ ~accepting' /\ stopRequested'
        /\ UNCHANGED <<workers, joining, accepted>>
    BY <1>3 DEF RequestStop, WaitBegin
  <2>2. CASE accepting
    <3>1. ~stopRequested /\ workers # {}
      BY <2>2
    <3> QED BY <2>1, <2>2, <3>1 DEF Gate!Shut
  <2>3. CASE ~accepting
    BY <2>1, <2>3 DEF Gate!vars
  <2> QED BY <2>2, <2>3
<1>4. ASSUME NEW p \in Threads, Notify(p) PROVE UNCHANGED Gate!vars
  BY <1>4, <1>a DEF Notify, NotifyOne, NotifyAll
<1>5. ASSUME NEW w \in Worker,
             WorkerTake(w) \/ WorkerLeave(w) \/ WorkerSleep(w) \/ TaskEnds(w) \/ SpuriousWakeup(w)
      PROVE  UNCHANGED Gate!vars
  BY <1>5, <1>a DEF WorkerTake, WorkerLeave, WorkerSleep, TaskEnds, SpuriousWakeup
<1>6. CASE Start
  <2>1. /\ ~accepting /\ workers = {} /\ joining = {}
        /\ accepting' /\ ~stopRequested' /\ accepted' = accepted
    BY <1>6 DEF Start, MayStart
  <2> QED BY <2>1 DEF Gate!Open, Gate!Next
<1>7. ASSUME NEW ws \in SUBSET Worker, StartFails(ws) PROVE Gate!OpenFails \/ UNCHANGED Gate!vars
  <2>1. /\ ~accepting /\ workers = {} /\ joining = {} /\ ~accepting'
        /\ workers' = ws /\ joining' = joining /\ accepted' = accepted
    BY <1>7 DEF StartFails, MayStart
  <2> QED BY <2>1 DEF Gate!OpenFails, Gate!vars
<1>8. CASE StartFailJoin
  <2>1. /\ ~accepting /\ ~accepting' /\ joining = {} /\ joining' = workers
        /\ workers' = workers /\ accepted' = accepted
    BY <1>8 DEF StartFailJoin
  <2> QED BY <2>1 DEF Gate!vars
<1>9. CASE WaitTake
  <2>1. /\ ~accepting /\ ~accepting' /\ joining = {} /\ joining' = workers
        /\ workers' = {} /\ accepted' = accepted
    BY <1>9 DEF WaitTake
  <2> QED BY <2>1 DEF Gate!vars
<1>10. CASE StartFailJoined \/ WaitJoined
  BY <1>10, <1>a DEF StartFailJoined, WaitJoined
<1>11. CASE WaitReset
  <2>1. ~accepting /\ ~accepting' /\ UNCHANGED <<workers, joining, accepted>>
    BY <1>11 DEF WaitReset
  <2> QED BY <2>1 DEF Gate!vars
<1>12. CASE StartFailEnd
  <2>1. /\ ~accepting /\ ~accepting' /\ joining = {} /\ joining' = {} /\ workers' = {}
        /\ accepted' = accepted /\ Alive = {}
    BY <1>12 DEF StartFailEnd
  <2>2. accepted = {}
    BY <2>1, NoThreadsNoTasks
  <2> QED BY <2>1, <2>2 DEF Gate!vars, Gate!Drained, Gate!Next
<1>13. ASSUME NEW w \in Worker, Join(w) PROVE Gate!Drained \/ UNCHANGED Gate!vars
  <2>1. /\ ~accepting /\ ~accepting' /\ joining # {}
        /\ workers' = workers /\ accepted' = accepted
        /\ opc' = opc /\ opc \in {"join", "failJoin"}
    BY <1>13 DEF Join
  <2>2. CASE workers = {} /\ joining' = {}
    <3>1. Alive' = {}
      BY <2>1, <2>2
    <3>2. (FullInv /\ Alive = {} => accepted = {})'
      BY NoThreadsNoTasks, PTL
    <3>3. accepted' = {}
      BY <3>1, <3>2
    <3> QED BY <2>1, <2>2, <3>3 DEF Gate!Drained
  <2>3. CASE ~(workers = {} /\ joining' = {})
    BY <2>1, <2>3 DEF Gate!vars
  <2> QED BY <2>2, <2>3
<1>14. CASE UNCHANGED vars
  BY <1>14, <1>a DEF vars
<1> QED
  BY <1>1, <1>2, <1>3, <1>4, <1>5, <1>6, <1>7, <1>8, <1>9, <1>10, <1>11, <1>12, <1>13, <1>14
  DEF Next, WorkerStep, OwnerStep, Gate!Next

\* Whatever the threads do, the executor admits, works off and drains as RequestGate says.
THEOREM ExecutorIsRequestGate == Spec => IsRequestGate
<1>1. Init => Gate!Init
  BY DEF Init, Gate!Init
<1>2. FullInv /\ FullInv' /\ [Next]_vars => [Gate!Next]_(Gate!vars)
  BY StepMapsToGate
<1> QED BY <1>1, <1>2, FullInvariant, PTL DEF Spec, IsRequestGate, Gate!Spec

=============================================================================
