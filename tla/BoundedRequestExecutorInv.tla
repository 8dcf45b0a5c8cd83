--------------------- MODULE BoundedRequestExecutorInv ---------------------
(* The inductive invariant of BoundedRequestExecutor. *)
EXTENDS BoundedRequestExecutor

Alive == {w \in Worker : wpc[w] # "none"}

\* A worker holds a task exactly between taking it and counting it.
HoldersHaveTask == \A w \in Worker : w \in Held <=> wtask[w] # NoTask

\* Which vector owns the living threads, by the owner's place.
VectorsOwnThreads ==
    /\ opc \in {"idle", "waitTake", "failed"} => joining = {} /\ Alive = workers
    /\ opc = "join" => workers = {} /\ Alive = joining
    /\ opc = "failJoin" => Alive = joining
    /\ opc = "failEnd" => joining = {} /\ Alive = {}
    /\ opc = "reset" => workers = {} /\ joining = {} /\ Alive = {}

\* The flags during Wait and a failing Start, and while tasks are accepted.
FlagsFollowOwner ==
    /\ opc # "idle" => stopRequested /\ ~accepting
    /\ accepting => ~stopRequested /\ workers = Worker
    /\ (\E w \in Worker : wpc[w] = "gone") => stopRequested /\ ~accepting

\* A failing Start found the executor empty, and a queue has a pool to serve it.
QueueHasPool ==
    /\ opc \in {"failed", "failJoin", "failEnd"} => tasks = <<>>
    /\ tasks # <<>> => Alive # {}

Control ==
    /\ HoldersHaveTask
    /\ VectorsOwnThreads
    /\ FlagsFollowOwner
    /\ QueueHasPool
    /\ LeaversLeaveNothing

Counted ==
    /\ RunsOnce
    /\ IsFiniteSet(accepted)
    /\ CountIsExact

IInv == Control /\ Counted

\* The two sides of NoIdleBacklog: who is about to test, and who still has to notify.
Testing == {w \in Worker : wpc[w] = "test"}
Owing   == {p \in Threads : owes[p] # "none"}

BacklogInv == IsFiniteSet(Owing) /\ NoIdleBacklog

=============================================================================
