---------------------------- MODULE HttpServerInv ----------------------------
(***************************************************************************)
(* The inductive invariants of HttpServer.  What they say of one session,  *)
(* of the executor and of who joins the I/O threads holds of every         *)
(* instance; the rest needs callers that do not overlap, or handlers that  *)
(* do not throw.                                                           *)
(***************************************************************************)
EXTENDS HttpServer

-----------------------------------------------------------------------------
(* Of every instance *)

\* The thread whose Wait has taken the I/O threads, from then until it returns.
WaitPcs == {"waitExec", "waitDrain", "waitPost", "waitIo", "waitEnd"}
InWait(t) == pc[t].at \in WaitPcs

\* The I/O threads run only while the server owns them or one thread waits for them.
OneJoins ==
    /\ waiting <=> \E t \in Thread : InWait(t)
    /\ \A t, u \in Thread : InWait(t) /\ InWait(u) => t = u
    /\ waiting => ~ioOwned
    /\ ioUp => ioOwned \/ waiting
    /\ \A t \in Thread : pc[t].at = "waitEnd" => ~ioUp

\* Once the executor is drained nothing enters it, and only then can a stop complete.
DrainedStays ==
    /\ IsFiniteSet(accepted)
    /\ \A t \in Thread :
          /\ pc[t].at \in WaitPcs \ {"waitExec"} => ~open
          /\ pc[t].at \in WaitPcs \ {"waitExec", "waitDrain"} => drained
    /\ drained => ~open /\ accepted = {} /\ uncounted = 0
    /\ completed => drained

ServerInv == OneJoins /\ DrainedStays

\* The handlers that carry on a session's exchange: of these, of an operation, a request in
\* the executor and a registration, a session has one at most.
Work == SessionHandlers \ {"drain", "close"}
WorkIn(s) == {i \in DOMAIN inbox[s] : inbox[s][i] \in Work}

OneThing(s) ==
    /\ \A i, j \in WorkIn(s) : i = j
    /\ op[s] # "none" \/ s \in accepted => WorkIn(s) = {}
    /\ op[s] # "none" => s \notin accepted
    /\ strandAt = <<"register", s>> =>
          op[s] = "none" /\ s \notin accepted /\ inbox[s] = <<>>

\* A request is with a session that handles it, a write with one that writes, unless it was cut;
\* who is told to close was cut.
Answered(s) ==
    /\ s \in accepted \/ HasResponse(s) =>
          sstate[s] = "handling" \/ (sstate[s] = "closed" /\ s \in cut)
    /\ IsWriting(s) => sstate[s] = "writing" \/ (sstate[s] = "closed" /\ s \in cut)
    /\ "close" \in ToSet(inbox[s]) => s \in cut

SessionInv == \A s \in Session : OneThing(s) /\ Answered(s)

-----------------------------------------------------------------------------
(* When no handler throws *)

\* The I/O threads leave for lack of work only, and nothing gives them work again.
IoIsDone ==
    /\ strandAt = <<"free">> /\ accepts = 0 /\ ~timer /\ accepted = {}
    /\ \A s \in Session : inbox[s] = <<>> /\ op[s] = "none" /\ leaving[s] = "no"

IoInv ==
    /\ ioUp => ~ioStopped
    /\ ioUp /\ ~guard => completed
    /\ ~ioUp => IoIsDone

-----------------------------------------------------------------------------
(* When callers do not overlap *)

\* What the threads may be doing in each state of the server.
CallsFitState ==
    /\ state = "starting" =>
          ~ioOwned /\ ~waiting /\ \A t \in Thread : pc[t].at \in {"idle", "startFails"}
    /\ \A t \in Thread : pc[t].at = "startFails" =>
          state = "starting" /\ \A u \in Thread : u # t => pc[u].at = "idle"
    /\ state = "running" =>
          ioOwned /\ ~stopFlag /\ ~drained /\ \A t \in Thread : pc[t].at = "idle"
    /\ state = "stopping" => stopFlag /\ (ioOwned \/ waiting) /\ (drained => waiting)
    /\ state = "stopped" =>
          ~ioOwned /\ ~waiting /\ \A t \in Thread : pc[t].at \in {"idle", "stopExec", "waitBegin"}

\* The thread that has to schedule StopOnIoContext still owns its turn.
PosterIsFirst ==
    \A t \in Thread :
        /\ pc[t].post => pc[t].at \in {"stopExec", "stopPost"} /\ state = "stopping" /\ ioOwned
        /\ pc[t].at = "stopPost" => pc[t].post

CallsInv ==
    /\ CallsFitState
    /\ PosterIsFirst
    /\ completed => sessions = {}

-----------------------------------------------------------------------------
(* Both *)

\* Between two runs nothing is left but a completion posted too late.
DownIsQuiet ==
    ~ioUp => /\ acceptor = "closed" /\ sessions = {} /\ uncounted = 0
             /\ ToSet(strand) \subseteq {"try"}

\* A stop is on its way to the acceptor from the first RequestStop on, and never before.
StopArrives ==
    /\ state = "running" => ioUp /\ acceptor = "open" /\ "stop" \notin ToSet(strand)
    /\ state = "stopping" =>
          /\ ioUp \/ completed
          /\ acceptor = "closed" \/ "stop" \in ToSet(strand) \/ \E t \in Thread : pc[t].post
    /\ "stop" \in ToSet(strand) => state = "stopping"

StopInv == DownIsQuiet /\ StopArrives

=============================================================================
