----------------------------- MODULE HttpServer -----------------------------
(***************************************************************************)
(* HttpServer and HttpSession (apps/agent/src/api/http_server.cpp,         *)
(* http_session.cpp).                                                      *)
(*                                                                         *)
(* Threads call Start, RequestStop and "RequestStop, then Wait" (as Run,   *)
(* the destructor and the agent do).  The I/O threads run the handlers     *)
(* queued on the acceptor's strand and on one strand per session; strands  *)
(* run in parallel, a strand's handlers one after the other.  The request  *)
(* executor appears by its promise (RequestGate): a bound on what is       *)
(* queued or running, a stop, and a Wait that returns when it is drained.  *)
(***************************************************************************)
EXTENDS FiniteSets, Naturals, Sequences, SequencesExt

CONSTANTS
    Thread,          \* threads that call the server
    Session,         \* slots for HttpSession objects, used again after their last handler
    MaxConnections,  \* max_connections
    Capacity,        \* max_in_flight_requests
    MaxStarts,       \* bound: calls of Start that get past its guard
    CallsOverlap,    \* may a Wait overtake another thread's RequestStop, a Start any call?
    IoMayThrow       \* may a handler's exception end the I/O threads?

ASSUME LimitAssumption ==
    /\ Capacity \in Nat \ {0} /\ MaxConnections \in Nat \ {0} /\ MaxStarts \in Nat
    /\ Capacity <= MaxConnections
ASSUME FlagAssumption == CallsOverlap \in BOOLEAN /\ IoMayThrow \in BOOLEAN

VARIABLES
    state,        \* state_
    stopFlag,     \* stop_requested_
    ioOwned,      \* io_workers_ is not empty
    waiting,      \* wait_in_progress_
    drained,      \* handler_executor_drained_
    completed,    \* stop_completion_started_
    starts,       \* which Start made the present executor
    acceptor,     \* acceptor_ is "open" or "closed"
    accepts,      \* async_accept operations outstanding
    timer,        \* shutdown_timer_ is armed
    guard,        \* work_guard_ holds the io_context
    ioUp,         \* threads are inside io_context_.run()
    ioStopped,    \* the io_context is stopped
    strand,       \* handlers queued on the acceptor's strand
    strandAt,     \* where the running one is
    open,         \* the executor accepts
    accepted,     \* sessions whose request is queued or running in it
    uncounted,    \* tasks that posted their response and are still counted
    sessions,     \* sessions_
    sstate,       \* HttpSession::state_, "none" for a free slot
    drainReq,     \* drain_requested_
    closing,      \* close_after_response_
    attached,     \* the socket is open and close_handler_ is there
    op,           \* the session's outstanding read or write
    inbox,        \* handlers queued on the session's strand
    leaving,      \* a RemoveSession that has erased, and has still to test the stop
    pc,           \* where each thread is in its call
    cut           \* history: sessions closed by the deadline, an I/O error or their client

lifeVars == <<state, stopFlag, ioOwned, waiting, drained, completed, starts>>
ioVars == <<acceptor, accepts, timer, guard, ioUp, ioStopped, strandAt>>
execVars == <<open, accepted, uncounted>>
sessionVars == <<sstate, drainReq, closing, attached, op, inbox, leaving, cut>>
vars == <<lifeVars, ioVars, strand, execVars, sessions, sessionVars, pc>>

Idle == [at |-> "idle", exec |-> 0, post |-> FALSE, wait |-> FALSE]
ThreadPcs == {"idle", "startFails", "stopExec", "stopPost", "waitBegin", "waitExec",
              "waitDrain", "waitPost", "waitIo", "waitEnd"}
StrandPcs == {<<"free">>, <<"rearm">>, <<"drain">>, <<"try">>}
StrandHandlers == {"accepted", "acceptError", "stop", "deadline", "try"}
SessionHandlers == {"start", "readOk", "readBad", "readError", "response", "writeOk",
                    "writeError", "drain", "close"}

TypeOK ==
    /\ state \in {"stopped", "starting", "running", "stopping"}
    /\ {stopFlag, ioOwned, waiting, drained, completed, timer, guard, ioUp, ioStopped, open}
           \subseteq BOOLEAN
    /\ starts \in 0 .. MaxStarts
    /\ acceptor \in {"open", "closed"}
    /\ accepts \in Nat /\ uncounted \in Nat
    /\ strand \in Seq(StrandHandlers)
    /\ strandAt \in StrandPcs \cup ({"register"} \X Session)
    /\ accepted \subseteq Session /\ sessions \subseteq Session /\ cut \subseteq Session
    /\ sstate \in [Session -> {"none", "reading", "handling", "writing", "closed"}]
    /\ op \in [Session -> {"none", "read", "write"}]
    /\ inbox \in [Session -> Seq(SessionHandlers)]
    /\ leaving \in [Session -> {"no", "others", "last"}]
    /\ {drainReq, closing, attached} \subseteq [Session -> BOOLEAN]
    /\ pc \in [Thread -> [at : ThreadPcs, exec : 0 .. MaxStarts, post : BOOLEAN,
                     wait : BOOLEAN]]

Init ==
    /\ state = "stopped" /\ stopFlag = FALSE /\ ioOwned = FALSE /\ waiting = FALSE
    /\ drained = FALSE /\ completed = FALSE /\ starts = 0
    /\ acceptor = "closed" /\ accepts = 0 /\ timer = FALSE /\ guard = FALSE
    /\ ioUp = FALSE /\ ioStopped = FALSE /\ strand = <<>> /\ strandAt = <<"free">>
    /\ open = FALSE /\ accepted = {} /\ uncounted = 0
    /\ sessions = {}
    /\ sstate = [s \in Session |-> "none"]
    /\ drainReq = [s \in Session |-> FALSE]
    /\ closing = [s \in Session |-> TRUE]
    /\ attached = [s \in Session |-> FALSE]
    /\ op = [s \in Session |-> "none"]
    /\ inbox = [s \in Session |-> <<>>]
    /\ leaving = [s \in Session |-> "no"]
    /\ pc = [t \in Thread |-> Idle]
    /\ cut = {}

-----------------------------------------------------------------------------
(* Helpers *)

Goto(t, at) == pc' = [pc EXCEPT ![t].at = at]
Post(h) == strand' = Append(strand, h)
InFlight == Cardinality(accepted) + uncounted

\* acceptor_.cancel and close: an outstanding accept completes with operation_aborted.
CloseAcceptor ==
    /\ acceptor' = "closed" /\ accepts' = 0
    /\ strand' = strand \o [i \in 1 .. accepts |-> "acceptError"]

\* What keeps io_context_.run() from returning.
HasWork ==
    \/ guard \/ timer \/ accepts > 0 \/ strand # <<>> \/ strandAt # <<"free">>
    \/ \E s \in Session : inbox[s] # <<>> \/ op[s] # "none" \/ leaving[s] # "no"

\* A slot whose HttpSession nobody refers to any more.
FreeSlot(s) ==
    /\ sstate[s] \in {"none", "closed"} /\ inbox[s] = <<>> /\ op[s] = "none"
    /\ leaving[s] = "no" /\ s \notin accepted \cup sessions
    /\ strandAt # <<"register", s>>

-----------------------------------------------------------------------------
(* Start *)

MayStart(t) ==
    /\ pc[t].at = "idle" /\ starts < MaxStarts
    /\ CallsOverlap \/ \A u \in Thread : pc[u].at = "idle"
    /\ state = "stopped" /\ ~ioOwned /\ ~waiting

\* The lifecycle mutex is held throughout.
Start(t) ==
    /\ MayStart(t)
    /\ state' = "running" /\ stopFlag' = FALSE /\ drained' = FALSE /\ completed' = FALSE
    /\ ioOwned' = TRUE /\ starts' = starts + 1
    /\ acceptor' = "open" /\ accepts' = accepts + 1 /\ guard' = TRUE
    /\ ioUp' = TRUE /\ ioStopped' = FALSE
    /\ open' = TRUE /\ accepted' = {} /\ uncounted' = 0
    /\ UNCHANGED <<waiting, timer, strandAt, strand, sessions, sessionVars, pc>>

\* The port is taken, or threads cannot be created: stopped again, the lock let go between.
StartFails(t) ==
    /\ MayStart(t)
    /\ state' = "starting" /\ stopFlag' = TRUE /\ drained' = FALSE /\ completed' = FALSE
    /\ starts' = starts + 1
    /\ guard' = FALSE /\ ioStopped' = TRUE /\ open' = FALSE
    /\ accepted' = {} /\ uncounted' = 0
    /\ Goto(t, "startFails")
    /\ UNCHANGED <<ioOwned, waiting, acceptor, accepts, timer, ioUp, strandAt, strand,
                   sessions, sessionVars>>

StartFailEnd(t) ==
    /\ pc[t].at = "startFails"
    /\ state' = "stopped"
    /\ CloseAcceptor
    /\ pc' = [pc EXCEPT ![t] = Idle]
    /\ UNCHANGED <<stopFlag, ioOwned, waiting, drained, completed, starts, timer, guard, ioUp,
                   ioStopped, strandAt, execVars, sessions, sessionVars>>

-----------------------------------------------------------------------------
(* RequestStop *)

\* Nothing to stop: on to Wait.
StopIdle(t) ==
    /\ pc[t].at = "idle" /\ state = "stopped"
    /\ Goto(t, "waitBegin")
    /\ UNCHANGED <<lifeVars, ioVars, strand, execVars, sessions, sessionVars>>

\* Mutant: every RequestStop schedules StopOnIoContext.
StopBegin_always(t, wait) ==
    /\ pc[t].at = "idle" /\ state # "stopped"
    /\ CallsOverlap \/ state # "starting"
    /\ state' = "stopping" /\ stopFlag' = TRUE
    /\ pc' = [pc EXCEPT ![t] = [at |-> "stopExec", exec |-> starts, post |-> TRUE, wait |-> wait]]
    /\ UNCHANGED <<ioOwned, waiting, drained, completed, starts, ioVars, strand, execVars,
                   sessions, sessionVars>>

\* The first to stop will schedule StopOnIoContext; everybody stops the executor.
StopBegin(t, wait) ==
    /\ pc[t].at = "idle" /\ state # "stopped"
    /\ CallsOverlap \/ state # "starting"
    /\ state' = "stopping" /\ stopFlag' = TRUE
    /\ pc' = [pc EXCEPT ![t] = [at |-> "stopExec", exec |-> starts,
                                post |-> state # "stopping", wait |-> wait]]
    /\ UNCHANGED <<ioOwned, waiting, drained, completed, starts, ioVars, strand, execVars,
                   sessions, sessionVars>>

AfterStop(t) ==
    pc' = [pc EXCEPT ![t] = IF pc[t].wait THEN [Idle EXCEPT !.at = "waitBegin"] ELSE Idle]

\* The executor it saw under the lock, by now perhaps no longer the server's.
StopExec(t) ==
    /\ pc[t].at = "stopExec"
    /\ open' = (open /\ pc[t].exec # starts)
    /\ IF pc[t].post THEN Goto(t, "stopPost") ELSE AfterStop(t)
    /\ UNCHANGED <<lifeVars, ioVars, strand, accepted, uncounted, sessions, sessionVars>>

StopPost(t) ==
    /\ pc[t].at = "stopPost"
    /\ Post("stop")
    /\ AfterStop(t)
    /\ UNCHANGED <<lifeVars, ioVars, execVars, sessions, sessionVars>>

-----------------------------------------------------------------------------
(* Wait *)

StopScheduled == \A t \in Thread : ~pc[t].post

WaitBegin(t) ==
    /\ pc[t].at = "waitBegin" /\ ~waiting
    /\ CallsOverlap \/ StopScheduled
    /\ IF ioOwned
       THEN waiting' = TRUE /\ ioOwned' = FALSE /\ Goto(t, "waitExec")
       ELSE pc' = [pc EXCEPT ![t] = Idle] /\ UNCHANGED <<waiting, ioOwned>>
    /\ UNCHANGED <<state, stopFlag, drained, completed, starts, ioVars, strand, execVars,
                   sessions, sessionVars>>

\* BoundedRequestExecutor::Wait: stop it, and return when every task is done and counted.
WaitExec(t) ==
    /\ pc[t].at = "waitExec"
    /\ open' = FALSE
    /\ Goto(t, "waitDrain")
    /\ UNCHANGED <<lifeVars, ioVars, strand, accepted, uncounted, sessions, sessionVars>>

WaitDrain(t) ==
    /\ pc[t].at = "waitDrain" /\ InFlight = 0
    /\ drained' = TRUE
    /\ Goto(t, "waitPost")
    /\ UNCHANGED <<state, stopFlag, ioOwned, waiting, completed, starts, ioVars, strand,
                   execVars, sessions, sessionVars>>

WaitPost(t) ==
    /\ pc[t].at = "waitPost"
    /\ Post("try")
    /\ Goto(t, "waitIo")
    /\ UNCHANGED <<lifeVars, ioVars, execVars, sessions, sessionVars>>

\* Mutant: Wait does not join the I/O threads.
WaitIo_unjoined(t) ==
    /\ pc[t].at = "waitIo"
    /\ sessions' = {}
    /\ Goto(t, "waitEnd")
    /\ UNCHANGED <<lifeVars, ioVars, strand, execVars, sessionVars>>

\* The I/O threads are joined, what is left of the sessions is dropped.
WaitIo(t) ==
    /\ pc[t].at = "waitIo" /\ ~ioUp
    /\ sessions' = {}
    /\ Goto(t, "waitEnd")
    /\ UNCHANGED <<lifeVars, ioVars, strand, execVars, sessionVars>>

WaitEnd(t) ==
    /\ pc[t].at = "waitEnd"
    /\ guard' = FALSE /\ ioStopped' = TRUE /\ CloseAcceptor
    /\ state' = "stopped" /\ waiting' = FALSE
    /\ pc' = [pc EXCEPT ![t] = Idle]
    /\ UNCHANGED <<stopFlag, ioOwned, drained, completed, starts, timer, ioUp, strandAt,
                   execVars, sessions, sessionVars>>

ThreadStep(t) ==
    \/ StartFailEnd(t) \/ StopExec(t) \/ StopPost(t)
    \/ WaitBegin(t) \/ WaitExec(t) \/ WaitDrain(t) \/ WaitPost(t) \/ WaitIo(t) \/ WaitEnd(t)

-----------------------------------------------------------------------------
(* The I/O threads *)

Runs == ioUp /\ ~ioStopped

\* run() returns: stopped, or nothing left to do.
IoExit ==
    /\ ioUp /\ strandAt = <<"free">> /\ \A s \in Session : leaving[s] = "no"
    /\ ioStopped \/ ~HasWork
    /\ ioUp' = FALSE /\ ioStopped' = TRUE
    /\ UNCHANGED <<lifeVars, acceptor, accepts, timer, guard, strandAt, strand, execVars,
                   sessions, sessionVars, pc>>

\* A handler throws: RunIoContext records it and stops the others.
IoThrows ==
    /\ IoMayThrow /\ Runs
    /\ state' = IF state = "stopped" THEN state ELSE "stopping"
    /\ stopFlag' = TRUE /\ ioStopped' = TRUE
    /\ UNCHANGED <<ioOwned, waiting, drained, completed, starts, acceptor, accepts, timer,
                   guard, ioUp, strandAt, strand, execVars, sessions, sessionVars, pc>>

\* Bounded by the slots: a connection waits in the backlog until one is free.
ClientConnects ==
    /\ Runs /\ accepts > 0
    /\ "accepted" \notin ToSet(strand) /\ \E s \in Session : FreeSlot(s)
    /\ accepts' = accepts - 1 /\ Post("accepted")
    /\ UNCHANGED <<lifeVars, acceptor, timer, guard, ioUp, ioStopped, strandAt, execVars,
                   sessions, sessionVars, pc>>

AcceptFails ==
    /\ Runs /\ accepts > 0
    /\ accepts' = accepts - 1 /\ Post("acceptError")
    /\ UNCHANGED <<lifeVars, acceptor, timer, guard, ioUp, ioStopped, strandAt, execVars,
                   sessions, sessionVars, pc>>

GraceEnds ==
    /\ Runs /\ timer
    /\ timer' = FALSE /\ Post("deadline")
    /\ UNCHANGED <<lifeVars, acceptor, accepts, guard, ioUp, ioStopped, strandAt, execVars,
                   sessions, sessionVars, pc>>

-----------------------------------------------------------------------------
(* Handlers on the acceptor's strand *)

Take(h) == Runs /\ strandAt = <<"free">> /\ strand # <<>> /\ Head(strand) = h
Took == strand' = Tail(strand)
At(p) == ioUp /\ strandAt = p

\* HandleAccept up to RegisterSession; a slot must be free for the new HttpSession.
HandleAccept ==
    /\ Take("accepted") /\ Took
    /\ \/ /\ stopFlag
          /\ strandAt' = <<"rearm">>
          /\ UNCHANGED sessionVars
       \/ /\ ~stopFlag
          /\ \E s \in Session :
                /\ FreeSlot(s)
                /\ strandAt' = <<"register", s>>
                /\ sstate' = [sstate EXCEPT ![s] = "reading"]
                /\ drainReq' = [drainReq EXCEPT ![s] = FALSE]
                /\ closing' = [closing EXCEPT ![s] = TRUE]
                /\ attached' = [attached EXCEPT ![s] = TRUE]
                /\ cut' = cut \ {s}
          /\ UNCHANGED <<op, inbox, leaving>>
    /\ UNCHANGED <<lifeVars, acceptor, accepts, timer, guard, ioUp, ioStopped, execVars,
                   sessions, pc>>

HandleAcceptError ==
    /\ Take("acceptError") /\ Took
    /\ strandAt' = <<"rearm">>
    /\ UNCHANGED <<lifeVars, acceptor, accepts, timer, guard, ioUp, ioStopped, execVars,
                   sessions, sessionVars, pc>>

MayRegister == ~stopFlag /\ Cardinality(sessions) < MaxConnections

\* Registered sessions are started, others closed, both by a handler on their strand.
RegisterSession(s) ==
    /\ At(<<"register", s>>)
    /\ IF MayRegister
       THEN /\ sessions' = sessions \cup {s}
            /\ inbox' = [inbox EXCEPT ![s] = Append(@, "start")]
            /\ UNCHANGED cut
       ELSE /\ inbox' = [inbox EXCEPT ![s] = Append(@, "close")]
            /\ cut' = cut \cup {s}
            /\ UNCHANGED sessions
    /\ strandAt' = <<"rearm">>
    /\ UNCHANGED <<lifeVars, acceptor, accepts, timer, guard, ioUp, ioStopped, strand,
                   execVars, sstate, drainReq, closing, attached, op, leaving, pc>>

\* StartAccept, unless the server stops.
Rearm ==
    /\ At(<<"rearm">>)
    /\ accepts' = IF ~stopFlag /\ acceptor = "open" THEN accepts + 1 ELSE accepts
    /\ strandAt' = <<"free">>
    /\ UNCHANGED <<lifeVars, acceptor, timer, guard, ioUp, ioStopped, strand, execVars,
                   sessions, sessionVars, pc>>

StopOnIoContext ==
    /\ Take("stop")
    /\ acceptor' = "closed" /\ accepts' = 0
    /\ strand' = Tail(strand) \o [i \in 1 .. accepts |-> "acceptError"]
    /\ strandAt' = <<"drain">>
    /\ UNCHANGED <<lifeVars, timer, guard, ioUp, ioStopped, execVars, sessions, sessionVars,
                   pc>>

\* Mutant: the sessions hear of the stop only through their queue.
DrainSessions_flagless ==
    /\ At(<<"drain">>)
    /\ inbox' = [s \in Session |-> IF s \in sessions THEN Append(inbox[s], "drain") ELSE inbox[s]]
    /\ timer' = (timer \/ sessions # {})
    /\ strandAt' = <<"try">>
    /\ UNCHANGED <<lifeVars, acceptor, accepts, guard, ioUp, ioStopped, strand, execVars,
                   sessions, sstate, drainReq, closing, attached, op, leaving, cut, pc>>

\* BeginDrain of every session in the set, and the grace timer.
DrainSessions ==
    /\ At(<<"drain">>)
    /\ drainReq' = [s \in Session |-> drainReq[s] \/ s \in sessions]
    /\ inbox' = [s \in Session |-> IF s \in sessions THEN Append(inbox[s], "drain") ELSE inbox[s]]
    /\ timer' = (timer \/ sessions # {})
    /\ strandAt' = <<"try">>
    /\ UNCHANGED <<lifeVars, acceptor, accepts, guard, ioUp, ioStopped, strand, execVars,
                   sessions, sstate, closing, attached, op, leaving, cut, pc>>

HandleShutdownDeadline ==
    /\ Take("deadline") /\ Took
    /\ inbox' = [s \in Session |-> IF s \in sessions THEN Append(inbox[s], "close") ELSE inbox[s]]
    /\ cut' = cut \cup sessions
    /\ strandAt' = <<"try">>
    /\ UNCHANGED <<lifeVars, acceptor, accepts, timer, guard, ioUp, ioStopped, execVars,
                   sessions, sstate, drainReq, closing, attached, op, leaving, pc>>

HandleTry ==
    /\ Take("try") /\ Took
    /\ strandAt' = <<"try">>
    /\ UNCHANGED <<lifeVars, acceptor, accepts, timer, guard, ioUp, ioStopped, execVars,
                   sessions, sessionVars, pc>>

\* Mutant: the stop completes without waiting for the handlers.
MayComplete_undrained == ~completed /\ sessions = {}

MayComplete == ~completed /\ drained /\ sessions = {}

TryCompleteStop ==
    /\ At(<<"try">>)
    /\ IF MayComplete
       THEN completed' = TRUE /\ timer' = FALSE /\ guard' = FALSE
       ELSE UNCHANGED <<completed, timer, guard>>
    /\ strandAt' = <<"free">>
    /\ UNCHANGED <<state, stopFlag, ioOwned, waiting, drained, starts, acceptor, accepts,
                   ioUp, ioStopped, strand, execVars, sessions, sessionVars, pc>>

StrandStep ==
    \/ HandleAccept \/ HandleAcceptError \/ Rearm \/ StopOnIoContext \/ DrainSessions
    \/ HandleShutdownDeadline \/ HandleTry \/ TryCompleteStop
    \/ \E s \in Session : RegisterSession(s)

-----------------------------------------------------------------------------
(* HttpSession: what a handler on its strand does, rest being the handlers behind it *)

Begins(s, h) == Runs /\ leaving[s] = "no" /\ inbox[s] # <<>> /\ Head(inbox[s]) = h
Rest(s) == Tail(inbox[s])
Keeps(s) == inbox' = [inbox EXCEPT ![s] = Rest(s)]

\* An operation on a closed socket ends with an error.
Aborted(s) ==
    CASE op[s] = "read" -> <<"readError">> [] op[s] = "write" -> <<"writeError">> [] OTHER -> <<>>

\* Close, with the first half of RemoveSession the first time.
Close(s) ==
    \/ /\ sstate[s] = "closed"
       /\ Keeps(s)
       /\ UNCHANGED <<sstate, attached, op, sessions, leaving>>
    \/ /\ sstate[s] # "closed"
       /\ sstate' = [sstate EXCEPT ![s] = "closed"]
       /\ inbox' = [inbox EXCEPT ![s] = Rest(s) \o Aborted(s)]
       /\ op' = [op EXCEPT ![s] = "none"]
       /\ attached' = [attached EXCEPT ![s] = FALSE]
       /\ IF attached[s]
          THEN /\ sessions' = sessions \ {s}
               /\ leaving' = [leaving EXCEPT ![s] = IF sessions \ {s} = {} THEN "last" ELSE "others"]
          ELSE UNCHANGED <<sessions, leaving>>

ReadRequest(s) ==
    \/ /\ sstate[s] = "closed" \/ drainReq[s]
       /\ Close(s)
    \/ /\ sstate[s] # "closed" /\ ~drainReq[s]
       /\ sstate' = [sstate EXCEPT ![s] = "reading"]
       /\ op' = [op EXCEPT ![s] = "read"]
       /\ Keeps(s)
       /\ UNCHANGED <<attached, sessions, leaving>>

\* keep: keep-alive asked for by the request and within the request limit.
WriteResponse(s, keep) ==
    \/ /\ sstate[s] = "closed"
       /\ UNCHANGED <<sstate, closing, op>>
    \/ /\ sstate[s] # "closed"
       /\ keep => ~drainReq[s]
       /\ closing' = [closing EXCEPT ![s] = ~keep]
       /\ sstate' = [sstate EXCEPT ![s] = "writing"]
       /\ op' = [op EXCEPT ![s] = "write"]

otherVars == <<lifeVars, ioVars, pc>>

HandleStart(s) ==
    /\ Begins(s, "start")
    /\ ReadRequest(s)
    /\ UNCHANGED <<otherVars, strand, execVars, drainReq, closing, cut>>

\* A complete request: TrySubmit accepts it.
HandleRead(s) ==
    /\ Begins(s, "readOk")
    /\ open /\ InFlight < Capacity
    /\ sstate' = [sstate EXCEPT ![s] = "handling"]
    /\ accepted' = accepted \cup {s}
    /\ Keeps(s)
    /\ UNCHANGED <<otherVars, strand, open, uncounted, sessions, drainReq, closing, attached,
                   op, leaving, cut>>

\* TrySubmit refuses: 503, whatever the session's state was.
HandleReadRefused(s) ==
    /\ Begins(s, "readOk")
    /\ ~(open /\ InFlight < Capacity)
    /\ \E keep \in BOOLEAN :
          /\ keep => ~drainReq[s]
          /\ closing' = [closing EXCEPT ![s] = ~keep]
    /\ sstate' = [sstate EXCEPT ![s] = "writing"]
    /\ op' = [op EXCEPT ![s] = "write"]
    /\ Keeps(s)
    /\ UNCHANGED <<otherVars, strand, execVars, sessions, drainReq, attached, leaving, cut>>

\* 400, 413, 431: the connection closes after the response.
HandleReadBad(s) ==
    /\ Begins(s, "readBad")
    /\ WriteResponse(s, FALSE)
    /\ Keeps(s)
    /\ UNCHANGED <<otherVars, strand, execVars, sessions, drainReq, attached, leaving, cut>>

HandleReadError(s) ==
    /\ Begins(s, "readError")
    /\ Close(s)
    /\ cut' = IF sstate[s] = "closed" THEN cut ELSE cut \cup {s}
    /\ UNCHANGED <<otherVars, strand, execVars, drainReq, closing>>

HandleResponse(s) ==
    /\ Begins(s, "response")
    /\ \E keep \in BOOLEAN : WriteResponse(s, keep)
    /\ Keeps(s)
    /\ UNCHANGED <<otherVars, strand, execVars, sessions, drainReq, attached, leaving, cut>>

HandleWrite(s) ==
    /\ Begins(s, "writeOk")
    /\ IF closing[s] \/ drainReq[s] THEN Close(s) ELSE ReadRequest(s)
    /\ UNCHANGED <<otherVars, strand, execVars, drainReq, closing, cut>>

HandleWriteError(s) ==
    /\ Begins(s, "writeError")
    /\ Close(s)
    /\ cut' = IF sstate[s] = "closed" THEN cut ELSE cut \cup {s}
    /\ UNCHANGED <<otherVars, strand, execVars, drainReq, closing>>

\* Mutant: a connection that writes its response is closed as well.
HandleDrain_writing(s) ==
    /\ Begins(s, "drain")
    /\ closing' = IF sstate[s] = "closed" THEN closing ELSE [closing EXCEPT ![s] = TRUE]
    /\ IF sstate[s] \in {"reading", "writing"}
       THEN Close(s)
       ELSE Keeps(s) /\ UNCHANGED <<sstate, attached, op, sessions, leaving>>
    /\ UNCHANGED <<otherVars, strand, execVars, drainReq, cut>>

\* BeginDrain's handler: an idle or reading connection is closed at once.
HandleDrain(s) ==
    /\ Begins(s, "drain")
    /\ closing' = IF sstate[s] = "closed" THEN closing ELSE [closing EXCEPT ![s] = TRUE]
    /\ IF sstate[s] = "reading"
       THEN Close(s)
       ELSE Keeps(s) /\ UNCHANGED <<sstate, attached, op, sessions, leaving>>
    /\ UNCHANGED <<otherVars, strand, execVars, drainReq, cut>>

HandleClose(s) ==
    /\ Begins(s, "close")
    /\ Close(s)
    /\ UNCHANGED <<otherVars, strand, execVars, drainReq, closing, cut>>

\* Mutant: the last session to leave does not ask for the completion.
RemoveSession_silent(s) ==
    /\ ioUp /\ leaving[s] # "no"
    /\ leaving' = [leaving EXCEPT ![s] = "no"]
    /\ UNCHANGED <<otherVars, strand, execVars, sessions, sstate, drainReq, closing, attached,
                   op, inbox, cut>>

\* The second half of RemoveSession.
RemoveSession(s) ==
    /\ ioUp /\ leaving[s] # "no"
    /\ leaving' = [leaving EXCEPT ![s] = "no"]
    /\ IF leaving[s] = "last" /\ stopFlag /\ drained THEN Post("try") ELSE UNCHANGED strand
    /\ UNCHANGED <<otherVars, execVars, sessions, sstate, drainReq, closing, attached, op,
                   inbox, cut>>

SessionStep(s) ==
    \/ HandleStart(s) \/ HandleRead(s) \/ HandleReadRefused(s) \/ HandleReadBad(s)
    \/ HandleReadError(s) \/ HandleResponse(s) \/ HandleWrite(s) \/ HandleWriteError(s)
    \/ HandleDrain(s) \/ HandleClose(s) \/ RemoveSession(s)

\* The client sends, reads, goes away or lets a timeout pass; a closed socket only fails.
ReadEnds(s, h) ==
    /\ Runs /\ op[s] = "read"
    /\ attached[s] \/ h = "readError"
    /\ op' = [op EXCEPT ![s] = "none"]
    /\ inbox' = [inbox EXCEPT ![s] = Append(@, h)]
    /\ UNCHANGED <<otherVars, strand, execVars, sessions, sstate, drainReq, closing, attached,
                   leaving, cut>>

WriteEnds(s, h) ==
    /\ Runs /\ op[s] = "write"
    /\ attached[s] \/ h = "writeError"
    /\ op' = [op EXCEPT ![s] = "none"]
    /\ inbox' = [inbox EXCEPT ![s] = Append(@, h)]
    /\ UNCHANGED <<otherVars, strand, execVars, sessions, sstate, drainReq, closing, attached,
                   leaving, cut>>

OpEnds(s) ==
    \/ \E h \in {"readOk", "readBad", "readError"} : ReadEnds(s, h)
    \/ \E h \in {"writeOk", "writeError"} : WriteEnds(s, h)

-----------------------------------------------------------------------------
(* The request executor: ExecuteRequest posts the response, then the worker counts the end *)

ExecuteRequest(s) ==
    /\ s \in accepted
    /\ accepted' = accepted \ {s}
    /\ uncounted' = uncounted + 1
    /\ inbox' = [inbox EXCEPT ![s] = Append(@, "response")]
    /\ UNCHANGED <<otherVars, strand, open, sessions, sstate, drainReq, closing, attached, op,
                   leaving, cut>>

WorkerCounts ==
    /\ uncounted > 0
    /\ uncounted' = uncounted - 1
    /\ UNCHANGED <<otherVars, strand, open, accepted, sessions, sessionVars>>

-----------------------------------------------------------------------------

Next ==
    \/ \E t \in Thread :
          \/ Start(t) \/ StartFails(t) \/ StopIdle(t) \/ ThreadStep(t)
          \/ \E wait \in BOOLEAN : StopBegin(t, wait)
    \/ IoExit \/ IoThrows \/ ClientConnects \/ AcceptFails \/ GraceEnds
    \/ StrandStep
    \/ \E s \in Session : SessionStep(s) \/ OpEnds(s) \/ ExecuteRequest(s)
    \/ WorkerCounts

Spec == Init /\ [][Next]_vars

\* Threads and handlers run, reads and writes end by their timeouts at the latest, tasks end;
\* no client has to come and nobody has to call.
FairSpec ==
    /\ Spec
    /\ \A t \in Thread : WF_vars(ThreadStep(t))
    /\ WF_vars(IoExit) /\ WF_vars(GraceEnds) /\ WF_vars(StrandStep) /\ WF_vars(WorkerCounts)
    /\ \A s \in Session : WF_vars(SessionStep(s)) /\ WF_vars(OpEnds(s)) /\ WF_vars(ExecuteRequest(s))

-----------------------------------------------------------------------------
(* Properties *)

HasResponse(s) == "response" \in ToSet(inbox[s])

\* The response is being written, or the write's handler has still to run.
IsWriting(s) == op[s] = "write" \/ ToSet(inbox[s]) \cap {"writeOk", "writeError"} # {}

\* After Wait nothing of the server is left: no I/O thread, no session, no listening socket,
\* no task, and of handlers that a later Start would run only a completion posted too late,
\* which finds handler_executor_drained_ false again (Wait, PrepareAcceptor's restart).
StoppedIsQuiet ==
    state = "stopped" =>
        /\ ~ioUp /\ sessions = {} /\ acceptor = "closed" /\ InFlight = 0 /\ ~timer
        /\ ToSet(strand) \subseteq {"try"}
        /\ \A s \in Session : inbox[s] = <<>> /\ op[s] = "none"

\* A running server listens: its acceptor is open and exactly one accept is outstanding or
\* on its way through the strand (Start, HandleAccept, StopOnIoContext, restart).
RunningAccepts ==
    state = "running" =>
        /\ acceptor = "open"
        /\ accepts + Cardinality({i \in DOMAIN strand : strand[i] \in {"accepted", "acceptError"}})
             + (IF strandAt = <<"rearm">> \/ strandAt \in {"register"} \X Session THEN 1 ELSE 0) = 1

\* Once the stop has passed over the sessions, no session is left that does not know of it:
\* none can register behind StopOnIoContext's snapshot (RegisterSession, StopOnIoContext).
DrainReachesAll ==
    stopFlag /\ ioUp /\ acceptor = "closed" /\ strandAt # <<"drain">> =>
        \A s \in sessions : drainReq[s]

\* A request the executor accepted is answered although the server stops.  From the dispatch
\* until the handler of the write has run, its session is not closed and the I/O threads do not
\* leave, unless the deadline, the client or an I/O error cut the connection; nor does a stop
\* abort the write of a refusal (BeginDrain, HandleWrite, Wait, TryCompleteStopOnIoContext).
AcceptedIsAnswered ==
    \A s \in Session :
        /\ s \in accepted \/ HasResponse(s) \/ IsWriting(s)
        /\ sstate[s] = "closed" \/ ~ioUp
        => s \in cut

\* The stop completes only once, with nobody left to answer, and then stays that way.
CompletionIsFinal == completed /\ state = "stopping" => sessions = {} /\ InFlight = 0 /\ ~open

\* A call of RequestStop and Wait returns, although sessions, tasks, timer and other callers
\* race it (Wait against RemoveSession, the flags and the posted completions).
CallsReturn == \A t \in Thread : pc[t].at # "idle" ~> pc[t].at = "idle"

=============================================================================
