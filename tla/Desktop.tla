------------------------------- MODULE Desktop -------------------------------
(***************************************************************************)
(* The desktop (widgets/main_window.cpp and its two panels) and the agent  *)
(* it polls.  Every handler runs on Qt's one thread and is one step here;  *)
(* what interleaves are the answers, which come in any order, the timer,   *)
(* the user and the agent's own changes.                                   *)
(*                                                                         *)
(* A handler is built from operators on the window's state w, one for each *)
(* function it calls.  A request counts as live as long as its generation  *)
(* is the current one of its channel, so that the generations themselves   *)
(* need not be kept.                                                       *)
(***************************************************************************)
EXTENDS AgentProtocol, Naturals, Sequences

CONSTANTS
    WindowArea,   \* what the window shows next to the details: logs, metrics
    PanelArea,    \* what its panels show: history, health, alerts, recovery
    Configurations,  \* the sets of services the agent may be started with
    Outcomes,     \* the states that an action may leave a service in
    Changes,      \* the states that a service may get into by itself
    MaxClicks,    \* how often the user clicks
    MaxFaults     \* how often the agent changes, is restarted or does not answer

Area    == WindowArea \cup PanelArea
Channel == {"services", "status", "action", "ack"} \cup Area

ASSUME DesktopAssumption ==
    /\ WindowArea \subseteq {"logs", "metrics"}
    /\ PanelArea \subseteq {"history", "health", "alerts", "recovery"}
    /\ Configurations \subseteq (SUBSET Service) \ {{}}
    /\ Outcomes \subseteq State /\ Changes \subseteq State
    /\ MaxClicks \in Nat /\ MaxFaults \in Nat

VARIABLES
    desk,     \* the window, its panels and the requests that are out
    agent,    \* the states the agent has been in, the last one is the present
    clicks, faults   \* what is left of MaxClicks and MaxFaults

vars == <<desk, agent, clicks, faults>>

\* The services of the registry, and what GetStatus returns for each.
AgentState == [listed : (SUBSET Service) \ {{}}, status : [Service -> State]]

Now == agent[Len(agent)]

\* An answer is what one of the agent's states gives between the request, which
\* is sent in the state "since", and its arrival.  served: the agent has done
\* the action; serial tells apart the acknowledgements of one service.
Request(c, s, serial) ==
    [channel |-> c, service |-> s, live |-> TRUE, since |-> Len(agent), served |-> FALSE, serial |-> serial]

Requests == [channel : Channel, service : Service \cup {NoService}, live : BOOLEAN,
             since : Nat \ {0}, served : BOOLEAN, serial : Nat]

\* "from", the channel a snapshot came by, and "at", the agent's state it was
\* taken in, are kept for the properties only.
Details   == [of : Service \cup {NoService}, state : State, at : Nat,
              from : {"none", "services", "status", "action"}]
NoDetails == [of |-> NoService, state |-> "down", at |-> 0, from |-> "none"]

\* Start, then Stop and Restart, which are enabled together, and the list.
Button == {"start", "control", "list"}

Desk == [
    current : Service \cup {NoService},    \* current_service_id_
    panel   : Service \cup {NoService},    \* service_id_ of the panels
    items   : SUBSET Service,              \* service_list_
    details : Details,                     \* has_snapshot_, current_state_, the labels
    shown   : [Area -> Service \cup {NoService}],
    flags   : SUBSET Channel,              \* the ..._in_flight_ that are up
    buttons : SUBSET Button,               \* those that can be clicked
    dialog  : BOOLEAN,                     \* "Agent Request Failed" is open
    pending : SUBSET Requests]

TypeOK ==
    /\ desk \in Desk
    /\ agent \in Seq(AgentState) /\ agent # <<>>
    /\ clicks \in Nat /\ faults \in Nat

-----------------------------------------------------------------------------
(* Asking *)

Subject(w, c) ==
    CASE c = "services"   -> NoService
      [] c \in PanelArea  -> w.panel
      [] OTHER            -> w.current

\* ++generation of the channels in C.
Advance(w, C) ==
    [w EXCEPT !.pending = {IF r.channel \in C THEN [r EXCEPT !.live = FALSE] ELSE r : r \in @}]

LowerFlags(w, C) == [w EXCEPT !.flags = @ \ C]

\* What is out for the channels in C no longer counts.
Forget_onlyLowers(w, C) == LowerFlags(w, C)

Forget_onlyOutdates(w, C) == Advance(w, C)

Forget(w, C) == LowerFlags(Advance(w, C), C)

\* The early returns of the functions that ask: no service, a request of the
\* channel under way, for the status also an action under way.
MayAsk(w, c) ==
    /\ c \notin w.flags
    /\ c # "services" => Subject(w, c) # NoService
    /\ c = "status" => "action" \notin w.flags

\* One request for each channel in C that may be asked; it outdates those before.
Ask(w, C) ==
    LET asked == {c \in C : MayAsk(w, c)}
        fresh == Advance(w, asked)
    IN  [fresh EXCEPT !.flags = @ \cup asked,
                      !.pending = @ \cup {Request(c, Subject(w, c), 0) : c \in asked}]

RefreshServices(w) == Ask(w, {"services"})
RefreshLogs(w)     == Ask(w, {"logs"} \cap Area)

\* Of the health panel, and its three parts.
Refresh(w)       == Ask(w, {"health", "alerts", "recovery"} \cap Area)
RefreshAlerts(w) == Ask(w, {"alerts"} \cap Area)

RefreshAll(w) == Ask(w, Channel \ {"action", "ack"})

-----------------------------------------------------------------------------
(* Showing *)

UpdateActionButtons(w) ==
    LET canControl == w.details.of # NoService /\ w.current # NoService
        fits(b)    == \/ b = "list"
                      \/ canControl /\ b = "start" /\ w.details.state = "down"
                      \/ canControl /\ b = "control" /\ w.details.state = "running"
    IN  [w EXCEPT !.buttons = {b \in Button : "action" \notin w.flags /\ fits(b)}]

\* Clear of the panels, and the part SetServiceId shares with it.
ClearPanels_keepsFlags(w, s) ==
    [Advance(w, PanelArea) EXCEPT
        !.panel = s,
        !.shown = [a \in Area |-> IF a \in PanelArea THEN NoService ELSE @[a]]]

ClearPanels(w, s) ==
    [LowerFlags(Forget(w, PanelArea), {"ack"}) EXCEPT
        !.panel = s,
        !.shown = [a \in Area |-> IF a \in PanelArea THEN NoService ELSE @[a]]]

SetServiceId(w) == IF w.panel = w.current THEN w ELSE Ask(ClearPanels(w, w.current), PanelArea)

ClearCurrentServiceDetails_keepsButtons(w) ==
    [ClearPanels(w, NoService) EXCEPT !.details = NoDetails, !.shown = [a \in Area |-> NoService]]

ClearCurrentServiceDetails(w) ==
    UpdateActionButtons([ClearPanels(w, NoService) EXCEPT
        !.details = NoDetails, !.shown = [a \in Area |-> NoService]])

ApplySnapshot(w, s, statuses, at, from) ==
    UpdateActionButtons([w EXCEPT !.details = [of |-> s, state |-> statuses[s], at |-> at, from |-> from]])

WindowChannel == {"status"} \cup WindowArea

SelectService(w, s) ==
    IF s = w.current THEN w
    ELSE LET forgotten == Forget([w EXCEPT !.current = s], WindowChannel)
         IN  Ask(SetServiceId(ClearCurrentServiceDetails(forgotten)), WindowChannel)

\* first is the first of the services, which the registry gives an order.
ApplyServiceList(w, statuses, at, first) ==
    LET filled == [w EXCEPT !.items = DOMAIN statuses]
    IN  IF w.current \in DOMAIN statuses
        THEN ApplySnapshot(filled, w.current, statuses, at, "services")
        ELSE SelectService(filled, first)

-----------------------------------------------------------------------------
(* What the user does.  While the dialog is open it takes all the clicks.  *)

Click == clicks > 0 /\ clicks' = clicks - 1 /\ UNCHANGED faults

Fault == faults > 0 /\ faults' = faults - 1 /\ UNCHANGED clicks

Handler(w) == desk' = w /\ UNCHANGED agent

SelectItem(s) ==
    /\ ~desk.dialog /\ "list" \in desk.buttons /\ s \in desk.items \ {desk.current}
    /\ Click
    /\ Handler(SelectService(desk, s))

\* ExecuteAction for a click on Start, Stop or Restart.
ExecuteAction ==
    /\ ~desk.dialog /\ desk.buttons \cap {"start", "control"} # {}
    /\ "action" \notin desk.flags /\ desk.current # NoService
    /\ Click
    /\ LET sent == [Forget(desk, WindowChannel) EXCEPT
                        !.flags = @ \cup {"action"},
                        !.pending = @ \cup {Request("action", desk.current, 0)}]
       IN  Handler(UpdateActionButtons(sent))

\* Refresh Logs, Refresh Health, or a click on "Include resolved alerts".
ClickRefresh ==
    /\ ~desk.dialog
    /\ desk' \in {RefreshLogs(desk), Refresh(desk), RefreshAlerts(desk)}
    /\ Click
    /\ UNCHANGED agent

\* Whenever alerts are shown, a row of theirs may be selected.
AcknowledgeSelectedAlert ==
    /\ ~desk.dialog /\ "ack" \notin desk.flags
    /\ "alerts" \in Area /\ desk.shown["alerts"] # NoService
    /\ Click
    /\ Handler([desk EXCEPT !.flags = @ \cup {"ack"},
                            !.pending = @ \cup {Request("ack", desk.panel, clicks)}])

CloseDialog == desk.dialog /\ Handler([desk EXCEPT !.dialog = FALSE]) /\ UNCHANGED <<clicks, faults>>

-----------------------------------------------------------------------------
(* The timer, and the answers as they come in *)

Tick == Handler(RefreshAll(desk)) /\ UNCHANGED <<clicks, faults>>

\* The test of generation and service that opens a callback; a listing has no
\* service, and Subject is then the same.
Expected_always(w, r) == TRUE

Expected(w, r) == r.live /\ r.service = Subject(w, r.channel)

Taken(r) == [desk EXCEPT !.pending = @ \ {r}]

Done(w, r) == LowerFlags(w, {r.channel})

OnServices(r, answer, at) ==
    /\ r.channel = "services"
    /\ IF ~Expected(desk, r) THEN Handler(Taken(r))
       ELSE IF answer.kind # "ok" THEN Handler(Done(Taken(r), r))
       ELSE \E first \in DOMAIN answer.statuses :
                Handler(ApplyServiceList(Done(Taken(r), r), answer.statuses, at, first))

OnStatus(r, answer, at) ==
    /\ r.channel = "status"
    /\ LET done == Done(Taken(r), r)
       IN  Handler(IF ~Expected(desk, r) THEN Taken(r)
                   ELSE IF answer.kind # "ok" THEN done
                   ELSE ApplySnapshot(done, r.service, answer.statuses, at, "status"))

\* After a failure the dialog is opened, and its event loop runs on.
OnAction(r, answer, at) ==
    /\ r.channel = "action"
    /\ LET done    == Done(Taken(r), r)
           applied == IF r.service # desk.current THEN done
                      ELSE Ask(ApplySnapshot(done, r.service, answer.statuses, at, "action"), Area)
       IN  Handler(IF answer.kind # "ok" THEN [UpdateActionButtons(done) EXCEPT !.dialog = TRUE]
                   ELSE UpdateActionButtons(RefreshServices(applied)))

\* An area that is not part of the window's details.  For metrics that are not
\* ready the labels are wiped, any other error leaves what was there.
OnArea(r, answer) ==
    /\ r.channel \in Area
    /\ LET done == Done(Taken(r), r)
       IN  Handler(IF ~Expected(desk, r) THEN Taken(r)
                   ELSE CASE answer.kind = "ok" -> [done EXCEPT !.shown[r.channel] = r.service]
                          [] answer.kind = "metrics_not_ready" /\ r.channel = "metrics" ->
                               [done EXCEPT !.shown["metrics"] = NoService]
                          [] OTHER -> done)

\* The callback tests neither a generation nor a service.
OnAcknowledged(r, answer) ==
    /\ r.channel = "ack"
    /\ LET done == Done(Taken(r), r)
       IN  Handler(IF answer.kind # "ok" THEN done ELSE RefreshAlerts(done))

-----------------------------------------------------------------------------
(* The agent, and the network to it *)

\* The answer comes from one of the agent's states since the request, or the
\* connection breaks; an action only succeeds when the agent has done it.  An
\* answer without a value counts as a fault, unless it refuses a service that
\* the registry does not have.
Receive(c) ==
    \E r \in desk.pending : \E at \in r.since .. Len(agent) :
    \E answer \in Answers(c, r.service, agent[at].listed, agent[at].status) \cup {Failed} :
        /\ r.channel = c
        /\ c = "action" /\ answer.kind = "ok" => r.served
        /\ \/ OnServices(r, answer, at) \/ OnStatus(r, answer, at) \/ OnAction(r, answer, at)
           \/ OnArea(r, answer) \/ OnAcknowledged(r, answer)
        /\ IF answer.kind = "ok" \/ (r.service # NoService /\ r.service \notin agent[at].listed)
           THEN UNCHANGED <<clicks, faults>> ELSE Fault

With(s, state) == [Now EXCEPT !.status[s] = state]

\* The agent carries out an action, which leaves one of Outcomes whether it
\* succeeds or not.
Serve ==
    /\ \E r \in desk.pending, state \in Outcomes :
        /\ r.channel = "action" /\ ~r.served /\ r.service \in Now.listed
        /\ agent' = Append(agent, With(r.service, state))
        /\ desk' = [desk EXCEPT !.pending =
                        (@ \ {r}) \cup {[r EXCEPT !.served = TRUE, !.since = Len(agent')]}]
    /\ UNCHANGED <<clicks, faults>>

\* The monitor, an exit or another client changes a service.
ServiceChanges ==
    /\ Fault
    /\ \E s \in Now.listed, state \in Changes :
        state # Now.status[s] /\ agent' = Append(agent, With(s, state))
    /\ UNCHANGED desk

\* A new agent with another configuration, which names at least one service.
AgentRestarts ==
    /\ Fault
    /\ \E listed \in Configurations :
        agent' = Append(agent, [listed |-> listed, status |-> [s \in Service |-> "down"]])
    /\ UNCHANGED desk

-----------------------------------------------------------------------------
\* The constructor: the details are cleared and everything is asked for once.
Init ==
    /\ \E listed \in Configurations :
        agent = <<[listed |-> listed, status |-> [s \in Service |-> "down"]]>>
    /\ clicks = MaxClicks /\ faults = MaxFaults
    /\ desk = RefreshAll(ClearCurrentServiceDetails([
            current |-> NoService, panel |-> NoService, items |-> {}, details |-> NoDetails,
            shown |-> [a \in Area |-> NoService], flags |-> {},
            buttons |-> {"list"},
            dialog |-> FALSE, pending |-> {}]))

Next ==
    \/ \E s \in Service : SelectItem(s)
    \/ ExecuteAction \/ ClickRefresh \/ AcknowledgeSelectedAlert \/ CloseDialog
    \/ Tick
    \/ \E c \in Channel : Receive(c)
    \/ Serve \/ ServiceChanges \/ AgentRestarts

Spec == Init /\ [][Next]_vars

\* The requests whose callbacks would do something.
OutFor(c) == {r \in desk.pending : r.channel = c /\ (c \in {"action", "ack"} \/ Expected(desk, r))}

\* The timer fires every second.  Nothing else is owed: not by the user, not by
\* the agent, and not by the network, for the client sets no time limit on a
\* request (SendJsonRequest) and an answer may stay out for ever.
FairSpec == Spec /\ WF_vars(Tick)

-----------------------------------------------------------------------------
(* Properties *)

\* Whatever order the answers come in, every part of the window shows nothing
\* or something of the service that is selected: an answer for the service
\* selected before never reaches the screen (the tests at
\* main_window.cpp:300, 328, 356, 388 and those of the panels).
ShownIsOfSelected ==
    /\ desk.panel = desk.current
    /\ desk.details.of \in {NoService, desk.current}
    /\ \A a \in Area : desk.shown[a] \in {NoService, desk.current}

\* An in-flight flag keeps the timer from asking again.  It is up exactly while
\* one request is out whose callback will take it down, although SelectService,
\* ExecuteAction and the panels forget requests that are still out.  Only the
\* acknowledgements may be two at a time, since theirs has no generation.
FlagsAreAnswered ==
    /\ \A c \in Channel \ {"ack"} :
        LET out == OutFor(c)
        IN  (c \in desk.flags <=> out # {}) /\ \A r1, r2 \in out : r1 = r2
    /\ "ack" \in desk.flags => OutFor("ack") # {}

\* A button that can be clicked is for the selected service in the state that
\* is on the screen, never while that state is Starting or Stopping or while
\* another action is under way (README.md:163); the list can be clicked except
\* during an action.
ButtonsFit ==
    LET shows(state) == /\ desk.details.of = desk.current /\ desk.current # NoService
                        /\ desk.details.state = state /\ "action" \notin desk.flags
    IN  /\ "start" \in desk.buttons <=> shows("down")
        /\ "control" \in desk.buttons <=> shows("running")
        /\ "list" \in desk.buttons <=> "action" \notin desk.flags

\* Once the outcome of an action is on the screen, no status asked for before
\* the action takes it back: ExecuteAction makes those stale.  A listing that
\* was asked for before may (services_generation_ is not advanced there).
OutcomeStays ==
    [][ /\ desk.details.from = "action" /\ desk'.details.of = desk.details.of
        /\ desk'.details.from # "services"
        => desk'.details.at >= desk.details.at ]_vars

\* The requests of a channel do not stay out for ever.
IsAnswered(c) == []<>(OutFor(c) = {})

ListIsCurrent == desk.items = Now.listed /\ desk.current \in Now.listed

DetailsAreCurrent ==
    desk.current \in Now.listed =>
        desk.details.of = desk.current /\ desk.details.state = Now.status[desk.current]

AreaIsFilled(a) == desk.current \in Now.listed => desk.shown[a] = desk.current

\* When the clicks, the agent's changes and the errors leave off, each part of
\* the window becomes what it should be as long as the requests of its own
\* channels are answered: the listing brings the services and the details, the
\* status the details when no action stays out, every area itself, and the list
\* can be clicked again after an action.  A request that stays out for ever
\* keeps its flag up and stops what it would bring (main_window.cpp:290, 316,
\* 344, 376), but no other channel, and no answer that was late, refused or
\* forgotten on the way stops the refreshing.
ScreenCatchesUp ==
    /\ IsAnswered("services") => <>[](ListIsCurrent /\ DetailsAreCurrent)
    /\ IsAnswered("status") /\ IsAnswered("action") => <>[]DetailsAreCurrent
    /\ \A a \in Area : IsAnswered(a) => <>[]AreaIsFilled(a)
    /\ IsAnswered("action") => <>[]("list" \in desk.buttons)
=============================================================================
