---------------------------- MODULE DesktopProofs ----------------------------
(***************************************************************************)
(* Proofs about Desktop for any services, areas and numbers of events.     *)
(* Each operator on the window's state gets a lemma that says which parts  *)
(* of it change; the handlers are put together from these.                 *)
(***************************************************************************)
EXTENDS Desktop, TLAPS

\* The parts of the window that asking does not touch.
SameScreen(v, w) ==
    /\ v.current = w.current /\ v.panel = w.panel /\ v.items = w.items
    /\ v.details = w.details /\ v.shown = w.shown
    /\ v.buttons = w.buttons /\ v.dialog = w.dialog

LEMMA ChannelsDiffer ==
    /\ "services" \notin Area /\ "status" \notin Area
    /\ "action" \notin Area /\ "ack" \notin Area
  BY DesktopAssumption DEF Area

LEMMA AdvanceKeepsScreen ==
    ASSUME NEW w \in Desk, NEW C
    PROVE  /\ Advance(w, C) \in Desk
           /\ SameScreen(Advance(w, C), w) /\ Advance(w, C).flags = w.flags
<1> DEFINE outdated(r) == (IF r.channel \in C THEN [r EXCEPT !.live = FALSE] ELSE r)
<1>1. \A r \in w.pending : outdated(r) \in Requests
  BY DEF Desk, Requests
<1>2. {outdated(r) : r \in w.pending} \in SUBSET Requests
  BY <1>1
<1> QED
  BY <1>2 DEF Advance, SameScreen, Desk

LEMMA LowerFlagsKeepsScreen ==
    ASSUME NEW w \in Desk, NEW C
    PROVE  /\ LowerFlags(w, C) \in Desk
           /\ SameScreen(LowerFlags(w, C), w) /\ LowerFlags(w, C).pending = w.pending
           /\ LowerFlags(w, C).flags = w.flags \ C
  BY DEF LowerFlags, SameScreen, Desk

LEMMA ForgetKeepsScreen ==
    ASSUME NEW w \in Desk, NEW C
    PROVE  /\ Forget(w, C) \in Desk
           /\ SameScreen(Forget(w, C), w)
           /\ Forget(w, C).flags = w.flags \ C
           /\ Forget(w, C).pending = Advance(w, C).pending
  BY AdvanceKeepsScreen, LowerFlagsKeepsScreen DEF Forget, SameScreen

LEMMA SubjectIsTyped ==
    ASSUME NEW w \in Desk, NEW c \in Channel
    PROVE  Subject(w, c) \in Service \cup {NoService}
<1> USE DEF Desk
<1>1. CASE c = "services"  BY <1>1 DEF Subject
<1>2. CASE c # "services" /\ c \in PanelArea  BY <1>2 DEF Subject
<1>3. CASE c # "services" /\ c \notin PanelArea  BY <1>3 DEF Subject
<1> QED  BY <1>1, <1>2, <1>3

LEMMA RequestIsTyped ==
    ASSUME Len(agent) \in Nat \ {0}, NEW c \in Channel, NEW s \in Service \cup {NoService}, NEW n \in Nat
    PROVE  Request(c, s, n) \in Requests
  BY DEF Request, Requests

LEMMA AskKeepsScreen ==
    ASSUME NEW w \in Desk, Len(agent) \in Nat \ {0}, NEW C \in SUBSET Channel
    PROVE  /\ Ask(w, C) \in Desk
           /\ SameScreen(Ask(w, C), w)
           /\ Ask(w, C).flags = w.flags \cup {c \in C : MayAsk(w, c)}
           /\ Ask(w, C).pending = Advance(w, {c \in C : MayAsk(w, c)}).pending
                \cup {Request(c, Subject(w, c), 0) : c \in {c \in C : MayAsk(w, c)}}
<1> DEFINE asked == {c \in C : MayAsk(w, c)}
           new   == {Request(c, Subject(w, c), 0) : c \in asked}
           fresh == Advance(w, asked)
<1>1. new \in SUBSET Requests
  BY SubjectIsTyped, RequestIsTyped
<1>2. fresh \in Desk /\ SameScreen(fresh, w) /\ fresh.flags = w.flags
  BY AdvanceKeepsScreen
<1>3. Ask(w, C) = [fresh EXCEPT !.flags = @ \cup asked, !.pending = @ \cup new]
  BY DEF Ask
<1> HIDE DEF asked, new, fresh
<1>4. asked \in SUBSET Channel
  BY DEF asked
<1>5. /\ Ask(w, C) \in Desk /\ SameScreen(Ask(w, C), w)
      /\ Ask(w, C).flags = w.flags \cup asked
      /\ Ask(w, C).pending = fresh.pending \cup new
  BY <1>1, <1>2, <1>3, <1>4 DEF Desk, SameScreen
<1> QED
  BY <1>5 DEF asked, new, fresh

-----------------------------------------------------------------------------
(* What the window shows *)

\* ShownIsOfSelected of any window.
Shows(w) ==
    /\ w.panel = w.current
    /\ w.details.of \in {NoService, w.current}
    /\ \A a \in Area : w.shown[a] \in {NoService, w.current}

\* The buttons are as UpdateActionButtons would leave them.
Buttons(w) == w.buttons = UpdateActionButtons(w).buttons

Sound(w) == w \in Desk /\ Shows(w) /\ Buttons(w)

LEMMA UpdateKeepsScreen ==
    ASSUME NEW w \in Desk
    PROVE  LET v == UpdateActionButtons(w)
           IN  /\ v \in Desk /\ Buttons(v)
               /\ v.current = w.current /\ v.panel = w.panel /\ v.items = w.items
               /\ v.details = w.details /\ v.shown = w.shown /\ v.dialog = w.dialog
               /\ v.flags = w.flags /\ v.pending = w.pending
               /\ v.buttons = {b \in Button :
                    /\ "action" \notin w.flags
                    /\ \/ b = "list"
                       \/ /\ w.details.of # NoService /\ w.current # NoService
                          /\ b = "start" /\ w.details.state = "down"
                       \/ /\ w.details.of # NoService /\ w.current # NoService
                          /\ b = "control" /\ w.details.state = "running"}
  BY DEF UpdateActionButtons, Buttons, Desk

LEMMA ButtonsDependOnDetails ==
    ASSUME NEW v \in Desk, NEW w \in Desk,
           v.details = w.details, v.current = w.current,
           "action" \in v.flags <=> "action" \in w.flags
    PROVE  UpdateActionButtons(v).buttons = UpdateActionButtons(w).buttons
<1> DEFINE fits(b) ==
      \/ b = "list"
      \/ /\ w.details.of # NoService /\ w.current # NoService
         /\ b = "start" /\ w.details.state = "down"
      \/ /\ w.details.of # NoService /\ w.current # NoService
         /\ b = "control" /\ w.details.state = "running"
<1>1. UpdateActionButtons(v).buttons = {b \in Button : "action" \notin v.flags /\ fits(b)}
  BY UpdateKeepsScreen
<1>2. UpdateActionButtons(w).buttons = {b \in Button : "action" \notin w.flags /\ fits(b)}
  BY UpdateKeepsScreen
<1> HIDE DEF fits
<1> QED  BY <1>1, <1>2

LEMMA SameScreenIsSound ==
    ASSUME NEW v \in Desk, NEW w \in Desk, Sound(w), SameScreen(v, w),
           "action" \in v.flags <=> "action" \in w.flags
    PROVE  Sound(v)
<1>1. Shows(v)
  BY DEF Sound, Shows, SameScreen
<1>2. UpdateActionButtons(v).buttons = UpdateActionButtons(w).buttons
  BY ButtonsDependOnDetails DEF SameScreen
<1> QED
  BY <1>1, <1>2 DEF Sound, Buttons, SameScreen

LEMMA AskIsSound ==
    ASSUME NEW w, Sound(w), Len(agent) \in Nat \ {0}, NEW C \in SUBSET (Channel \ {"action"})
    PROVE  Sound(Ask(w, C))
  BY AskKeepsScreen, SameScreenIsSound DEF Sound

\* A window whose panels were cleared for s.
LEMMA ClearPanelsClears ==
    ASSUME NEW w \in Desk, NEW s \in Service \cup {NoService}
    PROVE  LET v == ClearPanels(w, s)
           IN  /\ v \in Desk
               /\ v.current = w.current /\ v.panel = s /\ v.items = w.items
               /\ v.details = w.details /\ v.buttons = w.buttons /\ v.dialog = w.dialog
               /\ v.shown = [a \in Area |-> IF a \in PanelArea THEN NoService ELSE w.shown[a]]
               /\ v.flags = (w.flags \ PanelArea) \ {"ack"}
               /\ v.pending = Advance(w, PanelArea).pending
<1> DEFINE u == LowerFlags(Forget(w, PanelArea), {"ack"})
<1>1. /\ u \in Desk /\ SameScreen(u, w) /\ u.flags = (w.flags \ PanelArea) \ {"ack"}
      /\ u.pending = Advance(w, PanelArea).pending
  BY ForgetKeepsScreen, LowerFlagsKeepsScreen DEF SameScreen
<1>2. ClearPanels(w, s) = [u EXCEPT
        !.panel = s, !.shown = [a \in Area |-> IF a \in PanelArea THEN NoService ELSE @[a]]]
  BY DEF ClearPanels
<1> DEFINE cleared == [a \in Area |-> IF a \in PanelArea THEN NoService ELSE w.shown[a]]
<1>3. cleared \in [Area -> Service \cup {NoService}]
  BY DEF Desk
<1>4. ClearPanels(w, s) = [u EXCEPT !.panel = s, !.shown = cleared]
  BY <1>1, <1>2 DEF SameScreen
<1> HIDE DEF u, cleared
<1>5. /\ ClearPanels(w, s) \in Desk
      /\ ClearPanels(w, s).current = w.current /\ ClearPanels(w, s).panel = s
      /\ ClearPanels(w, s).items = w.items /\ ClearPanels(w, s).details = w.details
      /\ ClearPanels(w, s).buttons = w.buttons /\ ClearPanels(w, s).dialog = w.dialog
      /\ ClearPanels(w, s).shown = cleared
      /\ ClearPanels(w, s).flags = u.flags /\ ClearPanels(w, s).pending = u.pending
  BY <1>1, <1>3, <1>4 DEF Desk, SameScreen
<1> QED
  BY <1>1, <1>5 DEF cleared

LEMMA ClearDetailsClears ==
    ASSUME NEW w \in Desk
    PROVE  LET v == ClearCurrentServiceDetails(w)
           IN  /\ v \in Desk /\ Buttons(v)
               /\ v.current = w.current /\ v.panel = NoService /\ v.items = w.items
               /\ v.details = NoDetails /\ v.shown = [a \in Area |-> NoService]
               /\ v.flags = (w.flags \ PanelArea) \ {"ack"}
               /\ v.pending = Advance(w, PanelArea).pending
<1> DEFINE u     == ClearPanels(w, NoService)
           blank == [a \in Area |-> NoService]
           wiped == [u EXCEPT !.details = NoDetails, !.shown = blank]
<1>1. /\ u \in Desk /\ u.current = w.current /\ u.panel = NoService /\ u.items = w.items
      /\ u.flags = (w.flags \ PanelArea) \ {"ack"}
      /\ u.pending = Advance(w, PanelArea).pending
  BY ClearPanelsClears
<1>2. NoDetails \in Details /\ blank \in [Area -> Service \cup {NoService}]
  BY DEF NoDetails, Details, State
<1>3. ClearCurrentServiceDetails(w) = UpdateActionButtons(wiped)
  BY DEF ClearCurrentServiceDetails
<1> HIDE DEF u, blank
<1>4. /\ wiped \in Desk /\ wiped.current = u.current /\ wiped.panel = u.panel
      /\ wiped.items = u.items /\ wiped.details = NoDetails /\ wiped.shown = blank
      /\ wiped.flags = u.flags /\ wiped.pending = u.pending
  BY <1>1, <1>2 DEF Desk
<1> HIDE DEF wiped
<1> QED
  BY <1>1, <1>3, <1>4, UpdateKeepsScreen DEF blank

\* SetServiceId brings the panels of a cleared window to the selected service.
LEMMA SetServiceIdIsSound ==
    ASSUME NEW w \in Desk, Len(agent) \in Nat \ {0}, Buttons(w),
           w.details.of \in {NoService, w.current}, w.panel = NoService,
           \A a \in Area : w.shown[a] = NoService
    PROVE  Sound(SetServiceId(w)) /\ SetServiceId(w).details = w.details
<1> USE DEF SetServiceId
<1>1. CASE w.panel = w.current
  BY <1>1 DEF Sound, Shows
<1>2. CASE w.panel # w.current
  <2> DEFINE u == ClearPanels(w, w.current)
  <2>1. /\ u \in Desk /\ u.current = w.current /\ u.panel = w.current
        /\ u.details = w.details /\ u.buttons = w.buttons
        /\ \A a \in Area : u.shown[a] = NoService
        /\ "action" \in u.flags <=> "action" \in w.flags
    <3>1. w.current \in Service \cup {NoService}
      BY DEF Desk
    <3>2. /\ u \in Desk /\ u.current = w.current /\ u.panel = w.current
          /\ u.details = w.details /\ u.buttons = w.buttons
          /\ u.shown = [a \in Area |-> IF a \in PanelArea THEN NoService ELSE w.shown[a]]
          /\ u.flags = (w.flags \ PanelArea) \ {"ack"}
      BY <3>1, ClearPanelsClears
    <3>3. "action" \notin PanelArea /\ "action" # "ack"
      BY ChannelsDiffer DEF Area
    <3> HIDE DEF u
    <3> QED  BY <3>2, <3>3
  <2>3. u.buttons = UpdateActionButtons(u).buttons
    BY <2>1, ButtonsDependOnDetails DEF Buttons
  <2> HIDE DEF u
  <2>4. Sound(u)
    BY <2>1, <2>3 DEF Sound, Shows, Buttons
  <2>5. SetServiceId(w) = Ask(u, PanelArea)
    BY <1>2 DEF u
  <2>6. PanelArea \in SUBSET (Channel \ {"action"})
    BY ChannelsDiffer DEF Channel, Area
  <2>7. Sound(Ask(u, PanelArea)) /\ Ask(u, PanelArea).details = u.details
    BY <2>1, <2>4, <2>6, AskIsSound, AskKeepsScreen DEF SameScreen
  <2> QED  BY <2>1, <2>5, <2>7
<1> QED  BY <1>1, <1>2

LEMMA SelectServiceIsSound ==
    ASSUME NEW w, Sound(w), Len(agent) \in Nat \ {0}, NEW s \in Service
    PROVE  Sound(SelectService(w, s)) /\ SelectService(w, s).details \in {w.details, NoDetails}
<1>1. CASE s = w.current
  BY <1>1 DEF SelectService
<1>2. CASE s # w.current
  <2> DEFINE chosen    == [w EXCEPT !.current = s]
             forgotten == Forget(chosen, WindowChannel)
             cleared   == ClearCurrentServiceDetails(forgotten)
             moved     == SetServiceId(cleared)
  <2>1. chosen \in Desk
    BY DEF Desk, Sound
  <2>2. forgotten \in Desk
    BY <2>1, ForgetKeepsScreen
  <2>3. /\ cleared \in Desk /\ Buttons(cleared) /\ cleared.panel = NoService
        /\ cleared.details = NoDetails /\ cleared.shown = [a \in Area |-> NoService]
    BY <2>2, ClearDetailsClears
  <2>4. SelectService(w, s) = Ask(moved, WindowChannel)
    BY <1>2 DEF SelectService
  <2>5. WindowChannel \in SUBSET (Channel \ {"action"})
    BY ChannelsDiffer DEF WindowChannel, Channel, Area
  <2> HIDE DEF cleared
  <2>6. Sound(moved) /\ moved.details = NoDetails
    BY <2>3, SetServiceIdIsSound DEF NoDetails
  <2> HIDE DEF moved
  <2>7. Sound(Ask(moved, WindowChannel)) /\ Ask(moved, WindowChannel).details = NoDetails
    BY <2>5, <2>6, AskIsSound, AskKeepsScreen DEF Sound, SameScreen
  <2> QED  BY <2>4, <2>7
<1> QED  BY <1>1, <1>2

Source == {"none", "services", "status", "action"}

LEMMA ApplySnapshotIsSound ==
    ASSUME NEW w \in Desk, Shows(w), NEW statuses, statuses[w.current] \in State,
           NEW at \in Nat, NEW from \in Source
    PROVE  LET v == ApplySnapshot(w, w.current, statuses, at, from)
           IN  /\ Sound(v) /\ v.details.from = from /\ v.details.at = at
               /\ v.flags = w.flags /\ v.current = w.current
<1> DEFINE new == [of |-> w.current, state |-> statuses[w.current], at |-> at, from |-> from]
           u   == [w EXCEPT !.details = new]
<1>1. new \in Details
  BY DEF Desk, Details, Source
<1>2. new.of = w.current /\ new.at = at /\ new.from = from
  OBVIOUS
<1>3. ApplySnapshot(w, w.current, statuses, at, from) = UpdateActionButtons(u)
  BY DEF ApplySnapshot
<1> HIDE DEF new
<1>4. /\ u \in Desk /\ u.current = w.current /\ u.panel = w.panel /\ u.details = new
      /\ u.shown = w.shown /\ u.flags = w.flags
  BY <1>1 DEF Desk
<1> HIDE DEF u
<1> QED
  BY <1>2, <1>3, <1>4, UpdateKeepsScreen DEF Sound, Shows

LEMMA ApplyServiceListIsSound ==
    ASSUME NEW w, Sound(w), Len(agent) \in Nat \ {0}, NEW listed \in SUBSET Service,
           NEW statuses \in [listed -> State], NEW at \in Nat, NEW first \in listed
    PROVE  LET v == ApplyServiceList(w, statuses, at, first)
           IN  /\ Sound(v)
               /\ \/ v.details.from = "services" \/ v.details = w.details \/ v.details = NoDetails
<1> DEFINE filled == [w EXCEPT !.items = DOMAIN statuses]
<1>1. /\ filled \in Desk /\ filled.current = w.current /\ filled.details = w.details
      /\ filled.panel = w.panel /\ filled.shown = w.shown /\ filled.flags = w.flags
      /\ filled.buttons = w.buttons
  BY DEF Sound, Desk
<1>2. ApplyServiceList(w, statuses, at, first) =
        IF w.current \in DOMAIN statuses
        THEN ApplySnapshot(filled, w.current, statuses, at, "services")
        ELSE SelectService(filled, first)
  BY DEF ApplyServiceList
<1> HIDE DEF filled
<1>3. Sound(filled)
  BY <1>1, ButtonsDependOnDetails DEF Sound, Shows, Buttons
<1>4. CASE w.current \in DOMAIN statuses
  BY <1>1, <1>2, <1>3, <1>4, ApplySnapshotIsSound DEF Source, Sound
<1>5. CASE w.current \notin DOMAIN statuses
  BY <1>1, <1>2, <1>3, <1>5, SelectServiceIsSound
<1> QED  BY <1>4, <1>5

-----------------------------------------------------------------------------
(* The answers *)

\* What the client makes of an answer has a value only for a service the agent
\* has, and a listing or a snapshot has a state for each service it is about.
LEMMA AnswerIsTyped ==
    ASSUME NEW c \in Channel, NEW s \in Service \cup {NoService}, NEW state \in AgentState,
           NEW answer \in Answers(c, s, state.listed, state.status) \cup {Failed},
           answer.kind = "ok"
    PROVE  /\ c = "services" => answer.statuses \in [state.listed -> State]
           /\ c \in {"status", "action"} => s \in Service /\ answer.statuses[s] \in State
<1>1. answer \in Answers(c, s, state.listed, state.status)
  BY DEF Failed, Answer
<1> USE DEF Answers, Failed, Answer, SendJsonRequest, Parse, Handle, Error, Body,
            MakeServiceListResponse, MakeStatusResponse, MakeActionResponse,
            GetServices, RequestStatus, AgentState
<1>2. CASE c = "services"
  BY <1>1, <1>2
<1>3. CASE c = "status"
  BY <1>1, <1>3
<1>4. CASE c = "action"
  BY <1>1, <1>4
<1> QED  BY <1>2, <1>3, <1>4

-----------------------------------------------------------------------------
(* Each step leaves a sound window *)

LEMMA AgentLength ==
    ASSUME TypeOK
    PROVE  /\ Len(agent) \in Nat \ {0}
           /\ Now \in AgentState
           /\ \A at \in 1 .. Len(agent) : agent[at] \in AgentState
  BY DEF TypeOK, Now

\* The answer's request leaves pending, and its flag goes down.
LEMMA TakenIsSound ==
    ASSUME Sound(desk), NEW r \in desk.pending
    PROVE  /\ Taken(r) \in Desk /\ SameScreen(Taken(r), desk) /\ Taken(r).flags = desk.flags
           /\ Sound(Taken(r)) /\ Taken(r).pending = desk.pending \ {r}
           /\ Done(Taken(r), r) \in Desk /\ SameScreen(Done(Taken(r), r), desk)
           /\ r.channel # "action" => Sound(Done(Taken(r), r))
           /\ Done(Taken(r), r).flags = desk.flags \ {r.channel}
           /\ Done(Taken(r), r).pending = desk.pending \ {r}
<1>1. /\ Taken(r) \in Desk /\ SameScreen(Taken(r), desk) /\ Taken(r).flags = desk.flags
      /\ Taken(r).pending = desk.pending \ {r}
  BY DEF Taken, Desk, Sound, SameScreen
<1>2. Sound(Taken(r))
  BY <1>1, SameScreenIsSound DEF Sound
<1>3. /\ Done(Taken(r), r) \in Desk /\ SameScreen(Done(Taken(r), r), Taken(r))
      /\ Done(Taken(r), r).flags = desk.flags \ {r.channel}
      /\ Done(Taken(r), r).pending = desk.pending \ {r}
  BY <1>1, LowerFlagsKeepsScreen DEF Done
<1>4. r.channel # "action" => Sound(Done(Taken(r), r))
  BY <1>1, <1>2, <1>3, SameScreenIsSound
<1> QED  BY <1>1, <1>2, <1>3, <1>4 DEF SameScreen

\* Once an action is over, the buttons are brought up to date.
LEMMA UpdateIsSound ==
    ASSUME NEW w \in Desk, Shows(w)
    PROVE  Sound(UpdateActionButtons(w)) /\ UpdateActionButtons(w).details = w.details
  BY UpdateKeepsScreen DEF Sound, Shows

LEMMA OnServicesIsSound ==
    ASSUME TypeOK, Sound(desk), NEW r \in desk.pending, NEW at \in 1 .. Len(agent),
           NEW answer \in Answers("services", r.service, agent[at].listed, agent[at].status) \cup {Failed},
           OnServices(r, answer, at)
    PROVE  Sound(desk')
<1> DEFINE done == Done(Taken(r), r)
<1>1. r.channel = "services" /\ Sound(Taken(r)) /\ Sound(done)
  BY TakenIsSound DEF OnServices
<1>2. CASE answer.kind = "ok" /\ \E first \in DOMAIN answer.statuses :
                desk' = ApplyServiceList(done, answer.statuses, at, first)
  <2>1. r.service \in Service \cup {NoService}
    BY DEF Sound, Desk, Requests
  <2>2. agent[at] \in AgentState /\ Len(agent) \in Nat \ {0} /\ at \in Nat
    BY AgentLength
  <2>3. answer.statuses \in [agent[at].listed -> State]
    BY <1>2, <2>1, <2>2, AnswerIsTyped DEF Channel
  <2>4. agent[at].listed \in SUBSET Service
    BY <2>2 DEF AgentState
  <2> HIDE DEF done
  <2>5. PICK first \in agent[at].listed : desk' = ApplyServiceList(done, answer.statuses, at, first)
    BY <1>2, <2>3
  <2> QED  BY <1>1, <2>2, <2>3, <2>4, <2>5, ApplyServiceListIsSound
<1>3. CASE desk' = Taken(r) \/ desk' = done
  BY <1>1, <1>3
<1> QED  BY <1>2, <1>3 DEF OnServices, Handler

LEMMA OnStatusIsSound ==
    ASSUME TypeOK, Sound(desk), NEW r \in desk.pending, NEW at \in 1 .. Len(agent),
           NEW answer \in Answers("status", r.service, agent[at].listed, agent[at].status) \cup {Failed},
           OnStatus(r, answer, at)
    PROVE  Sound(desk')
<1> DEFINE done == Done(Taken(r), r)
<1>1. r.channel = "status" /\ Sound(Taken(r)) /\ Sound(done) /\ done.current = desk.current
  BY TakenIsSound DEF OnStatus, SameScreen
<1>2. CASE Expected(desk, r) /\ answer.kind = "ok"
  <2>1. r.service = desk.current
    BY <1>1, <1>2, ChannelsDiffer DEF Expected, Subject, Area
  <2>2. r.service \in Service \cup {NoService}
    BY DEF Sound, Desk, Requests
  <2>3. agent[at] \in AgentState /\ at \in Nat
    BY AgentLength
  <2>4. answer.statuses[r.service] \in State
    BY <1>2, <2>2, <2>3, AnswerIsTyped DEF Channel
  <2>5. desk' = ApplySnapshot(done, r.service, answer.statuses, at, "status")
    BY <1>2 DEF OnStatus, Handler
  <2> HIDE DEF done
  <2> QED  BY <1>1, <2>1, <2>3, <2>4, <2>5, ApplySnapshotIsSound DEF Source, Sound
<1>3. CASE desk' = Taken(r) \/ desk' = done
  BY <1>1, <1>3
<1> QED  BY <1>2, <1>3 DEF OnStatus, Handler

LEMMA OnActionIsSound ==
    ASSUME TypeOK, Sound(desk), NEW r \in desk.pending, NEW at \in 1 .. Len(agent),
           NEW answer \in Answers("action", r.service, agent[at].listed, agent[at].status) \cup {Failed},
           OnAction(r, answer, at)
    PROVE  Sound(desk')
<1> DEFINE done    == Done(Taken(r), r)
           snap    == ApplySnapshot(done, r.service, answer.statuses, at, "action")
           applied == IF r.service # desk.current THEN done ELSE Ask(snap, Area)
<1>1. /\ r.channel = "action" /\ done \in Desk /\ Shows(done) /\ done.current = desk.current
  BY TakenIsSound DEF OnAction, SameScreen, Sound, Shows
<1>2. Area \in SUBSET (Channel \ {"action"}) /\ {"services"} \in SUBSET (Channel \ {"action"})
  BY ChannelsDiffer DEF Channel
<1>3. Len(agent) \in Nat \ {0}
  BY AgentLength
<1>4. CASE answer.kind = "ok"
  <2>1. desk' = UpdateActionButtons(Ask(applied, {"services"}))
    BY <1>4 DEF OnAction, Handler, RefreshServices
  <2>2. applied \in Desk /\ Shows(applied)
    <3>1. CASE r.service # desk.current
      BY <1>1, <3>1
    <3>2. CASE r.service = desk.current
      <4>1. r.service \in Service \cup {NoService}
        BY DEF Sound, Desk, Requests
      <4>2. agent[at] \in AgentState /\ at \in Nat
        BY AgentLength
      <4>3. answer.statuses[r.service] \in State
        BY <1>4, <4>1, <4>2, AnswerIsTyped DEF Channel
      <4> HIDE DEF snap
      <4>4. Sound(snap)
        BY <1>1, <3>2, <4>2, <4>3, ApplySnapshotIsSound DEF Source, snap
      <4>5. Sound(Ask(snap, Area))
        BY <1>2, <1>3, <4>4, AskIsSound
      <4> QED  BY <3>2, <4>5 DEF Sound
    <3> QED  BY <3>1, <3>2
  <2> HIDE DEF applied
  <2>3. Ask(applied, {"services"}) \in Desk /\ Shows(Ask(applied, {"services"}))
    BY <1>2, <1>3, <2>2, AskKeepsScreen DEF SameScreen, Shows
  <2> QED  BY <2>1, <2>3, UpdateIsSound
<1>5. CASE answer.kind # "ok"
  <2> DEFINE u == UpdateActionButtons(done)
  <2>1. desk' = [u EXCEPT !.dialog = TRUE]
    BY <1>5 DEF OnAction, Handler
  <2>2. Sound(u)
    BY <1>1, UpdateIsSound
  <2> HIDE DEF u
  <2> QED  BY <2>1, <2>2, ButtonsDependOnDetails DEF Sound, Desk, Shows, Buttons
<1> QED  BY <1>4, <1>5

LEMMA OnAreaIsSound ==
    ASSUME TypeOK, Sound(desk), NEW r \in desk.pending, NEW answer, OnArea(r, answer)
    PROVE  Sound(desk')
<1> DEFINE done == Done(Taken(r), r)
<1>1. /\ r.channel \in Area /\ Sound(Taken(r)) /\ Sound(done)
      /\ done.current = desk.current /\ r.channel # "services"
  BY TakenIsSound, ChannelsDiffer DEF OnArea, SameScreen
<1>2. CASE desk' = Taken(r) \/ desk' = done
  BY <1>1, <1>2
<1>3. CASE Expected(desk, r) /\ desk' = [done EXCEPT !.shown[r.channel] = r.service]
  <2>1. r.service = desk.current
    BY <1>1, <1>3 DEF Expected, Subject, Sound, Shows
  <2> HIDE DEF done
  <2> QED  BY <1>1, <1>3, <2>1, ButtonsDependOnDetails DEF Sound, Desk, Shows, Buttons
<1>4. CASE r.channel = "metrics" /\ desk' = [done EXCEPT !.shown["metrics"] = NoService]
  <2> HIDE DEF done
  <2> QED  BY <1>1, <1>4, ButtonsDependOnDetails DEF Sound, Desk, Shows, Buttons
<1> QED
  BY <1>2, <1>3, <1>4 DEF OnArea, Handler

LEMMA OnAcknowledgedIsSound ==
    ASSUME TypeOK, Sound(desk), NEW r \in desk.pending, NEW answer, OnAcknowledged(r, answer)
    PROVE  Sound(desk')
<1> DEFINE done == Done(Taken(r), r)
<1>1. Sound(done)
  BY TakenIsSound DEF OnAcknowledged
<1>2. {"alerts"} \cap Area \in SUBSET (Channel \ {"action"})
  BY ChannelsDiffer DEF Channel
<1>3. desk' = done \/ desk' = Ask(done, {"alerts"} \cap Area)
  BY DEF OnAcknowledged, Handler, RefreshAlerts
<1> QED  BY <1>1, <1>2, <1>3, AgentLength, AskIsSound

LEMMA ReceiveIsSound ==
    ASSUME TypeOK, Sound(desk), NEW c \in Channel, Receive(c)
    PROVE  Sound(desk')
<1> DEFINE Received(r, at, answer) ==
      /\ r.channel = c
      /\ \/ OnServices(r, answer, at) \/ OnStatus(r, answer, at) \/ OnAction(r, answer, at)
         \/ OnArea(r, answer) \/ OnAcknowledged(r, answer)
<1>1. PICK r \in desk.pending : \E at \in r.since .. Len(agent) :
        \E answer \in Answers(c, r.service, agent[at].listed, agent[at].status) \cup {Failed} :
            Received(r, at, answer)
  BY DEF Receive
<1>2. PICK at \in r.since .. Len(agent) :
        \E answer \in Answers(c, r.service, agent[at].listed, agent[at].status) \cup {Failed} :
            Received(r, at, answer)
  BY <1>1
<1>3. PICK answer \in Answers(c, r.service, agent[at].listed, agent[at].status) \cup {Failed} :
            Received(r, at, answer)
  BY <1>2
<1>4. at \in 1 .. Len(agent)
  BY AgentLength DEF Sound, Desk, Requests
<1>5. CASE OnServices(r, answer, at)
  BY <1>3, <1>4, <1>5, OnServicesIsSound DEF OnServices
<1>6. CASE OnStatus(r, answer, at)
  BY <1>3, <1>4, <1>6, OnStatusIsSound DEF OnStatus
<1>7. CASE OnAction(r, answer, at)
  BY <1>3, <1>4, <1>7, OnActionIsSound DEF OnAction
<1>8. CASE OnArea(r, answer)
  BY <1>8, OnAreaIsSound
<1>9. CASE OnAcknowledged(r, answer)
  BY <1>9, OnAcknowledgedIsSound
<1> QED  BY <1>3, <1>5, <1>6, <1>7, <1>8, <1>9

LEMMA UserIsSound ==
    ASSUME TypeOK, Sound(desk),
           \/ \E s \in Service : SelectItem(s)
           \/ ExecuteAction \/ ClickRefresh \/ AcknowledgeSelectedAlert \/ CloseDialog
           \/ Tick
    PROVE  Sound(desk')
<1>1. CASE \E s \in Service : SelectItem(s)
  BY <1>1, SelectServiceIsSound, AgentLength DEF SelectItem, Handler
<1>2. CASE ExecuteAction
  <2> DEFINE forgotten == Forget(desk, WindowChannel)
             request   == Request("action", desk.current, 0)
             sent      == [forgotten EXCEPT !.flags = @ \cup {"action"},
                                            !.pending = @ \cup {request}]
  <2>1. desk' = UpdateActionButtons(sent)
    BY <1>2 DEF ExecuteAction, Handler
  <2>2. forgotten \in Desk /\ SameScreen(forgotten, desk)
    BY ForgetKeepsScreen DEF Sound
  <2>3. request \in Requests
    BY AgentLength, RequestIsTyped DEF Channel, Sound, Desk
  <2> HIDE DEF forgotten, request
  <2>4. sent \in Desk /\ Shows(sent)
    BY <2>2, <2>3 DEF Desk, Channel, SameScreen, Sound, Shows
  <2> QED  BY <2>1, <2>4, UpdateIsSound
<1>3. CASE ClickRefresh
  <2>1. \E C \in SUBSET (Channel \ {"action"}) : desk' = Ask(desk, C)
    BY <1>3, ChannelsDiffer DEF ClickRefresh, RefreshLogs, Refresh, RefreshAlerts, Channel
  <2> QED  BY <2>1, AgentLength, AskIsSound
<1>4. CASE AcknowledgeSelectedAlert
  <2> DEFINE request == Request("ack", desk.panel, clicks)
  <2>1. request \in Requests
    BY AgentLength, RequestIsTyped DEF Channel, Sound, Desk, TypeOK
  <2>2. desk' = [desk EXCEPT !.flags = @ \cup {"ack"}, !.pending = @ \cup {request}]
    BY <1>4 DEF AcknowledgeSelectedAlert, Handler
  <2> HIDE DEF request
  <2>3. desk' \in Desk /\ SameScreen(desk', desk) /\ desk'.flags = desk.flags \cup {"ack"}
    BY <2>1, <2>2 DEF Sound, Desk, SameScreen, Channel
  <2> QED  BY <2>3, SameScreenIsSound DEF Sound
<1>5. CASE CloseDialog
  <2>1. desk' \in Desk /\ desk'.dialog = FALSE /\ desk' = [desk EXCEPT !.dialog = FALSE]
    BY <1>5 DEF CloseDialog, Handler, Sound, Desk
  <2> QED  BY <2>1, ButtonsDependOnDetails DEF Sound, Desk, Shows, Buttons
<1>6. CASE Tick
  <2>1. desk' = Ask(desk, Channel \ {"action", "ack"})
    BY <1>6 DEF Tick, Handler, RefreshAll
  <2> QED  BY <2>1, AgentLength, AskIsSound
<1> QED  BY <1>1, <1>2, <1>3, <1>4, <1>5, <1>6

LEMMA AgentIsSound ==
    ASSUME TypeOK, Sound(desk), Serve \/ ServiceChanges \/ AgentRestarts
    PROVE  Sound(desk') /\ agent' \in Seq(AgentState) /\ agent' # <<>>
<1>1. \A s \in Now.listed, state \in State : With(s, state) \in AgentState
  BY AgentLength DEF With, AgentState
<1>2. CASE Serve
  <2>1. PICK r \in desk.pending, state \in Outcomes :
          /\ r.service \in Now.listed
          /\ agent' = Append(agent, With(r.service, state))
          /\ desk' = [desk EXCEPT !.pending =
                        (@ \ {r}) \cup {[r EXCEPT !.served = TRUE, !.since = Len(agent')]}]
    BY <1>2 DEF Serve
  <2>2. agent' \in Seq(AgentState) /\ Len(agent') \in Nat \ {0} /\ agent' # <<>>
    BY <1>1, <2>1, DesktopAssumption DEF TypeOK
  <2>3. [r EXCEPT !.served = TRUE, !.since = Len(agent')] \in Requests
    BY <2>2 DEF Sound, Desk, Requests
  <2>4. desk' \in Desk /\ SameScreen(desk', desk) /\ desk'.flags = desk.flags
    BY <2>1, <2>3 DEF Sound, Desk, SameScreen
  <2> QED  BY <2>2, <2>4, SameScreenIsSound DEF Sound
<1>3. CASE ServiceChanges
  BY <1>1, <1>3, DesktopAssumption DEF ServiceChanges, TypeOK
<1>4. CASE AgentRestarts
  <2>1. PICK listed \in Configurations :
          agent' = Append(agent, [listed |-> listed, status |-> [s \in Service |-> "down"]])
    BY <1>4 DEF AgentRestarts
  <2>2. [listed |-> listed, status |-> [s \in Service |-> "down"]] \in AgentState
    BY DesktopAssumption DEF AgentState, State
  <2> QED  BY <1>4, <2>1, <2>2 DEF AgentRestarts, TypeOK
<1> QED  BY <1>2, <1>3, <1>4

Inv == TypeOK /\ Sound(desk)

LEMMA InitInv == Init => Inv
<1> SUFFICES ASSUME Init PROVE Inv
  OBVIOUS
<1> DEFINE blank == [
        current |-> NoService, panel |-> NoService, items |-> {}, details |-> NoDetails,
        shown |-> [a \in Area |-> NoService], flags |-> {},
        buttons |-> {"list"}, dialog |-> FALSE, pending |-> {}]
           cleared == ClearCurrentServiceDetails(blank)
<1>1. agent \in Seq(AgentState) /\ agent # <<>> /\ Len(agent) = 1
  <2>1. PICK listed \in Configurations :
          agent = <<[listed |-> listed, status |-> [s \in Service |-> "down"]]>>
    BY DEF Init
  <2>2. [listed |-> listed, status |-> [s \in Service |-> "down"]] \in AgentState
    BY DesktopAssumption DEF AgentState, State
  <2> QED  BY <2>1, <2>2
<1>2. clicks \in Nat /\ faults \in Nat
  BY DesktopAssumption DEF Init
<1>3. desk = Ask(cleared, Channel \ {"action", "ack"})
  BY DEF Init, RefreshAll
<1>4. blank \in Desk
  BY DEF Desk, NoDetails, Details, State, Button
<1>5. blank.current = NoService
  OBVIOUS
<1> HIDE DEF blank
<1>6. Sound(cleared)
  BY <1>4, <1>5, ClearDetailsClears DEF Sound, Shows, NoDetails
<1> HIDE DEF cleared
<1>7. Sound(desk)
  BY <1>1, <1>3, <1>6, AskIsSound
<1> QED  BY <1>1, <1>2, <1>7 DEF Inv, TypeOK, Sound

\* Nothing but the agent's own steps touches what the agent has been.
LEMMA CountersAndAgent ==
    ASSUME TypeOK, [Next]_vars
    PROVE  /\ clicks' \in Nat /\ faults' \in Nat
           /\ agent' = agent \/ Serve \/ ServiceChanges \/ AgentRestarts
<1> USE DEF TypeOK, Click, Fault, Handler
<1>1. CASE UNCHANGED vars  BY <1>1 DEF vars
<1>2. CASE \E s \in Service : SelectItem(s)  BY <1>2 DEF SelectItem
<1>3. CASE ExecuteAction  BY <1>3 DEF ExecuteAction
<1>4. CASE ClickRefresh  BY <1>4 DEF ClickRefresh
<1>5. CASE AcknowledgeSelectedAlert  BY <1>5 DEF AcknowledgeSelectedAlert
<1>6. CASE CloseDialog  BY <1>6 DEF CloseDialog
<1>7. CASE Tick  BY <1>7 DEF Tick
<1>8. CASE \E c \in Channel : Receive(c)
  BY <1>8 DEF Receive, OnServices, OnStatus, OnAction, OnArea, OnAcknowledged
<1>9. CASE Serve  BY <1>9 DEF Serve
<1>10. CASE ServiceChanges  BY <1>10 DEF ServiceChanges
<1>11. CASE AgentRestarts  BY <1>11 DEF AgentRestarts
<1> QED
  BY <1>1, <1>2, <1>3, <1>4, <1>5, <1>6, <1>7, <1>8, <1>9, <1>10, <1>11 DEF Next

LEMMA NextInv == Inv /\ [Next]_vars => Inv'
<1> SUFFICES ASSUME Inv, [Next]_vars PROVE Inv'
  OBVIOUS
<1> USE DEF Inv
<1>1. Sound(desk')
  <2>1. CASE UNCHANGED vars
    BY <2>1 DEF vars
  <2>2. CASE \E c \in Channel : Receive(c)
    BY <2>2, ReceiveIsSound
  <2>3. CASE Serve \/ ServiceChanges \/ AgentRestarts
    BY <2>3, AgentIsSound
  <2>4. CASE \/ \E s \in Service : SelectItem(s)
             \/ ExecuteAction \/ ClickRefresh \/ AcknowledgeSelectedAlert \/ CloseDialog
             \/ Tick
    BY <2>4, UserIsSound
  <2> QED  BY <2>1, <2>2, <2>3, <2>4 DEF Next
<1>2. clicks' \in Nat /\ faults' \in Nat
  BY CountersAndAgent
<1>3. agent' \in Seq(AgentState) /\ agent' # <<>>
  BY CountersAndAgent, AgentIsSound DEF TypeOK
<1>4. TypeOK'
  BY <1>1, <1>2, <1>3 DEF TypeOK, Sound
<1> QED
  BY <1>1, <1>4 DEF Sound, Shows, Buttons, UpdateActionButtons

LEMMA SoundWindow == Spec => []Inv
<1>1. Init => Inv  BY InitInv
<1>2. Inv /\ [Next]_vars => Inv'  BY NextInv
<1> QED  BY <1>1, <1>2, PTL DEF Spec

\* Whatever is late, lost, refused or out of order, the window never shows
\* anything of a service other than the one selected: for any services, areas,
\* numbers of requests and answers.
THEOREM ShowsTheSelected == Spec => []ShownIsOfSelected
<1>1. Inv => ShownIsOfSelected
  BY DEF Inv, Sound, Shows, ShownIsOfSelected
<1> QED  BY <1>1, SoundWindow, PTL

\* The buttons always fit the state on the screen.
THEOREM ButtonsAreFit == Spec => []ButtonsFit
<1>1. Inv => ButtonsFit
  <2> SUFFICES ASSUME Inv PROVE ButtonsFit
    OBVIOUS
  <2>1. desk \in Desk /\ desk.details.of \in {NoService, desk.current} /\ Buttons(desk)
    BY DEF Inv, Sound, Shows
  <2> QED  BY <2>1, UpdateKeepsScreen DEF Buttons, ButtonsFit, Button
<1> QED  BY <1>1, SoundWindow, PTL

-----------------------------------------------------------------------------
(***************************************************************************)
(* The requests that are out: each in-flight flag stands for exactly one   *)
(* of them, and none of those that count can take back the outcome of an   *)
(* action.                                                                 *)
(***************************************************************************)

\* The requests of a channel that count.
Out(w, c) == {r \in w.pending : r.channel = c /\ (c \in {"action", "ack"} \/ r.live)}

Timed == Channel \ {"action", "ack"}

\* Each flag stands for one request, which is about what is selected.
Tidy(w) ==
    /\ \A c \in Channel \ {"ack"} :
        /\ c \in w.flags <=> Out(w, c) # {}
        /\ \A r1, r2 \in Out(w, c) : r1 = r2
    /\ \A c \in Timed : \A r \in Out(w, c) : r.service = Subject(w, c)
    /\ "ack" \in w.flags => Out(w, "ack") # {}

\* The agent has been in n states.  While an action is under way no status is,
\* and what is out is not older than the outcome on the screen.
Ordered(w, n) ==
    /\ w.details.at <= n
    /\ \A r \in w.pending : r.since <= n
    /\ "action" \in w.flags => Out(w, "status") = {}
    /\ w.details.from = "action" =>
        /\ w.details.of # NoService
        /\ \A r \in Out(w, "status") \cup Out(w, "action") : r.since >= w.details.at

Kept(w) == w \in Desk /\ Tidy(w) /\ Ordered(w, Len(agent))

\* What OutcomeStays says of two snapshots.
NotOlder(d, e) ==
    d.from = "action" /\ e.of = d.of /\ e.from # "services" => e.at >= d.at

LEMMA TimedChannels ==
    /\ Timed \subseteq Channel /\ "action" \notin Timed /\ "ack" \notin Timed
    /\ "services" \in Timed /\ "status" \in Timed /\ Area \subseteq Timed
    /\ WindowChannel \subseteq Timed /\ PanelArea \subseteq Timed
    /\ Channel = Timed \cup {"action", "ack"}
    /\ WindowChannel \cap PanelArea = {} /\ "status" \notin Area
    /\ "services" \notin WindowChannel /\ "services" \notin PanelArea
    /\ Timed = {"services"} \cup WindowChannel \cup PanelArea
    /\ "action" \in Channel /\ "ack" \in Channel
  BY DesktopAssumption DEF Timed, Channel, Area, WindowChannel

-----------------------------------------------------------------------------
(* Which requests are left *)

LEMMA OutAfterAdvance ==
    ASSUME NEW w \in Desk, NEW C \in SUBSET Timed, NEW c \in Channel
    PROVE  /\ Out(Advance(w, C), c) = IF c \in C THEN {} ELSE Out(w, c)
           /\ \A r \in Advance(w, C).pending : \E q \in w.pending : r.since = q.since
<1> DEFINE outdated(r) == IF r.channel \in C THEN [r EXCEPT !.live = FALSE] ELSE r
<1>1. Advance(w, C).pending = {outdated(r) : r \in w.pending}
  BY DEF Advance, Desk
<1>2. \A r \in w.pending : /\ outdated(r).channel = r.channel /\ outdated(r).since = r.since
                           /\ r.channel \in C => outdated(r).live = FALSE
                           /\ r.channel \notin C => outdated(r) = r
  BY DEF Desk, Requests
<1> HIDE DEF outdated
<1>3. CASE c \in C
  <2>1. c \notin {"action", "ack"}
    BY <1>3, TimedChannels
  <2>2. \A r \in Advance(w, C).pending : r.channel = c => ~r.live
    BY <1>1, <1>2, <1>3
  <2>3. Out(Advance(w, C), c) = {}
    BY <2>1, <2>2 DEF Out
  <2> QED  BY <1>1, <1>2, <1>3, <2>3
<1>4. CASE c \notin C
  <2>1. Out(Advance(w, C), c) \subseteq Out(w, c)
    BY <1>1, <1>2, <1>4 DEF Out
  <2>2. Out(w, c) \subseteq Out(Advance(w, C), c)
    BY <1>1, <1>2, <1>4 DEF Out
  <2> QED  BY <1>1, <1>2, <1>4, <2>1, <2>2
<1> QED  BY <1>3, <1>4

LEMMA OutAfterForget ==
    ASSUME NEW w \in Desk, NEW C \in SUBSET Timed, NEW c \in Channel
    PROVE  /\ Out(Forget(w, C), c) = IF c \in C THEN {} ELSE Out(w, c)
           /\ \A r \in Forget(w, C).pending : \E q \in w.pending : r.since = q.since
  BY OutAfterAdvance, ForgetKeepsScreen DEF Out

LEMMA OutAfterAsk ==
    ASSUME NEW w \in Desk, Len(agent) \in Nat \ {0}, NEW C \in SUBSET Timed, NEW c \in Channel
    PROVE  /\ Out(Ask(w, C), c) = IF c \in C /\ MayAsk(w, c) THEN {Request(c, Subject(w, c), 0)}
                                  ELSE Out(w, c)
           /\ \A r \in Ask(w, C).pending :
                r.since = Len(agent) \/ \E q \in w.pending : r.since = q.since
<1> DEFINE asked == {x \in C : MayAsk(w, x)}
           new   == {Request(x, Subject(w, x), 0) : x \in asked}
           fresh == Advance(w, asked)
<1>1. asked \in SUBSET Timed /\ C \in SUBSET Channel
  BY TimedChannels
<1>2. Ask(w, C).pending = fresh.pending \cup new
  BY <1>1, AskKeepsScreen
<1>3. /\ Out(fresh, c) = IF c \in asked THEN {} ELSE Out(w, c)
      /\ \A r \in fresh.pending : \E q \in w.pending : r.since = q.since
  BY <1>1, OutAfterAdvance
<1>4. \A r \in new : r.since = Len(agent)
  BY DEF Request
<1>5. {r \in new : r.channel = c /\ (c \in {"action", "ack"} \/ r.live)}
        = IF c \in asked THEN {Request(c, Subject(w, c), 0)} ELSE {}
  BY DEF Request
<1>6. c \in asked <=> c \in C /\ MayAsk(w, c)
  OBVIOUS
<1> HIDE DEF asked, new, fresh
<1>7. Out(Ask(w, C), c) = Out(fresh, c) \cup {r \in new : r.channel = c /\ (c \in {"action", "ack"} \/ r.live)}
  BY <1>2 DEF Out
<1> QED  BY <1>2, <1>3, <1>4, <1>5, <1>6, <1>7

-----------------------------------------------------------------------------
(* What the operators on the window keep *)

LEMMA SameIsKept ==
    ASSUME NEW v \in Desk, NEW w \in Desk, Kept(w),
           v.flags = w.flags, v.pending = w.pending, v.details = w.details,
           v.current = w.current, v.panel = w.panel
    PROVE  Kept(v)
<1>1. \A c \in Channel : Out(v, c) = Out(w, c) /\ Subject(v, c) = Subject(w, c)
  BY DEF Out, Subject
<1>2. Tidy(v)
  BY <1>1, TimedChannels DEF Kept, Tidy
<1>3. Ordered(v, Len(agent))
  BY <1>1, TimedChannels DEF Kept, Ordered
<1> QED  BY <1>2, <1>3 DEF Kept

LEMMA AskIsKept ==
    ASSUME NEW w, Kept(w), Len(agent) \in Nat \ {0}, NEW C \in SUBSET Timed
    PROVE  Kept(Ask(w, C)) /\ Ask(w, C).details = w.details
<1> DEFINE v == Ask(w, C)
<1>1. w \in Desk /\ C \in SUBSET Channel
  BY TimedChannels DEF Kept
<1>2. /\ v \in Desk /\ v.details = w.details /\ v.current = w.current /\ v.panel = w.panel
      /\ v.flags = w.flags \cup {c \in C : MayAsk(w, c)}
  BY <1>1, AskKeepsScreen DEF SameScreen
<1>3. \A c \in Channel : Subject(v, c) = Subject(w, c)
  BY <1>2 DEF Subject
<1>4. \A c \in Channel :
        Out(v, c) = IF c \in C /\ MayAsk(w, c) THEN {Request(c, Subject(w, c), 0)} ELSE Out(w, c)
  BY <1>1, OutAfterAsk
<1>5. \A r \in v.pending : r.since = Len(agent) \/ \E q \in w.pending : r.since = q.since
  BY <1>1, OutAfterAsk, TimedChannels
<1>6. \A c \in Channel : /\ Request(c, Subject(w, c), 0).service = Subject(w, c)
                         /\ Request(c, Subject(w, c), 0).since = Len(agent)
  BY DEF Request
<1>7. \A c \in C : MayAsk(w, c) /\ c = "status" => "action" \notin w.flags
  BY DEF MayAsk
<1> HIDE DEF v
<1>8. Tidy(v)
  <2>1. ASSUME NEW c \in Channel \ {"ack"}
        PROVE  /\ c \in v.flags <=> Out(v, c) # {}
               /\ \A r1, r2 \in Out(v, c) : r1 = r2
    BY <1>2, <1>4 DEF Kept, Tidy
  <2>2. ASSUME NEW c \in Timed, NEW r \in Out(v, c)
        PROVE  r.service = Subject(v, c)
    BY <1>3, <1>4, <1>6, TimedChannels DEF Kept, Tidy
  <2>3. "ack" \in v.flags => Out(v, "ack") # {}
    BY <1>2, <1>4, TimedChannels DEF Kept, Tidy
  <2> QED  BY <2>1, <2>2, <2>3 DEF Tidy
<1>9. Ordered(v, Len(agent))
  <2>1. "action" \notin C
    BY TimedChannels
  <2>2. Out(v, "action") = Out(w, "action")
    BY <1>4, <2>1, TimedChannels
  <2>3. Out(v, "status") = Out(w, "status") \/
          ("action" \notin w.flags /\ \A r \in Out(v, "status") : r.since = Len(agent))
    BY <1>4, <1>6, <1>7, TimedChannels
  <2>4. "action" \in v.flags <=> "action" \in w.flags
    BY <1>2, <2>1
  <2>5. w.details.at <= Len(agent) /\ w.details.at \in Nat
    BY <1>1 DEF Kept, Ordered, Desk, Details
  <2> QED  BY <1>2, <1>5, <2>2, <2>3, <2>4, <2>5 DEF Kept, Ordered
<1> QED  BY <1>2, <1>8, <1>9 DEF Kept, v

LEMMA UpdateIsKept ==
    ASSUME NEW w, Kept(w)
    PROVE  /\ Kept(UpdateActionButtons(w))
           /\ UpdateActionButtons(w).details = w.details
  BY UpdateKeepsScreen, SameIsKept DEF Kept

\* Forgetting all that is out for the channels in C, and what may then change.
LEMMA ForgottenIsKept ==
    ASSUME NEW v \in Desk, NEW w, Kept(w), Len(agent) \in Nat, NEW C \in SUBSET Timed,
           \A c \in Channel : Out(v, c) = IF c \in C THEN {} ELSE Out(w, c),
           \A r \in v.pending : \E q \in w.pending : r.since = q.since,
           v.flags = w.flags \ C \/ v.flags = (w.flags \ C) \ {"ack"},
           \A c \in Timed \ C : Subject(v, c) = Subject(w, c),
           v.details \in {w.details, NoDetails}
    PROVE  Kept(v)
<1>1. Tidy(v)
  <2>1. ASSUME NEW c \in Channel \ {"ack"}
        PROVE  /\ c \in v.flags <=> Out(v, c) # {}
               /\ \A r1, r2 \in Out(v, c) : r1 = r2
    BY TimedChannels DEF Kept, Tidy
  <2>2. ASSUME NEW c \in Timed, NEW r \in Out(v, c)
        PROVE  r.service = Subject(v, c)
    BY TimedChannels DEF Kept, Tidy
  <2>3. "ack" \in v.flags => Out(v, "ack") # {}
    BY TimedChannels DEF Kept, Tidy
  <2> QED  BY <2>1, <2>2, <2>3 DEF Tidy
<1>2. Ordered(v, Len(agent))
  <2>1. Out(v, "action") \subseteq Out(w, "action") /\ Out(v, "status") \subseteq Out(w, "status")
    BY TimedChannels
  <2>2. "action" \in v.flags => "action" \in w.flags
    OBVIOUS
  <2>3. NoDetails.from # "action" /\ NoDetails.at = 0
    BY DEF NoDetails
  <2> QED  BY <2>1, <2>2, <2>3 DEF Kept, Ordered
<1> QED  BY <1>1, <1>2 DEF Kept

LEMMA ForgetIsKept ==
    ASSUME NEW w, Kept(w), Len(agent) \in Nat, NEW C \in SUBSET Timed
    PROVE  Kept(Forget(w, C)) /\ Forget(w, C).details = w.details
<1> DEFINE v == Forget(w, C)
<1>1. /\ v \in Desk /\ v.flags = w.flags \ C /\ v.details = w.details
      /\ v.current = w.current /\ v.panel = w.panel
  BY ForgetKeepsScreen DEF Kept, SameScreen
<1>2. /\ \A c \in Channel : Out(v, c) = IF c \in C THEN {} ELSE Out(w, c)
      /\ \A r \in v.pending : \E q \in w.pending : r.since = q.since
  BY OutAfterForget, TimedChannels DEF Kept
<1>3. \A c \in Timed \ C : Subject(v, c) = Subject(w, c)
  BY <1>1 DEF Subject
<1> HIDE DEF v
<1>4. Kept(v)
  BY <1>1, <1>2, <1>3, ForgottenIsKept
<1> QED  BY <1>1, <1>4 DEF v

LEMMA ClearDetailsIsKept ==
    ASSUME NEW w, Kept(w), Len(agent) \in Nat
    PROVE  Kept(ClearCurrentServiceDetails(w))
<1> DEFINE v == ClearCurrentServiceDetails(w)
<1>1. /\ v \in Desk /\ v.flags = (w.flags \ PanelArea) \ {"ack"} /\ v.details = NoDetails
      /\ v.current = w.current /\ v.pending = Advance(w, PanelArea).pending
  BY ClearDetailsClears DEF Kept
<1>2. /\ \A c \in Channel : Out(v, c) = IF c \in PanelArea THEN {} ELSE Out(w, c)
      /\ \A r \in v.pending : \E q \in w.pending : r.since = q.since
  BY <1>1, OutAfterAdvance, TimedChannels DEF Kept, Out
<1>3. \A c \in Timed \ PanelArea : Subject(v, c) = Subject(w, c)
  BY <1>1 DEF Subject
<1> HIDE DEF v
<1>4. Kept(v)
  BY <1>1, <1>2, <1>3, ForgottenIsKept, TimedChannels
<1> QED  BY <1>4 DEF v

LEMMA ClearPanelsIsKept ==
    ASSUME NEW w, Kept(w), Len(agent) \in Nat, NEW s \in Service \cup {NoService}
    PROVE  Kept(ClearPanels(w, s)) /\ ClearPanels(w, s).details = w.details
<1> DEFINE v == ClearPanels(w, s)
<1>1. /\ v \in Desk /\ v.flags = (w.flags \ PanelArea) \ {"ack"} /\ v.details = w.details
      /\ v.current = w.current /\ v.pending = Advance(w, PanelArea).pending
  BY ClearPanelsClears DEF Kept
<1>2. /\ \A c \in Channel : Out(v, c) = IF c \in PanelArea THEN {} ELSE Out(w, c)
      /\ \A r \in v.pending : \E q \in w.pending : r.since = q.since
  BY <1>1, OutAfterAdvance, TimedChannels DEF Kept, Out
<1>3. \A c \in Timed \ PanelArea : Subject(v, c) = Subject(w, c)
  BY <1>1 DEF Subject
<1> HIDE DEF v
<1>4. Kept(v)
  BY <1>1, <1>2, <1>3, ForgottenIsKept, TimedChannels
<1> QED  BY <1>1, <1>4 DEF v

LEMMA SelectServiceIsKept ==
    ASSUME NEW w, Kept(w), Len(agent) \in Nat \ {0}, NEW s \in Service
    PROVE  Kept(SelectService(w, s))
<1>1. CASE s = w.current
  BY <1>1 DEF SelectService
<1>2. CASE s # w.current
  <2> DEFINE chosen    == [w EXCEPT !.current = s]
             forgotten == Forget(chosen, WindowChannel)
             cleared   == ClearCurrentServiceDetails(forgotten)
             moved     == SetServiceId(cleared)
  <2>1. SelectService(w, s) = Ask(moved, WindowChannel)
    BY <1>2 DEF SelectService
  <2>2. /\ chosen \in Desk /\ chosen.flags = w.flags /\ chosen.pending = w.pending
        /\ chosen.details = w.details /\ chosen.panel = w.panel
    BY DEF Kept, Desk
  <2> HIDE DEF chosen
  <2>3. /\ forgotten \in Desk /\ forgotten.flags = w.flags \ WindowChannel
        /\ forgotten.details = w.details /\ forgotten.panel = w.panel
    BY <2>2, ForgetKeepsScreen DEF SameScreen
  <2>4. /\ \A c \in Channel : Out(forgotten, c) = IF c \in WindowChannel THEN {} ELSE Out(w, c)
        /\ \A r \in forgotten.pending : \E q \in w.pending : r.since = q.since
    BY <2>2, OutAfterForget, TimedChannels DEF Out
  <2>5. \A c \in Timed \ WindowChannel : Subject(forgotten, c) = Subject(w, c)
    BY <2>3, TimedChannels DEF Subject
  <2> HIDE DEF forgotten
  <2>6. Kept(forgotten)
    BY <2>3, <2>4, <2>5, ForgottenIsKept, TimedChannels
  <2>7. Kept(cleared)
    BY <2>6, ClearDetailsIsKept
  <2> HIDE DEF cleared
  <2>8. Kept(moved)
    <3>1. cleared.current \in Service \cup {NoService}
      BY <2>7 DEF Kept, Desk
    <3> QED  BY <2>7, <3>1, ClearPanelsIsKept, AskIsKept, TimedChannels DEF SetServiceId
  <2> HIDE DEF moved
  <2> QED  BY <2>1, <2>8, AskIsKept, TimedChannels
<1> QED  BY <1>1, <1>2

LEMMA ApplySnapshotIsKept ==
    ASSUME NEW w, Kept(w), Len(agent) \in Nat, Shows(w), NEW statuses, statuses[w.current] \in State,
           NEW at \in Nat, at <= Len(agent), NEW from \in Source,
           from = "action" => /\ w.current # NoService
                              /\ Out(w, "status") = {} /\ Out(w, "action") = {}
    PROVE  Kept(ApplySnapshot(w, w.current, statuses, at, from))
<1> DEFINE v == ApplySnapshot(w, w.current, statuses, at, from)
           u == [w EXCEPT !.details = [of |-> w.current, state |-> statuses[w.current],
                                       at |-> at, from |-> from]]
<1>1. v = UpdateActionButtons(u)
  BY DEF ApplySnapshot
<1>2. /\ u \in Desk /\ u.flags = w.flags /\ u.pending = w.pending /\ u.current = w.current
      /\ u.panel = w.panel /\ u.details.of = w.current /\ u.details.at = at
      /\ u.details.from = from
  BY DEF Kept, Desk, Details, Source
<1> HIDE DEF u
<1>3. \A c \in Channel : Out(u, c) = Out(w, c) /\ Subject(u, c) = Subject(w, c)
  BY <1>2 DEF Out, Subject
<1>4. Tidy(u)
  BY <1>2, <1>3, TimedChannels DEF Kept, Tidy
<1>5. Ordered(u, Len(agent))
  BY <1>2, <1>3, TimedChannels DEF Kept, Ordered
<1> QED  BY <1>1, <1>2, <1>4, <1>5, UpdateIsKept DEF Kept

LEMMA ApplyServiceListIsKept ==
    ASSUME NEW w, Kept(w), Shows(w), Len(agent) \in Nat \ {0}, NEW listed \in SUBSET Service,
           NEW statuses \in [listed -> State], NEW at \in Nat, at <= Len(agent),
           NEW first \in listed
    PROVE  Kept(ApplyServiceList(w, statuses, at, first))
<1> DEFINE filled == [w EXCEPT !.items = DOMAIN statuses]
<1>1. /\ filled \in Desk /\ filled.current = w.current /\ filled.details = w.details
      /\ filled.panel = w.panel /\ filled.flags = w.flags /\ filled.pending = w.pending
      /\ filled.shown = w.shown
  BY DEF Kept, Desk
<1>2. ApplyServiceList(w, statuses, at, first) =
        IF w.current \in DOMAIN statuses
        THEN ApplySnapshot(filled, w.current, statuses, at, "services")
        ELSE SelectService(filled, first)
  BY DEF ApplyServiceList
<1> HIDE DEF filled
<1>3. Kept(filled) /\ Shows(filled)
  BY <1>1, SameIsKept DEF Kept, Shows
<1>4. CASE w.current \in DOMAIN statuses
  BY <1>1, <1>2, <1>3, <1>4, ApplySnapshotIsKept DEF Source
<1>5. CASE w.current \notin DOMAIN statuses
  BY <1>2, <1>3, <1>5, SelectServiceIsKept
<1> QED  BY <1>4, <1>5

-----------------------------------------------------------------------------
(* Each step *)

Good == TypeOK /\ Sound(desk) /\ Kept(desk)

LEMMA TakenIsKept ==
    ASSUME Good, NEW r \in desk.pending, r \notin Out(desk, r.channel)
    PROVE  Kept(Taken(r)) /\ Taken(r).details = desk.details
<1> DEFINE v == Taken(r)
<1>1. /\ v \in Desk /\ v.flags = desk.flags /\ v.pending = desk.pending \ {r}
      /\ v.details = desk.details /\ v.current = desk.current /\ v.panel = desk.panel
  BY TakenIsSound DEF SameScreen, Good
<1> HIDE DEF v
<1>2. \A c \in Channel : Out(v, c) = Out(desk, c) /\ Subject(v, c) = Subject(desk, c)
  BY <1>1 DEF Out, Subject
<1>3. Tidy(v)
  BY <1>1, <1>2, TimedChannels DEF Good, Kept, Tidy
<1>4. Ordered(v, Len(agent))
  BY <1>1, <1>2, TimedChannels DEF Good, Kept, Ordered
<1> QED  BY <1>1, <1>3, <1>4 DEF Kept, v

LEMMA DoneIsKept ==
    ASSUME Good, NEW r \in desk.pending, r \in Out(desk, r.channel)
    PROVE  LET done == Done(Taken(r), r)
           IN  /\ Kept(done) /\ SameScreen(done, desk)
               /\ r.channel # "ack" => Out(done, r.channel) = {}
               /\ Out(done, "status") \subseteq Out(desk, "status")
<1> DEFINE v == Done(Taken(r), r)
<1>1. /\ v \in Desk /\ v.flags = desk.flags \ {r.channel} /\ v.pending = desk.pending \ {r}
      /\ SameScreen(v, desk)
  BY TakenIsSound DEF Good
<1>2. v.details = desk.details /\ v.current = desk.current /\ v.panel = desk.panel
  BY <1>1 DEF SameScreen
<1> HIDE DEF v
<1>3. \A c \in Channel : Out(v, c) = Out(desk, c) \ {r} /\ Subject(v, c) = Subject(desk, c)
  BY <1>1, <1>2 DEF Out, Subject
<1>4. r.channel \in Channel /\ \A c \in Channel : r \in Out(desk, c) => c = r.channel
  BY DEF Good, Kept, Desk, Requests, Out
<1>5. \A c \in Channel \ {r.channel} : Out(v, c) = Out(desk, c)
  BY <1>3, <1>4
<1>6. r.channel # "ack" => Out(v, r.channel) = {}
  BY <1>3, <1>4 DEF Good, Kept, Tidy
<1>7. Tidy(v)
  <2>1. ASSUME NEW c \in Channel \ {"ack"}
        PROVE  /\ c \in v.flags <=> Out(v, c) # {}
               /\ \A r1, r2 \in Out(v, c) : r1 = r2
    BY <1>1, <1>5, <1>6 DEF Good, Kept, Tidy
  <2>2. ASSUME NEW c \in Timed, NEW q \in Out(v, c)
        PROVE  q.service = Subject(v, c)
    BY <1>3, TimedChannels DEF Good, Kept, Tidy
  <2>3. "ack" \in v.flags => Out(v, "ack") # {}
    BY <1>1, <1>5, TimedChannels DEF Good, Kept, Tidy
  <2> QED  BY <2>1, <2>2, <2>3 DEF Tidy
<1>8. Ordered(v, Len(agent))
  <2>1. Out(v, "action") \subseteq Out(desk, "action") /\ Out(v, "status") \subseteq Out(desk, "status")
    BY <1>3, TimedChannels
  <2> QED  BY <1>1, <1>2, <2>1 DEF Good, Kept, Ordered
<1> QED  BY <1>1, <1>3, <1>6, <1>7, <1>8, TimedChannels DEF Kept, v

\* An answer that is not expected is to a request that no longer counts.
LEMMA ExpectedCounts ==
    ASSUME Good, NEW r \in desk.pending
    PROVE  /\ r.channel \in Timed => (Expected(desk, r) <=> r \in Out(desk, r.channel))
           /\ r.channel \in {"action", "ack"} => r \in Out(desk, r.channel)
  BY DEF Good, Kept, Tidy, Out, Expected, Timed

LEMMA OnServicesIsKept ==
    ASSUME Good, NEW r \in desk.pending, NEW at \in 1 .. Len(agent),
           NEW answer \in Answers("services", r.service, agent[at].listed, agent[at].status) \cup {Failed},
           OnServices(r, answer, at)
    PROVE  Kept(desk') /\ (desk'.details = desk.details \/ desk'.details = NoDetails
                           \/ desk'.details.from = "services")
<1> DEFINE done == Done(Taken(r), r)
<1>1. r.channel = "services"
  BY DEF OnServices
<1>2. CASE ~Expected(desk, r)
  BY <1>1, <1>2, ExpectedCounts, TakenIsKept, TimedChannels DEF OnServices, Handler
<1>3. CASE Expected(desk, r)
  <2>1. Kept(done) /\ SameScreen(done, desk) /\ Sound(done)
    BY <1>1, <1>3, ExpectedCounts, DoneIsKept, TakenIsSound, TimedChannels DEF Good
  <2>2. CASE answer.kind # "ok"
    BY <1>3, <2>1, <2>2 DEF OnServices, Handler, SameScreen
  <2>3. CASE answer.kind = "ok"
    <3>1. r.service \in Service \cup {NoService}
      BY DEF Good, Sound, Desk, Requests
    <3>2. agent[at] \in AgentState /\ Len(agent) \in Nat \ {0} /\ at \in Nat /\ at <= Len(agent)
      BY AgentLength DEF Good
    <3>3. answer.statuses \in [agent[at].listed -> State]
      BY <2>3, <3>1, <3>2, AnswerIsTyped DEF Channel
    <3>4. agent[at].listed \in SUBSET Service
      BY <3>2 DEF AgentState
    <3>5. PICK first \in agent[at].listed : desk' = ApplyServiceList(done, answer.statuses, at, first)
      BY <1>3, <2>3, <3>3 DEF OnServices, Handler
    <3> HIDE DEF done
    <3>6. Kept(desk')
      BY <2>1, <3>2, <3>3, <3>4, <3>5, ApplyServiceListIsKept DEF Sound
    <3>7. desk'.details.from = "services" \/ desk'.details = done.details \/ desk'.details = NoDetails
      BY <2>1, <3>2, <3>3, <3>4, <3>5, ApplyServiceListIsSound
    <3> QED  BY <2>1, <3>6, <3>7 DEF SameScreen
  <2> QED  BY <2>2, <2>3
<1> QED  BY <1>2, <1>3

LEMMA OnStatusIsKept ==
    ASSUME Good, NEW r \in desk.pending, NEW at \in 1 .. Len(agent), at >= r.since,
           NEW answer \in Answers("status", r.service, agent[at].listed, agent[at].status) \cup {Failed},
           OnStatus(r, answer, at)
    PROVE  Kept(desk') /\ (desk'.details = desk.details \/ NotOlder(desk.details, desk'.details))
<1> DEFINE done == Done(Taken(r), r)
<1>1. r.channel = "status"
  BY DEF OnStatus
<1>2. CASE ~Expected(desk, r)
  BY <1>1, <1>2, ExpectedCounts, TakenIsKept, TimedChannels DEF OnStatus, Handler
<1>3. CASE Expected(desk, r)
  <2>1. Kept(done) /\ SameScreen(done, desk) /\ Sound(done) /\ r \in Out(desk, "status")
    BY <1>1, <1>3, ExpectedCounts, DoneIsKept, TakenIsSound, TimedChannels DEF Good
  <2>2. CASE answer.kind # "ok"
    BY <1>3, <2>1, <2>2 DEF OnStatus, Handler, SameScreen
  <2>3. CASE answer.kind = "ok"
    <3>1. r.service \in Service \cup {NoService} /\ r.service = desk.current
      BY <1>1, <1>3, ChannelsDiffer DEF Good, Sound, Desk, Requests, Expected, Subject, Area
    <3>2. /\ agent[at] \in AgentState /\ Len(agent) \in Nat /\ at \in Nat /\ at <= Len(agent)
      BY AgentLength DEF Good
    <3>3. answer.statuses[r.service] \in State
      BY <2>3, <3>1, <3>2, AnswerIsTyped DEF Channel
    <3>4. desk' = ApplySnapshot(done, r.service, answer.statuses, at, "status")
      BY <1>3, <2>3 DEF OnStatus, Handler
    <3>5. done.current = desk.current
      BY <2>1 DEF SameScreen
    <3> HIDE DEF done
    <3>6. Kept(desk')
      BY <2>1, <3>1, <3>2, <3>3, <3>4, <3>5, ApplySnapshotIsKept DEF Sound, Source
    <3>7. desk'.details.at = at
      BY <2>1, <3>1, <3>2, <3>3, <3>4, <3>5, ApplySnapshotIsSound DEF Sound, Source
    <3>8. desk.details.from = "action" => r.since >= desk.details.at
      BY <2>1 DEF Good, Kept, Ordered
    <3>9. r.since \in Nat /\ desk.details.at \in Nat
      BY DEF Good, Sound, Desk, Requests, Details
    <3> QED  BY <3>2, <3>6, <3>7, <3>8, <3>9 DEF NotOlder
  <2> QED  BY <2>2, <2>3
<1> QED  BY <1>2, <1>3

LEMMA OnActionIsKept ==
    ASSUME Good, NEW r \in desk.pending, NEW at \in 1 .. Len(agent), at >= r.since,
           NEW answer \in Answers("action", r.service, agent[at].listed, agent[at].status) \cup {Failed},
           OnAction(r, answer, at)
    PROVE  Kept(desk') /\ (desk'.details = desk.details \/ NotOlder(desk.details, desk'.details))
<1> DEFINE done    == Done(Taken(r), r)
           snap    == ApplySnapshot(done, r.service, answer.statuses, at, "action")
           applied == IF r.service # desk.current THEN done ELSE Ask(snap, Area)
<1>1. r.channel = "action" /\ r \in Out(desk, "action")
  BY ExpectedCounts DEF OnAction
<1>2. Kept(done) /\ SameScreen(done, desk) /\ Out(done, "action") = {}
  BY <1>1, DoneIsKept
<1>3. Out(done, "status") = {}
  <2>1. Out(done, "status") \subseteq Out(desk, "status")
    BY <1>1, DoneIsKept
  <2>2. "action" \in desk.flags
    BY <1>1, TimedChannels DEF Good, Kept, Tidy
  <2> QED  BY <2>1, <2>2 DEF Good, Kept, Ordered
<1>4. done.details = desk.details /\ done.current = desk.current /\ Shows(done)
  BY <1>2 DEF SameScreen, Good, Sound, Shows
<1>5. Len(agent) \in Nat \ {0} /\ at \in Nat /\ at <= Len(agent)
  BY AgentLength DEF Good
<1> HIDE DEF done
<1>6. CASE answer.kind = "ok"
  <2>1. desk' = UpdateActionButtons(Ask(applied, {"services"}))
    BY <1>6 DEF OnAction, Handler, RefreshServices, done
  <2>2. Kept(applied) /\ (applied.details = desk.details \/ NotOlder(desk.details, applied.details))
    <3>1. CASE r.service # desk.current
      BY <1>2, <1>4, <3>1
    <3>2. CASE r.service = desk.current
      <4>1. r.service \in Service \cup {NoService} /\ agent[at] \in AgentState
        BY AgentLength DEF Good, Sound, Desk, Requests
      <4>2. answer.statuses[r.service] \in State /\ r.service \in Service
        BY <1>6, <4>1, AnswerIsTyped DEF Channel
      <4>3. r.service # NoService
        BY <4>2, NoServiceAssumption
      <4>4. Kept(snap)
        BY <1>2, <1>3, <1>4, <1>5, <3>2, <4>2, <4>3, ApplySnapshotIsKept DEF Source
      <4>5. snap.details.at = at
        BY <1>2, <1>4, <1>5, <3>2, <4>2, ApplySnapshotIsSound DEF Source, Kept
      <4> HIDE DEF snap
      <4>6. Kept(Ask(snap, Area)) /\ Ask(snap, Area).details = snap.details
        BY <1>5, <4>4, AskIsKept, TimedChannels
      <4>7. desk.details.from = "action" => r.since >= desk.details.at
        BY <1>1 DEF Good, Kept, Ordered
      <4>8. r.since \in Nat /\ desk.details.at \in Nat
        BY DEF Good, Sound, Desk, Requests, Details
      <4> QED  BY <1>5, <3>2, <4>5, <4>6, <4>7, <4>8 DEF NotOlder
    <3> QED  BY <3>1, <3>2
  <2> HIDE DEF applied
  <2> DEFINE asked == Ask(applied, {"services"})
  <2>3. Kept(asked) /\ asked.details = applied.details
    BY <1>5, <2>2, AskIsKept, TimedChannels
  <2> HIDE DEF asked
  <2>4. Kept(UpdateActionButtons(asked)) /\ UpdateActionButtons(asked).details = asked.details
    BY <2>3, UpdateIsKept
  <2> QED  BY <2>1, <2>2, <2>3, <2>4 DEF asked
<1>7. CASE answer.kind # "ok"
  <2> DEFINE u == UpdateActionButtons(done)
  <2>1. desk' = [u EXCEPT !.dialog = TRUE]
    BY <1>7 DEF OnAction, Handler, done
  <2>2. Kept(u) /\ u.details = desk.details
    BY <1>2, <1>4, UpdateIsKept
  <2> HIDE DEF u
  <2>3. /\ desk' \in Desk /\ desk'.flags = u.flags /\ desk'.pending = u.pending
        /\ desk'.details = u.details /\ desk'.current = u.current /\ desk'.panel = u.panel
    BY <2>1, <2>2 DEF Kept, Desk
  <2> QED  BY <2>2, <2>3, SameIsKept DEF Kept
<1> QED  BY <1>6, <1>7

LEMMA OnAreaIsKept ==
    ASSUME Good, NEW r \in desk.pending, NEW answer, OnArea(r, answer)
    PROVE  Kept(desk') /\ desk'.details = desk.details
<1> DEFINE done == Done(Taken(r), r)
<1>1. r.channel \in Area /\ r.channel \in Timed
  BY TimedChannels DEF OnArea
<1>2. CASE ~Expected(desk, r)
  BY <1>1, <1>2, ExpectedCounts, TakenIsKept DEF OnArea, Handler
<1>3. CASE Expected(desk, r)
  <2>1. Kept(done) /\ done.details = desk.details
    BY <1>1, <1>3, ExpectedCounts, DoneIsKept DEF SameScreen
  <2>2. \/ desk' = done \/ desk' = [done EXCEPT !.shown[r.channel] = r.service]
        \/ desk' = [done EXCEPT !.shown["metrics"] = NoService]
    BY <1>3 DEF OnArea, Handler
  <2>3. r.service \in Service \cup {NoService}
    BY DEF Good, Sound, Desk, Requests
  <2> HIDE DEF done
  <2>4. /\ desk' \in Desk /\ desk'.flags = done.flags /\ desk'.pending = done.pending
        /\ desk'.details = done.details /\ desk'.current = done.current /\ desk'.panel = done.panel
    BY <2>1, <2>2, <2>3 DEF Kept, Desk
  <2> QED  BY <2>1, <2>4, SameIsKept DEF Kept
<1> QED  BY <1>2, <1>3

LEMMA OnAcknowledgedIsKept ==
    ASSUME Good, NEW r \in desk.pending, NEW answer, OnAcknowledged(r, answer)
    PROVE  Kept(desk') /\ desk'.details = desk.details
<1> DEFINE done == Done(Taken(r), r)
<1>1. Kept(done) /\ done.details = desk.details
  BY ExpectedCounts, DoneIsKept DEF OnAcknowledged, SameScreen
<1>2. {"alerts"} \cap Area \in SUBSET Timed
  BY TimedChannels
<1>3. desk' = done \/ desk' = Ask(done, {"alerts"} \cap Area)
  BY DEF OnAcknowledged, Handler, RefreshAlerts
<1> QED  BY <1>1, <1>2, <1>3, AgentLength, AskIsKept DEF Good

\* A step that leaves the agent alone keeps the invariant, and the outcome.
Step == Kept(desk') /\ (desk'.details = desk.details \/ NotOlder(desk.details, desk'.details))

LEMMA ReceiveIsKept ==
    ASSUME Good, NEW c \in Channel, Receive(c)
    PROVE  Step
<1> DEFINE Received(r, at, answer) ==
      /\ r.channel = c
      /\ \/ OnServices(r, answer, at) \/ OnStatus(r, answer, at) \/ OnAction(r, answer, at)
         \/ OnArea(r, answer) \/ OnAcknowledged(r, answer)
<1>1. PICK r \in desk.pending : \E at \in r.since .. Len(agent) :
        \E answer \in Answers(c, r.service, agent[at].listed, agent[at].status) \cup {Failed} :
            Received(r, at, answer)
  BY DEF Receive
<1>2. PICK at \in r.since .. Len(agent) :
        \E answer \in Answers(c, r.service, agent[at].listed, agent[at].status) \cup {Failed} :
            Received(r, at, answer)
  BY <1>1
<1>3. PICK answer \in Answers(c, r.service, agent[at].listed, agent[at].status) \cup {Failed} :
            Received(r, at, answer)
  BY <1>2
<1>4. at \in 1 .. Len(agent) /\ at >= r.since
  BY AgentLength DEF Good, Sound, Desk, Requests
<1>5. CASE OnServices(r, answer, at)
  <2>1. c = "services" /\ Kept(desk')
    BY <1>3, <1>4, <1>5, OnServicesIsKept DEF OnServices
  <2>2. desk'.details = desk.details \/ desk'.details = NoDetails \/ desk'.details.from = "services"
    BY <1>3, <1>4, <1>5, OnServicesIsKept DEF OnServices
  <2>3. desk.details.from = "action" => desk.details.of # NoService
    BY DEF Good, Kept, Ordered
  <2> QED  BY <2>1, <2>2, <2>3 DEF Step, NotOlder, NoDetails
<1>6. CASE OnStatus(r, answer, at)
  BY <1>3, <1>4, <1>6, OnStatusIsKept DEF OnStatus, Step
<1>7. CASE OnAction(r, answer, at)
  BY <1>3, <1>4, <1>7, OnActionIsKept DEF OnAction, Step
<1>8. CASE OnArea(r, answer)
  BY <1>8, OnAreaIsKept DEF Step
<1>9. CASE OnAcknowledged(r, answer)
  BY <1>9, OnAcknowledgedIsKept DEF Step
<1> QED  BY <1>3, <1>5, <1>6, <1>7, <1>8, <1>9

LEMMA ExecuteActionIsKept ==
    ASSUME Good, ExecuteAction
    PROVE  Step
<1> DEFINE forgotten == Forget(desk, WindowChannel)
           request   == Request("action", desk.current, 0)
           sent      == [forgotten EXCEPT !.flags = @ \cup {"action"},
                                          !.pending = @ \cup {request}]
<1>1. desk' = UpdateActionButtons(sent) /\ "action" \notin desk.flags
  BY DEF ExecuteAction, Handler
<1>2. Kept(forgotten) /\ forgotten.details = desk.details
  BY ForgetIsKept, TimedChannels, AgentLength DEF Good
<1>3. Out(forgotten, "action") = {} /\ Out(forgotten, "status") = {}
  <2>1. Out(desk, "action") = {}
    BY <1>1, TimedChannels DEF Good, Kept, Tidy
  <2> QED  BY <2>1, OutAfterForget, TimedChannels DEF Good, Kept, WindowChannel
<1>4. /\ request \in Requests /\ request.channel = "action" /\ request.since = Len(agent)
  BY AgentLength, RequestIsTyped DEF Channel, Good, Sound, Desk, Request
<1> HIDE DEF forgotten, request
<1>5. /\ sent \in Desk /\ sent.flags = forgotten.flags \cup {"action"}
      /\ sent.pending = forgotten.pending \cup {request}
      /\ sent.details = desk.details /\ sent.current = forgotten.current
      /\ sent.panel = forgotten.panel
  BY <1>2, <1>4, TimedChannels DEF Kept, Desk
<1> HIDE DEF sent
<1>6. /\ Out(sent, "action") = {request}
      /\ \A c \in Channel \ {"action"} : Out(sent, c) = Out(forgotten, c)
      /\ \A c \in Channel : Subject(sent, c) = Subject(forgotten, c)
  BY <1>3, <1>4, <1>5 DEF Out, Subject
<1>7. Tidy(sent)
  <2>1. ASSUME NEW c \in Channel \ {"ack"}
        PROVE  /\ c \in sent.flags <=> Out(sent, c) # {}
               /\ \A r1, r2 \in Out(sent, c) : r1 = r2
    BY <1>2, <1>5, <1>6 DEF Kept, Tidy
  <2>2. ASSUME NEW c \in Timed, NEW q \in Out(sent, c)
        PROVE  q.service = Subject(sent, c)
    BY <1>2, <1>6, TimedChannels DEF Kept, Tidy
  <2>3. "ack" \in sent.flags => Out(sent, "ack") # {}
    BY <1>2, <1>5, <1>6, TimedChannels DEF Kept, Tidy
  <2> QED  BY <2>1, <2>2, <2>3 DEF Tidy
<1>8. Ordered(sent, Len(agent))
  <2>1. Out(sent, "status") = {}
    BY <1>3, <1>6, TimedChannels
  <2>2. Len(agent) \in Nat
    BY AgentLength DEF Good
  <2> QED  BY <1>2, <1>4, <1>5, <1>6, <2>1, <2>2 DEF Kept, Ordered
<1> QED  BY <1>1, <1>5, <1>7, <1>8, UpdateIsKept DEF Kept, Step

LEMMA AcknowledgeIsKept ==
    ASSUME Good, AcknowledgeSelectedAlert
    PROVE  Step
<1> DEFINE request == Request("ack", desk.panel, clicks)
<1>1. request \in Requests /\ request.channel = "ack" /\ request.since = Len(agent)
  BY AgentLength, RequestIsTyped DEF Channel, Good, Sound, Desk, TypeOK, Request
<1>2. desk' = [desk EXCEPT !.flags = @ \cup {"ack"}, !.pending = @ \cup {request}]
  BY DEF AcknowledgeSelectedAlert, Handler
<1> HIDE DEF request
<1>3. /\ desk' \in Desk /\ desk'.flags = desk.flags \cup {"ack"}
      /\ desk'.pending = desk.pending \cup {request} /\ desk'.details = desk.details
      /\ desk'.current = desk.current /\ desk'.panel = desk.panel
  BY <1>1, <1>2, TimedChannels DEF Good, Kept, Desk
<1>4. /\ request \in Out(desk', "ack")
      /\ \A c \in Channel \ {"ack"} : Out(desk', c) = Out(desk, c)
      /\ \A c \in Channel : Subject(desk', c) = Subject(desk, c)
  BY <1>1, <1>3 DEF Out, Subject
<1>5. Tidy(desk')
  <2>1. ASSUME NEW c \in Channel \ {"ack"}
        PROVE  /\ c \in desk'.flags <=> Out(desk', c) # {}
               /\ \A r1, r2 \in Out(desk', c) : r1 = r2
    BY <1>3, <1>4 DEF Good, Kept, Tidy
  <2>2. ASSUME NEW c \in Timed, NEW q \in Out(desk', c)
        PROVE  q.service = Subject(desk', c)
    BY <1>4, TimedChannels DEF Good, Kept, Tidy
  <2> QED  BY <1>4, <2>1, <2>2 DEF Tidy
<1>6. Ordered(desk', Len(agent))
  <2>1. Len(agent) \in Nat
    BY AgentLength DEF Good
  <2> QED  BY <1>1, <1>3, <1>4, <2>1, TimedChannels DEF Good, Kept, Ordered
<1> QED  BY <1>3, <1>5, <1>6 DEF Kept, Step

LEMMA UserIsKept ==
    ASSUME Good,
           \/ \E s \in Service : SelectItem(s)
           \/ ExecuteAction \/ ClickRefresh \/ AcknowledgeSelectedAlert \/ CloseDialog
           \/ Tick
    PROVE  Step
<1>1. Len(agent) \in Nat \ {0} /\ Kept(desk) /\ Sound(desk)
  BY AgentLength DEF Good
<1>2. CASE \E s \in Service : SelectItem(s)
  <2>1. PICK s \in Service : desk' = SelectService(desk, s)
    BY <1>2 DEF SelectItem, Handler
  <2>2. Kept(desk') /\ desk'.details \in {desk.details, NoDetails}
    BY <1>1, <2>1, SelectServiceIsKept, SelectServiceIsSound
  <2>3. desk.details.from = "action" => desk.details.of # NoService
    BY <1>1 DEF Kept, Ordered
  <2> QED  BY <2>2, <2>3 DEF Step, NotOlder, NoDetails
<1>3. CASE ClickRefresh \/ Tick
  <2>1. \E C \in SUBSET Timed : desk' = Ask(desk, C)
    BY <1>3, TimedChannels DEF ClickRefresh, RefreshLogs, Refresh, RefreshAlerts, Tick,
                              Handler, RefreshAll, Timed
  <2> QED  BY <1>1, <2>1, AskIsKept DEF Step
<1>4. CASE CloseDialog
  <2>1. desk' = [desk EXCEPT !.dialog = FALSE]
    BY <1>4 DEF CloseDialog, Handler
  <2>2. /\ desk' \in Desk /\ desk'.flags = desk.flags /\ desk'.pending = desk.pending
        /\ desk'.details = desk.details /\ desk'.current = desk.current /\ desk'.panel = desk.panel
    BY <1>1, <2>1 DEF Kept, Desk
  <2> QED  BY <1>1, <2>2, SameIsKept DEF Kept, Step
<1> QED  BY <1>2, <1>3, <1>4, ExecuteActionIsKept, AcknowledgeIsKept

\* The same of a step of the agent, which gets into another state.
AgentStep ==
    /\ Tidy(desk') /\ Ordered(desk', Len(agent'))
    /\ desk'.details = desk.details \/ NotOlder(desk.details, desk'.details)

LEMMA AgentIsKept ==
    ASSUME Good, Serve \/ ServiceChanges \/ AgentRestarts
    PROVE  AgentStep
<1>1. Len(agent) \in Nat \ {0} /\ Len(agent') = Len(agent) + 1
  <2>1. \E state : agent' = Append(agent, state)
    BY DEF Serve, ServiceChanges, AgentRestarts
  <2> QED  BY <2>1, AgentLength DEF Good, TypeOK
<1>2. CASE ServiceChanges \/ AgentRestarts
  <2>1. desk' = desk
    BY <1>2 DEF ServiceChanges, AgentRestarts
  <2>2. Ordered(desk, Len(agent) + 1)
    BY <1>1 DEF Good, Kept, Ordered, Sound, Desk, Requests, Details
  <2> QED  BY <1>1, <2>1, <2>2 DEF Good, Kept, AgentStep
<1>3. CASE Serve
  <2>1. PICK r \in desk.pending :
          /\ r.channel = "action"
          /\ desk' = [desk EXCEPT !.pending =
                        (@ \ {r}) \cup {[r EXCEPT !.served = TRUE, !.since = Len(agent')]}]
    BY <1>3 DEF Serve
  <2> DEFINE served == [r EXCEPT !.served = TRUE, !.since = Len(agent')]
  <2>2. served.channel = "action" /\ served.since = Len(agent')
    BY <2>1 DEF Good, Sound, Desk, Requests
  <2> HIDE DEF served
  <2>3. /\ desk'.pending = (desk.pending \ {r}) \cup {served} /\ desk'.flags = desk.flags
        /\ desk'.details = desk.details /\ desk'.current = desk.current
        /\ desk'.panel = desk.panel
    BY <2>1 DEF Good, Sound, Desk, served
  <2>4. \A c \in Channel \ {"action"} : Out(desk', c) = Out(desk, c)
    BY <2>1, <2>2, <2>3 DEF Out
  <2>5. \A c \in Channel : Subject(desk', c) = Subject(desk, c)
    BY <2>3 DEF Subject
  <2>6. Out(desk', "action") = {served} /\ Out(desk, "action") = {r}
    <3>1. r \in Out(desk, "action") /\ \A q \in Out(desk, "action") : q = r
      BY <2>1, TimedChannels DEF Good, Kept, Tidy, Out
    <3> QED  BY <2>2, <2>3, <3>1 DEF Out
  <2>7. Tidy(desk')
    <3>1. ASSUME NEW c \in Channel \ {"ack"}
          PROVE  /\ c \in desk'.flags <=> Out(desk', c) # {}
                 /\ \A r1, r2 \in Out(desk', c) : r1 = r2
      <4>1. /\ c \in desk.flags <=> Out(desk, c) # {}
            /\ \A r1, r2 \in Out(desk, c) : r1 = r2
        BY DEF Good, Kept, Tidy
      <4>2. CASE c = "action"
        BY <2>3, <2>6, <4>1, <4>2
      <4>3. CASE c # "action"
        BY <2>3, <2>4, <4>1, <4>3
      <4> QED  BY <4>2, <4>3
    <3>2. ASSUME NEW c \in Timed, NEW q \in Out(desk', c)
          PROVE  q.service = Subject(desk', c)
      BY <2>4, <2>5, TimedChannels DEF Good, Kept, Tidy
    <3>3. "ack" \in desk'.flags => Out(desk', "ack") # {}
      BY <2>3, <2>4, TimedChannels DEF Good, Kept, Tidy
    <3> QED  BY <3>1, <3>2, <3>3 DEF Tidy
  <2>8. Ordered(desk', Len(agent'))
    <3>1. \A q \in desk.pending : q.since \in Nat /\ q.since <= Len(agent)
      BY DEF Good, Kept, Ordered, Sound, Desk, Requests
    <3>2. desk.details.at \in Nat /\ desk.details.at <= Len(agent)
      BY DEF Good, Kept, Ordered, Sound, Desk, Details
    <3>3. Out(desk', "status") = Out(desk, "status")
      BY <2>4, TimedChannels
    <3> QED  BY <1>1, <2>2, <2>3, <2>6, <3>1, <3>2, <3>3 DEF Good, Kept, Ordered
  <2> QED  BY <2>3, <2>7, <2>8 DEF AgentStep
<1> QED  BY <1>2, <1>3

-----------------------------------------------------------------------------
RequestsInv == Tidy(desk) /\ Ordered(desk, Len(agent))

LEMMA InitRequests == Init => RequestsInv
<1> SUFFICES ASSUME Init PROVE RequestsInv
  OBVIOUS
<1> DEFINE blank == [
        current |-> NoService, panel |-> NoService, items |-> {}, details |-> NoDetails,
        shown |-> [a \in Area |-> NoService], flags |-> {},
        buttons |-> {"list"}, dialog |-> FALSE, pending |-> {}]
           cleared == ClearCurrentServiceDetails(blank)
<1>1. Len(agent) \in Nat \ {0}
  BY InitInv, AgentLength DEF Inv
<1>2. desk = Ask(cleared, Timed)
  BY DEF Init, RefreshAll, Timed
<1>3. blank \in Desk
  BY DEF Desk, NoDetails, Details, State, Button
<1>4. /\ blank.flags = {} /\ blank.pending = {}
      /\ blank.details.at = 0 /\ blank.details.from # "action"
  BY DEF NoDetails
<1> HIDE DEF blank
<1>5. \A c \in Channel : Out(blank, c) = {}
  BY <1>4 DEF Out
<1>6. Tidy(blank)
  BY <1>4, <1>5, TimedChannels DEF Tidy
<1>7. Ordered(blank, Len(agent))
  BY <1>1, <1>4 DEF Ordered
<1>8. Kept(cleared)
  BY <1>1, <1>3, <1>6, <1>7, ClearDetailsIsKept DEF Kept
<1> HIDE DEF cleared
<1> QED  BY <1>1, <1>2, <1>8, AskIsKept DEF Kept, RequestsInv

LEMMA NextRequests ==
    ASSUME Inv, RequestsInv, [Next]_vars
    PROVE  AgentStep
<1>1. Good
  BY DEF Inv, RequestsInv, Good, Kept, Sound
<1>2. CASE Serve \/ ServiceChanges \/ AgentRestarts
  BY <1>1, <1>2, AgentIsKept
<1>3. CASE agent' = agent
  <2>1. CASE UNCHANGED vars
    BY <2>1 DEF vars, RequestsInv, AgentStep
  <2>2. CASE \E c \in Channel : Receive(c)
    BY <1>1, <1>3, <2>2, ReceiveIsKept DEF Step, AgentStep, Kept
  <2>3. CASE \/ \E s \in Service : SelectItem(s)
             \/ ExecuteAction \/ ClickRefresh \/ AcknowledgeSelectedAlert \/ CloseDialog
             \/ Tick
    BY <1>1, <1>3, <2>3, UserIsKept DEF Step, AgentStep, Kept
  <2> QED  BY <1>2, <2>1, <2>2, <2>3 DEF Next
<1>4. agent' = agent \/ Serve \/ ServiceChanges \/ AgentRestarts
  BY CountersAndAgent DEF Inv
<1> QED  BY <1>2, <1>3, <1>4

LEMMA SoundRequests == Spec => [](Inv /\ RequestsInv)
<1>1. Init => Inv /\ RequestsInv
  BY InitInv, InitRequests
<1>2. Inv /\ RequestsInv /\ [Next]_vars => (Inv /\ RequestsInv)'
  <2> SUFFICES ASSUME Inv, RequestsInv, [Next]_vars PROVE Inv' /\ RequestsInv'
    OBVIOUS
  <2>1. AgentStep
    BY NextRequests
  <2>2. RequestsInv'
    <3>1. Tidy(desk)'
      BY <2>1, Zenon DEF AgentStep, Tidy, Out, Subject
    <3>2. Ordered(desk, Len(agent))'
      BY <2>1 DEF AgentStep, Ordered, Out
    <3> QED  BY <3>1, <3>2 DEF RequestsInv
  <2> QED  BY <2>2, NextInv
<1> QED  BY <1>1, <1>2, PTL DEF Spec

\* In any instance an in-flight flag is up exactly while one request is out
\* whose callback takes it down, so that no flag can stay up and stop the timer
\* from asking, and no request is doubled.
THEOREM FlagsHaveAnswers == Spec => []FlagsAreAnswered
<1>1. Inv /\ RequestsInv => FlagsAreAnswered
  <2> SUFFICES ASSUME Inv, RequestsInv PROVE FlagsAreAnswered
    OBVIOUS
  <2>1. \A c \in Channel : OutFor(c) = Out(desk, c)
    <3> SUFFICES ASSUME NEW c \in Channel PROVE OutFor(c) = Out(desk, c)
      OBVIOUS
    <3>1. \A r \in desk.pending : r.channel = c => (Expected(desk, r) <=> r \in Out(desk, c))
             \/ c \in {"action", "ack"}
      BY ExpectedCounts, TimedChannels DEF Inv, RequestsInv, Good, Kept, Sound
    <3> QED  BY <3>1 DEF OutFor, Out
  <2> QED  BY <2>1, TimedChannels DEF FlagsAreAnswered, RequestsInv, Tidy
<1> QED  BY <1>1, SoundRequests, PTL

\* In any instance a status asked for before an action never takes back the
\* outcome of the action.
THEOREM OutcomesStay == Spec => OutcomeStays
<1>1. Inv /\ RequestsInv /\ [Next]_vars =>
        [desk.details.from = "action" /\ desk'.details.of = desk.details.of
         /\ desk'.details.from # "services"
         => desk'.details.at >= desk.details.at]_vars
  <2> SUFFICES ASSUME Inv, RequestsInv, [Next]_vars,
                      desk.details.from = "action", desk'.details.of = desk.details.of,
                      desk'.details.from # "services"
               PROVE  desk'.details.at >= desk.details.at
    OBVIOUS
  <2>1. desk'.details = desk.details \/ NotOlder(desk.details, desk'.details)
    BY NextRequests DEF AgentStep
  <2>2. desk.details.at \in Nat
    BY DEF Inv, Sound, Desk, Details
  <2> QED  BY <2>1, <2>2 DEF NotOlder
<1> QED  BY <1>1, SoundRequests, PTL DEF Spec, OutcomeStays

=============================================================================
