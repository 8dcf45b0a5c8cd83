-------------------------- MODULE HttpServerProofs --------------------------
(***************************************************************************)
(* Proofs about HttpServer for any threads, sessions, limits and starts.   *)
(***************************************************************************)
EXTENDS HttpServerInv, FiniteSetTheorems, FunctionTheorems, TLAPS

-----------------------------------------------------------------------------
(* Queues of handlers *)

\* post adds one handler.
LEMMA AppendFacts ==
    ASSUME NEW H, NEW q \in Seq(H), NEW h \in H
    PROVE  /\ Append(q, h) \in Seq(H)
           /\ ToSet(Append(q, h)) = ToSet(q) \cup {h}
<1> DEFINE r == Append(q, h)
<1>1. r \in Seq(H) /\ Len(r) = Len(q) + 1 /\ Len(q) \in Nat
  OBVIOUS
<1>2. DOMAIN q = 1 .. Len(q) /\ DOMAIN r = 1 .. Len(q) + 1
  BY <1>1
<1>3. \A i \in 1 .. Len(q) : r[i] = q[i]
  OBVIOUS
<1>4. r[Len(q) + 1] = h
  OBVIOUS
<1> HIDE DEF r
<1>5. \A i \in DOMAIN r : i \in DOMAIN q \/ i = Len(q) + 1
  BY <1>1, <1>2
<1>6. \A i \in DOMAIN q : i \in DOMAIN r
  BY <1>1, <1>2
<1>7. Len(q) + 1 \in DOMAIN r
  BY <1>1, <1>2
<1>8. ToSet(r) = ToSet(q) \cup {h}
  BY <1>2, <1>3, <1>4, <1>5, <1>6, <1>7 DEF ToSet
<1> QED BY <1>1, <1>8 DEF r

\* The front handler runs, the rest stays.
LEMMA TailFacts ==
    ASSUME NEW H, NEW q \in Seq(H), q # <<>>
    PROVE  /\ Tail(q) \in Seq(H)
           /\ Head(q) \in H
           /\ ToSet(q) = {Head(q)} \cup ToSet(Tail(q))
<1> DEFINE r == Tail(q)
<1>1. Len(q) \in Nat /\ Len(q) > 0 /\ r \in Seq(H) /\ Len(r) = Len(q) - 1
  OBVIOUS
<1>2. DOMAIN q = 1 .. Len(q) /\ DOMAIN r = 1 .. Len(q) - 1
  BY <1>1
<1>3. \A i \in 1 .. Len(q) - 1 : r[i] = q[i + 1]
  BY <1>1
<1>4. Head(q) = q[1] /\ q[1] \in H /\ 1 \in DOMAIN q
  BY <1>1, <1>2
<1> HIDE DEF r
<1>5. \A i \in DOMAIN r : i + 1 \in DOMAIN q /\ r[i] = q[i + 1]
  BY <1>1, <1>2, <1>3
<1>6. \A i \in DOMAIN q : i = 1 \/ (i - 1 \in DOMAIN r /\ r[i - 1] = q[i])
  <2> SUFFICES ASSUME NEW i \in DOMAIN q, i # 1 PROVE i - 1 \in DOMAIN r /\ r[i - 1] = q[i]
    OBVIOUS
  <2>1. i - 1 \in 1 .. Len(q) - 1 /\ (i - 1) + 1 = i
    BY <1>1, <1>2
  <2> QED BY <1>2, <1>3, <2>1
<1>7. ToSet(q) = {q[1]} \cup ToSet(r)
  <2>1. ASSUME NEW x \in ToSet(q) PROVE x \in {q[1]} \cup ToSet(r)
    <3>1. PICK i \in DOMAIN q : x = q[i]
      BY <2>1 DEF ToSet
    <3> QED BY <1>6, <3>1 DEF ToSet
  <2>2. ASSUME NEW x \in ToSet(r) PROVE x \in ToSet(q)
    <3>1. PICK i \in DOMAIN r : x = r[i]
      BY <2>2 DEF ToSet
    <3> QED BY <1>5, <3>1 DEF ToSet
  <2>3. q[1] \in ToSet(q)
    BY <1>4 DEF ToSet
  <2> QED BY <2>1, <2>2, <2>3
<1> QED BY <1>1, <1>4, <1>7 DEF r

\* Several handlers are posted at once.
LEMMA ConcatFacts ==
    ASSUME NEW H, NEW q \in Seq(H), NEW r \in Seq(H)
    PROVE  /\ q \o r \in Seq(H)
           /\ ToSet(q \o r) = ToSet(q) \cup ToSet(r)
<1> DEFINE c == q \o r
<1>1. c \in Seq(H) /\ Len(c) = Len(q) + Len(r) /\ Len(q) \in Nat /\ Len(r) \in Nat
  OBVIOUS
<1>2. DOMAIN q = 1 .. Len(q) /\ DOMAIN r = 1 .. Len(r) /\ DOMAIN c = 1 .. Len(q) + Len(r)
  BY <1>1
<1>3. \A i \in 1 .. Len(q) + Len(r) : c[i] = IF i <= Len(q) THEN q[i] ELSE r[i - Len(q)]
  OBVIOUS
<1> HIDE DEF c
<1>4. ASSUME NEW x \in ToSet(c) PROVE x \in ToSet(q) \cup ToSet(r)
  <2>1. PICK i \in DOMAIN c : x = c[i]
    BY <1>4 DEF ToSet
  <2>2. CASE i <= Len(q)
    <3>1. i \in DOMAIN q /\ x = q[i]
      BY <1>1, <1>2, <1>3, <2>1, <2>2
    <3> QED BY <3>1 DEF ToSet
  <2>3. CASE ~(i <= Len(q))
    <3>1. i - Len(q) \in DOMAIN r /\ x = r[i - Len(q)]
      BY <1>1, <1>2, <1>3, <2>1, <2>3
    <3> QED BY <3>1 DEF ToSet
  <2> QED BY <2>2, <2>3
<1>5. ASSUME NEW x \in ToSet(q) PROVE x \in ToSet(c)
  <2>1. PICK i \in DOMAIN q : x = q[i]
    BY <1>5 DEF ToSet
  <2>2. i \in DOMAIN c /\ c[i] = x
    BY <1>1, <1>2, <1>3, <2>1
  <2> QED BY <2>2 DEF ToSet
<1>6. ASSUME NEW x \in ToSet(r) PROVE x \in ToSet(c)
  <2>1. PICK i \in DOMAIN r : x = r[i]
    BY <1>6 DEF ToSet
  <2>2. i + Len(q) \in DOMAIN c /\ ~(i + Len(q) <= Len(q)) /\ (i + Len(q)) - Len(q) = i
    BY <1>1, <1>2
  <2>3. c[i + Len(q)] = x
    BY <1>2, <1>3, <2>1, <2>2
  <2> QED BY <2>2, <2>3 DEF ToSet
<1> QED BY <1>1, <1>4, <1>5, <1>6 DEF c

LEMMA EmptyFacts == \A H : <<>> \in Seq(H) /\ ToSet(<<>>) = {}
  BY DEF ToSet

\* The accepts that are outstanding when the acceptor is closed.
LEMMA AbortedAccepts ==
    ASSUME NEW n \in Nat
    PROVE  /\ [i \in 1 .. n |-> "acceptError"] \in Seq(StrandHandlers)
           /\ ToSet([i \in 1 .. n |-> "acceptError"]) \subseteq {"acceptError"}
<1> DEFINE e == [i \in 1 .. n |-> "acceptError"]
<1>1. e \in [1 .. n -> StrandHandlers]
  BY DEF StrandHandlers
<1>2. e \in Seq(StrandHandlers)
  BY <1>1
<1>3. ToSet(e) \subseteq {"acceptError"}
  BY DEF ToSet
<1> QED BY <1>2, <1>3

LEMMA NoAbortedAccepts ==
    ASSUME NEW q \in Seq(StrandHandlers)
    PROVE  q \o [i \in 1 .. 0 |-> "acceptError"] = q
OBVIOUS

-----------------------------------------------------------------------------
(* Types *)

CallRecords == [at : ThreadPcs, exec : 0 .. MaxStarts, post : BOOLEAN, wait : BOOLEAN]
StrandPlaces == StrandPcs \cup ({"register"} \X Session)

\* TypeOK in the parts that a step changes together.
FlagTypes ==
    /\ stopFlag \in BOOLEAN /\ ioOwned \in BOOLEAN /\ waiting \in BOOLEAN
    /\ drained \in BOOLEAN /\ completed \in BOOLEAN /\ timer \in BOOLEAN
    /\ guard \in BOOLEAN /\ ioUp \in BOOLEAN /\ ioStopped \in BOOLEAN /\ open \in BOOLEAN

CountTypes ==
    /\ state \in {"stopped", "starting", "running", "stopping"}
    /\ acceptor \in {"open", "closed"}
    /\ starts \in 0 .. MaxStarts /\ accepts \in Nat /\ uncounted \in Nat

StrandTypes == strand \in Seq(StrandHandlers) /\ strandAt \in StrandPlaces

SessionTypes ==
    /\ accepted \subseteq Session /\ sessions \subseteq Session /\ cut \subseteq Session
    /\ sstate \in [Session -> {"none", "reading", "handling", "writing", "closed"}]
    /\ op \in [Session -> {"none", "read", "write"}]
    /\ inbox \in [Session -> Seq(SessionHandlers)]
    /\ leaving \in [Session -> {"no", "others", "last"}]

SessionFlagTypes ==
    /\ drainReq \in [Session -> BOOLEAN] /\ closing \in [Session -> BOOLEAN]
    /\ attached \in [Session -> BOOLEAN]

CallTypes == pc \in [Thread -> CallRecords]

Typed ==
    FlagTypes /\ CountTypes /\ StrandTypes /\ SessionTypes /\ SessionFlagTypes /\ CallTypes

LEMMA TypedIsTypeOK == Typed => TypeOK
  BY DEF Typed, TypeOK, FlagTypes, CountTypes, StrandTypes, SessionTypes, SessionFlagTypes,
     CallTypes, CallRecords, StrandPlaces

LEMMA CallRecordFacts ==
    /\ Idle \in CallRecords /\ [Idle EXCEPT !.at = "waitBegin"] \in CallRecords
    /\ \A r \in CallRecords, at \in ThreadPcs : [r EXCEPT !.at = at] \in CallRecords
<1>1. \A r \in CallRecords, at \in ThreadPcs : [r EXCEPT !.at = at] \in CallRecords
  BY DEF CallRecords
<1>2. Idle \in CallRecords
  BY LimitAssumption DEF CallRecords, ThreadPcs, Idle
<1> QED BY <1>1, <1>2 DEF ThreadPcs

LEMMA PlaceFacts ==
    /\ {<<"free">>, <<"rearm">>, <<"drain">>, <<"try">>} \subseteq StrandPlaces
    /\ \A s \in Session : <<"register", s>> \in StrandPlaces
  BY DEF StrandPlaces, StrandPcs

LEMMA InitIsTyped == Init => Typed
<1> SUFFICES ASSUME Init PROVE Typed
  OBVIOUS
<1> USE DEF Init
<1>1. FlagTypes
  BY DEF FlagTypes
<1>2. CountTypes
  BY LimitAssumption DEF CountTypes
<1>3. StrandTypes
  BY EmptyFacts, PlaceFacts DEF StrandTypes
<1>4. SessionTypes
  BY EmptyFacts DEF SessionTypes
<1>5. SessionFlagTypes
  BY DEF SessionFlagTypes
<1>6. CallTypes
  BY CallRecordFacts DEF CallTypes
<1> QED BY <1>1, <1>2, <1>3, <1>4, <1>5, <1>6 DEF Typed

\* The operators a step of a thread is made of keep the types they touch.
LEMMA CallOperatorTypes ==
    ASSUME Typed, NEW t \in Thread
    PROVE  /\ \A at \in ThreadPcs : Goto(t, at) => CallTypes'
           /\ AfterStop(t) => CallTypes'
           /\ pc' = [pc EXCEPT ![t] = Idle] => CallTypes'
           /\ CloseAcceptor => /\ acceptor' \in {"open", "closed"} /\ accepts' \in Nat
                               /\ strand' \in Seq(StrandHandlers)
           /\ \A h \in StrandHandlers : Post(h) => strand' \in Seq(StrandHandlers)
<1> USE DEF Typed, CallTypes
<1>1. ASSUME NEW at \in ThreadPcs, Goto(t, at) PROVE CallTypes'
  <2>1. pc' = [pc EXCEPT ![t] = [pc[t] EXCEPT !.at = at]]
    BY <1>1 DEF Goto
  <2> QED BY <2>1, CallRecordFacts
<1>2. AfterStop(t) => CallTypes'
  BY CallRecordFacts DEF AfterStop
<1>3. pc' = [pc EXCEPT ![t] = Idle] => CallTypes'
  BY CallRecordFacts
<1>4. CloseAcceptor => acceptor' \in {"open", "closed"} /\ accepts' \in Nat
  BY DEF CloseAcceptor
<1>5. CloseAcceptor => strand' \in Seq(StrandHandlers)
  <2>1. [i \in 1 .. accepts |-> "acceptError"] \in Seq(StrandHandlers)
    BY AbortedAccepts DEF CountTypes
  <2>2. strand \o [i \in 1 .. accepts |-> "acceptError"] \in Seq(StrandHandlers)
    BY <2>1, ConcatFacts DEF StrandTypes
  <2> QED BY <2>2 DEF CloseAcceptor
<1>6. \A h \in StrandHandlers : Post(h) => strand' \in Seq(StrandHandlers)
  BY AppendFacts DEF Post, StrandTypes
<1> QED BY <1>1, <1>2, <1>3, <1>4, <1>5, <1>6

\* The steps of Start, RequestStop and Wait.
LEMMA CallStepKeepsTypes ==
    ASSUME Typed, NEW t \in Thread,
           \/ Start(t) \/ StartFails(t) \/ StopIdle(t) \/ ThreadStep(t)
           \/ \E wait \in BOOLEAN : StopBegin(t, wait)
    PROVE  Typed'
<1> USE DEF Typed, lifeVars, ioVars, execVars, sessionVars
<1>1. CASE Start(t)
  <2>1. FlagTypes'
    BY <1>1 DEF Start, FlagTypes
  <2>2. CountTypes'
    BY <1>1, LimitAssumption DEF Start, CountTypes, MayStart
  <2>3. StrandTypes'
    BY <1>1 DEF Start, StrandTypes
  <2>4. SessionTypes'
    BY <1>1 DEF Start, SessionTypes
  <2>5. SessionFlagTypes'
    BY <1>1 DEF Start, SessionFlagTypes
  <2>6. CallTypes'
    BY <1>1 DEF Start, CallTypes
  <2> QED BY <2>1, <2>2, <2>3, <2>4, <2>5, <2>6
<1>2. CASE StartFails(t)
  <2>1. FlagTypes'
    BY <1>2 DEF StartFails, FlagTypes
  <2>2. CountTypes'
    BY <1>2, LimitAssumption DEF StartFails, CountTypes, MayStart
  <2>3. StrandTypes'
    BY <1>2 DEF StartFails, StrandTypes
  <2>4. SessionTypes'
    BY <1>2 DEF StartFails, SessionTypes
  <2>5. SessionFlagTypes'
    BY <1>2 DEF StartFails, SessionFlagTypes
  <2>6. CallTypes'
    BY <1>2, CallOperatorTypes DEF StartFails, CallTypes, ThreadPcs
  <2> QED BY <2>1, <2>2, <2>3, <2>4, <2>5, <2>6
<1>3. CASE StopIdle(t)
  <2>1. FlagTypes'
    BY <1>3 DEF StopIdle, FlagTypes
  <2>2. CountTypes'
    BY <1>3 DEF StopIdle, CountTypes
  <2>3. StrandTypes'
    BY <1>3 DEF StopIdle, StrandTypes
  <2>4. SessionTypes'
    BY <1>3 DEF StopIdle, SessionTypes
  <2>5. SessionFlagTypes'
    BY <1>3 DEF StopIdle, SessionFlagTypes
  <2>6. CallTypes'
    BY <1>3, CallOperatorTypes DEF StopIdle, CallTypes, ThreadPcs
  <2> QED BY <2>1, <2>2, <2>3, <2>4, <2>5, <2>6
<1>4. ASSUME NEW wait \in BOOLEAN, StopBegin(t, wait) PROVE Typed'
  <2>1. [at |-> "stopExec", exec |-> starts, post |-> state # "stopping", wait |-> wait]
            \in CallRecords
    BY DEF CallRecords, ThreadPcs, CountTypes
  <2>2. FlagTypes'
    BY <1>4 DEF StopBegin, FlagTypes
  <2>3. CountTypes'
    BY <1>4 DEF StopBegin, CountTypes
  <2>4. StrandTypes'
    BY <1>4 DEF StopBegin, StrandTypes
  <2>5. SessionTypes'
    BY <1>4 DEF StopBegin, SessionTypes
  <2>6. SessionFlagTypes'
    BY <1>4 DEF StopBegin, SessionFlagTypes
  <2>7. CallTypes'
    BY <1>4, <2>1 DEF StopBegin, CallTypes
  <2> QED BY <2>2, <2>3, <2>4, <2>5, <2>6, <2>7
<1>5. CASE StartFailEnd(t)
  <2>1. FlagTypes'
    BY <1>5 DEF StartFailEnd, FlagTypes
  <2>2. CountTypes'
    BY <1>5, CallOperatorTypes DEF StartFailEnd, CountTypes
  <2>3. StrandTypes'
    BY <1>5, CallOperatorTypes DEF StartFailEnd, StrandTypes
  <2>4. SessionTypes'
    BY <1>5 DEF StartFailEnd, SessionTypes
  <2>5. SessionFlagTypes'
    BY <1>5 DEF StartFailEnd, SessionFlagTypes
  <2>6. CallTypes'
    BY <1>5, CallOperatorTypes DEF StartFailEnd, CallTypes
  <2> QED BY <2>1, <2>2, <2>3, <2>4, <2>5, <2>6
<1>6. CASE StopExec(t)
  <2>1. FlagTypes'
    BY <1>6 DEF StopExec, FlagTypes
  <2>2. CountTypes'
    BY <1>6 DEF StopExec, CountTypes
  <2>3. StrandTypes'
    BY <1>6 DEF StopExec, StrandTypes
  <2>4. SessionTypes'
    BY <1>6 DEF StopExec, SessionTypes
  <2>5. SessionFlagTypes'
    BY <1>6 DEF StopExec, SessionFlagTypes
  <2>6. CallTypes'
    BY <1>6, CallOperatorTypes DEF StopExec, CallTypes, ThreadPcs
  <2> QED BY <2>1, <2>2, <2>3, <2>4, <2>5, <2>6
<1>7. CASE StopPost(t)
  <2>1. FlagTypes'
    BY <1>7 DEF StopPost, FlagTypes
  <2>2. CountTypes'
    BY <1>7 DEF StopPost, CountTypes
  <2>3. StrandTypes'
    BY <1>7, CallOperatorTypes DEF StopPost, StrandTypes, StrandHandlers
  <2>4. SessionTypes'
    BY <1>7 DEF StopPost, SessionTypes
  <2>5. SessionFlagTypes'
    BY <1>7 DEF StopPost, SessionFlagTypes
  <2>6. CallTypes'
    BY <1>7, CallOperatorTypes DEF StopPost, CallTypes, ThreadPcs
  <2> QED BY <2>1, <2>2, <2>3, <2>4, <2>5, <2>6
<1>8. CASE WaitBegin(t)
  <2>1. FlagTypes'
    BY <1>8 DEF WaitBegin, FlagTypes
  <2>2. CountTypes'
    BY <1>8 DEF WaitBegin, CountTypes
  <2>3. StrandTypes'
    BY <1>8 DEF WaitBegin, StrandTypes
  <2>4. SessionTypes'
    BY <1>8 DEF WaitBegin, SessionTypes
  <2>5. SessionFlagTypes'
    BY <1>8 DEF WaitBegin, SessionFlagTypes
  <2>6. CallTypes'
    BY <1>8, CallOperatorTypes DEF WaitBegin, CallTypes, ThreadPcs
  <2> QED BY <2>1, <2>2, <2>3, <2>4, <2>5, <2>6
<1>9. CASE WaitExec(t)
  <2>1. FlagTypes'
    BY <1>9 DEF WaitExec, FlagTypes
  <2>2. CountTypes'
    BY <1>9 DEF WaitExec, CountTypes
  <2>3. StrandTypes'
    BY <1>9 DEF WaitExec, StrandTypes
  <2>4. SessionTypes'
    BY <1>9 DEF WaitExec, SessionTypes
  <2>5. SessionFlagTypes'
    BY <1>9 DEF WaitExec, SessionFlagTypes
  <2>6. CallTypes'
    BY <1>9, CallOperatorTypes DEF WaitExec, CallTypes, ThreadPcs
  <2> QED BY <2>1, <2>2, <2>3, <2>4, <2>5, <2>6
<1>10. CASE WaitDrain(t)
  <2>1. FlagTypes'
    BY <1>10 DEF WaitDrain, FlagTypes
  <2>2. CountTypes'
    BY <1>10 DEF WaitDrain, CountTypes
  <2>3. StrandTypes'
    BY <1>10 DEF WaitDrain, StrandTypes
  <2>4. SessionTypes'
    BY <1>10 DEF WaitDrain, SessionTypes
  <2>5. SessionFlagTypes'
    BY <1>10 DEF WaitDrain, SessionFlagTypes
  <2>6. CallTypes'
    BY <1>10, CallOperatorTypes DEF WaitDrain, CallTypes, ThreadPcs
  <2> QED BY <2>1, <2>2, <2>3, <2>4, <2>5, <2>6
<1>11. CASE WaitPost(t)
  <2>1. FlagTypes'
    BY <1>11 DEF WaitPost, FlagTypes
  <2>2. CountTypes'
    BY <1>11 DEF WaitPost, CountTypes
  <2>3. StrandTypes'
    BY <1>11, CallOperatorTypes DEF WaitPost, StrandTypes, StrandHandlers
  <2>4. SessionTypes'
    BY <1>11 DEF WaitPost, SessionTypes
  <2>5. SessionFlagTypes'
    BY <1>11 DEF WaitPost, SessionFlagTypes
  <2>6. CallTypes'
    BY <1>11, CallOperatorTypes DEF WaitPost, CallTypes, ThreadPcs
  <2> QED BY <2>1, <2>2, <2>3, <2>4, <2>5, <2>6
<1>12. CASE WaitIo(t)
  <2>1. FlagTypes'
    BY <1>12 DEF WaitIo, FlagTypes
  <2>2. CountTypes'
    BY <1>12 DEF WaitIo, CountTypes
  <2>3. StrandTypes'
    BY <1>12 DEF WaitIo, StrandTypes
  <2>4. SessionTypes'
    BY <1>12 DEF WaitIo, SessionTypes
  <2>5. SessionFlagTypes'
    BY <1>12 DEF WaitIo, SessionFlagTypes
  <2>6. CallTypes'
    BY <1>12, CallOperatorTypes DEF WaitIo, CallTypes, ThreadPcs
  <2> QED BY <2>1, <2>2, <2>3, <2>4, <2>5, <2>6
<1>13. CASE WaitEnd(t)
  <2>1. FlagTypes'
    BY <1>13 DEF WaitEnd, FlagTypes
  <2>2. CountTypes'
    BY <1>13, CallOperatorTypes DEF WaitEnd, CountTypes
  <2>3. StrandTypes'
    BY <1>13, CallOperatorTypes DEF WaitEnd, StrandTypes
  <2>4. SessionTypes'
    BY <1>13 DEF WaitEnd, SessionTypes
  <2>5. SessionFlagTypes'
    BY <1>13 DEF WaitEnd, SessionFlagTypes
  <2>6. CallTypes'
    BY <1>13, CallOperatorTypes DEF WaitEnd, CallTypes
  <2> QED BY <2>1, <2>2, <2>3, <2>4, <2>5, <2>6
<1> QED BY <1>1, <1>2, <1>3, <1>4, <1>5, <1>6, <1>7, <1>8, <1>9, <1>10, <1>11, <1>12, <1>13
           DEF ThreadStep

\* The I/O threads, clients and the grace timer.
LEMMA IoStepKeepsTypes ==
    ASSUME Typed, IoExit \/ IoThrows \/ ClientConnects \/ AcceptFails \/ GraceEnds
    PROVE  Typed'
<1> USE DEF Typed, lifeVars, ioVars, execVars, sessionVars
<1>1. \A h \in StrandHandlers : Post(h) => strand' \in Seq(StrandHandlers)
  BY AppendFacts DEF Post, StrandTypes
<1>2. CASE IoExit
  <2>1. FlagTypes'
    BY <1>2 DEF IoExit, FlagTypes
  <2>2. CountTypes'
    BY <1>2 DEF IoExit, CountTypes
  <2>3. StrandTypes'
    BY <1>2 DEF IoExit, StrandTypes
  <2>4. SessionTypes'
    BY <1>2 DEF IoExit, SessionTypes
  <2>5. SessionFlagTypes'
    BY <1>2 DEF IoExit, SessionFlagTypes
  <2>6. CallTypes'
    BY <1>2 DEF IoExit, CallTypes
  <2> QED BY <2>1, <2>2, <2>3, <2>4, <2>5, <2>6
<1>3. CASE IoThrows
  <2>1. FlagTypes'
    BY <1>3 DEF IoThrows, FlagTypes
  <2>2. CountTypes'
    BY <1>3 DEF IoThrows, CountTypes
  <2>3. StrandTypes'
    BY <1>3 DEF IoThrows, StrandTypes
  <2>4. SessionTypes'
    BY <1>3 DEF IoThrows, SessionTypes
  <2>5. SessionFlagTypes'
    BY <1>3 DEF IoThrows, SessionFlagTypes
  <2>6. CallTypes'
    BY <1>3 DEF IoThrows, CallTypes
  <2> QED BY <2>1, <2>2, <2>3, <2>4, <2>5, <2>6
<1>4. CASE ClientConnects
  <2>1. FlagTypes'
    BY <1>4 DEF ClientConnects, FlagTypes
  <2>2. CountTypes'
    BY <1>4 DEF ClientConnects, CountTypes
  <2>3. StrandTypes'
    BY <1>4, <1>1 DEF ClientConnects, StrandTypes, StrandHandlers
  <2>4. SessionTypes'
    BY <1>4 DEF ClientConnects, SessionTypes
  <2>5. SessionFlagTypes'
    BY <1>4 DEF ClientConnects, SessionFlagTypes
  <2>6. CallTypes'
    BY <1>4 DEF ClientConnects, CallTypes
  <2> QED BY <2>1, <2>2, <2>3, <2>4, <2>5, <2>6
<1>5. CASE AcceptFails
  <2>1. FlagTypes'
    BY <1>5 DEF AcceptFails, FlagTypes
  <2>2. CountTypes'
    BY <1>5 DEF AcceptFails, CountTypes
  <2>3. StrandTypes'
    BY <1>5, <1>1 DEF AcceptFails, StrandTypes, StrandHandlers
  <2>4. SessionTypes'
    BY <1>5 DEF AcceptFails, SessionTypes
  <2>5. SessionFlagTypes'
    BY <1>5 DEF AcceptFails, SessionFlagTypes
  <2>6. CallTypes'
    BY <1>5 DEF AcceptFails, CallTypes
  <2> QED BY <2>1, <2>2, <2>3, <2>4, <2>5, <2>6
<1>6. CASE GraceEnds
  <2>1. FlagTypes'
    BY <1>6 DEF GraceEnds, FlagTypes
  <2>2. CountTypes'
    BY <1>6 DEF GraceEnds, CountTypes
  <2>3. StrandTypes'
    BY <1>6, <1>1 DEF GraceEnds, StrandTypes, StrandHandlers
  <2>4. SessionTypes'
    BY <1>6 DEF GraceEnds, SessionTypes
  <2>5. SessionFlagTypes'
    BY <1>6 DEF GraceEnds, SessionFlagTypes
  <2>6. CallTypes'
    BY <1>6 DEF GraceEnds, CallTypes
  <2> QED BY <2>1, <2>2, <2>3, <2>4, <2>5, <2>6
<1> QED BY <1>2, <1>3, <1>4, <1>5, <1>6

\* The handlers on the acceptor's strand.
LEMMA StrandStepKeepsTypes ==
    ASSUME Typed, StrandStep
    PROVE  Typed'
<1> USE DEF Typed, lifeVars, ioVars, execVars, sessionVars
<1>1. \A h : Take(h) => Tail(strand) \in Seq(StrandHandlers)
  BY TailFacts DEF Take, StrandTypes
<1>2. CASE HandleAccept
  <2>1. FlagTypes'
    BY <1>2 DEF HandleAccept, FlagTypes
  <2>2. CountTypes'
    BY <1>2 DEF HandleAccept, CountTypes
  <2>3. StrandTypes'
    BY <1>2, <1>1, PlaceFacts DEF HandleAccept, StrandTypes, Took
  <2>4. SessionTypes'
    BY <1>2 DEF HandleAccept, SessionTypes
  <2>5. SessionFlagTypes'
    BY <1>2 DEF HandleAccept, SessionFlagTypes
  <2>6. CallTypes'
    BY <1>2 DEF HandleAccept, CallTypes
  <2> QED BY <2>1, <2>2, <2>3, <2>4, <2>5, <2>6
<1>3. CASE HandleAcceptError
  <2>1. FlagTypes'
    BY <1>3 DEF HandleAcceptError, FlagTypes
  <2>2. CountTypes'
    BY <1>3 DEF HandleAcceptError, CountTypes
  <2>3. StrandTypes'
    BY <1>3, <1>1, PlaceFacts DEF HandleAcceptError, StrandTypes, Took
  <2>4. SessionTypes'
    BY <1>3 DEF HandleAcceptError, SessionTypes
  <2>5. SessionFlagTypes'
    BY <1>3 DEF HandleAcceptError, SessionFlagTypes
  <2>6. CallTypes'
    BY <1>3 DEF HandleAcceptError, CallTypes
  <2> QED BY <2>1, <2>2, <2>3, <2>4, <2>5, <2>6
<1>4. CASE Rearm
  <2>1. FlagTypes'
    BY <1>4 DEF Rearm, FlagTypes
  <2>2. CountTypes'
    BY <1>4 DEF Rearm, CountTypes
  <2>3. StrandTypes'
    BY <1>4, PlaceFacts DEF Rearm, StrandTypes
  <2>4. SessionTypes'
    BY <1>4 DEF Rearm, SessionTypes
  <2>5. SessionFlagTypes'
    BY <1>4 DEF Rearm, SessionFlagTypes
  <2>6. CallTypes'
    BY <1>4 DEF Rearm, CallTypes
  <2> QED BY <2>1, <2>2, <2>3, <2>4, <2>5, <2>6
<1>5. CASE StopOnIoContext
  <2>1. FlagTypes'
    BY <1>5 DEF StopOnIoContext, FlagTypes
  <2>2. CountTypes'
    BY <1>5 DEF StopOnIoContext, CountTypes
  <2>3. StrandTypes'
    BY <1>5, <1>1, PlaceFacts, AbortedAccepts, ConcatFacts
       DEF StopOnIoContext, StrandTypes, CountTypes
  <2>4. SessionTypes'
    BY <1>5 DEF StopOnIoContext, SessionTypes
  <2>5. SessionFlagTypes'
    BY <1>5 DEF StopOnIoContext, SessionFlagTypes
  <2>6. CallTypes'
    BY <1>5 DEF StopOnIoContext, CallTypes
  <2> QED BY <2>1, <2>2, <2>3, <2>4, <2>5, <2>6
<1>6. CASE DrainSessions
  <2>1. FlagTypes'
    BY <1>6 DEF DrainSessions, FlagTypes
  <2>2. CountTypes'
    BY <1>6 DEF DrainSessions, CountTypes
  <2>3. StrandTypes'
    BY <1>6, PlaceFacts DEF DrainSessions, StrandTypes
  <2>4. SessionTypes'
    BY <1>6, AppendFacts DEF DrainSessions, SessionTypes, SessionHandlers
  <2>5. SessionFlagTypes'
    BY <1>6 DEF DrainSessions, SessionFlagTypes
  <2>6. CallTypes'
    BY <1>6 DEF DrainSessions, CallTypes
  <2> QED BY <2>1, <2>2, <2>3, <2>4, <2>5, <2>6
<1>7. CASE HandleShutdownDeadline
  <2>1. FlagTypes'
    BY <1>7 DEF HandleShutdownDeadline, FlagTypes
  <2>2. CountTypes'
    BY <1>7 DEF HandleShutdownDeadline, CountTypes
  <2>3. StrandTypes'
    BY <1>7, <1>1, PlaceFacts DEF HandleShutdownDeadline, StrandTypes, Took
  <2>4. SessionTypes'
    BY <1>7, AppendFacts DEF HandleShutdownDeadline, SessionTypes, SessionHandlers
  <2>5. SessionFlagTypes'
    BY <1>7 DEF HandleShutdownDeadline, SessionFlagTypes
  <2>6. CallTypes'
    BY <1>7 DEF HandleShutdownDeadline, CallTypes
  <2> QED BY <2>1, <2>2, <2>3, <2>4, <2>5, <2>6
<1>8. CASE HandleTry
  <2>1. FlagTypes'
    BY <1>8 DEF HandleTry, FlagTypes
  <2>2. CountTypes'
    BY <1>8 DEF HandleTry, CountTypes
  <2>3. StrandTypes'
    BY <1>8, <1>1, PlaceFacts DEF HandleTry, StrandTypes, Took
  <2>4. SessionTypes'
    BY <1>8 DEF HandleTry, SessionTypes
  <2>5. SessionFlagTypes'
    BY <1>8 DEF HandleTry, SessionFlagTypes
  <2>6. CallTypes'
    BY <1>8 DEF HandleTry, CallTypes
  <2> QED BY <2>1, <2>2, <2>3, <2>4, <2>5, <2>6
<1>9. CASE TryCompleteStop
  <2>1. FlagTypes'
    BY <1>9 DEF TryCompleteStop, FlagTypes
  <2>2. CountTypes'
    BY <1>9 DEF TryCompleteStop, CountTypes
  <2>3. StrandTypes'
    BY <1>9, PlaceFacts DEF TryCompleteStop, StrandTypes
  <2>4. SessionTypes'
    BY <1>9 DEF TryCompleteStop, SessionTypes
  <2>5. SessionFlagTypes'
    BY <1>9 DEF TryCompleteStop, SessionFlagTypes
  <2>6. CallTypes'
    BY <1>9 DEF TryCompleteStop, CallTypes
  <2> QED BY <2>1, <2>2, <2>3, <2>4, <2>5, <2>6
<1>10. ASSUME NEW s \in Session, RegisterSession(s) PROVE Typed'
  <2>1. FlagTypes'
    BY <1>10 DEF RegisterSession, FlagTypes
  <2>2. CountTypes'
    BY <1>10 DEF RegisterSession, CountTypes
  <2>3. StrandTypes'
    BY <1>10, PlaceFacts DEF RegisterSession, StrandTypes
  <2>4. SessionTypes'
    <3>1. Append(inbox[s], "start") \in Seq(SessionHandlers)
      BY AppendFacts DEF SessionTypes, SessionHandlers
    <3>2. Append(inbox[s], "close") \in Seq(SessionHandlers)
      BY AppendFacts DEF SessionTypes, SessionHandlers
    <3>3. CASE MayRegister
      BY <1>10, <3>1, <3>3 DEF RegisterSession, SessionTypes
    <3>4. CASE ~MayRegister
      BY <1>10, <3>2, <3>4 DEF RegisterSession, SessionTypes
    <3> QED BY <3>3, <3>4
  <2>5. SessionFlagTypes'
    BY <1>10 DEF RegisterSession, SessionFlagTypes
  <2>6. CallTypes'
    BY <1>10 DEF RegisterSession, CallTypes
  <2> QED BY <2>1, <2>2, <2>3, <2>4, <2>5, <2>6
<1> QED BY <1>2, <1>3, <1>4, <1>5, <1>6, <1>7, <1>8, <1>9, <1>10 DEF StrandStep

\* Close, ReadRequest and WriteResponse keep what they touch well typed.
LEMMA SessionOperatorTypes ==
    ASSUME Typed, NEW s \in Session, inbox[s] # <<>>
    PROVE  /\ Rest(s) \in Seq(SessionHandlers)
           /\ Rest(s) \o Aborted(s) \in Seq(SessionHandlers)
           /\ Keeps(s) => inbox' \in [Session -> Seq(SessionHandlers)]
           /\ Close(s) \/ ReadRequest(s) =>
                 /\ sstate' \in [Session -> {"none", "reading", "handling", "writing", "closed"}]
                 /\ op' \in [Session -> {"none", "read", "write"}]
                 /\ inbox' \in [Session -> Seq(SessionHandlers)]
                 /\ leaving' \in [Session -> {"no", "others", "last"}]
                 /\ attached' \in [Session -> BOOLEAN]
                 /\ sessions' \subseteq sessions
           /\ \A keep \in BOOLEAN : WriteResponse(s, keep) =>
                 /\ sstate' \in [Session -> {"none", "reading", "handling", "writing", "closed"}]
                 /\ op' \in [Session -> {"none", "read", "write"}]
                 /\ closing' \in [Session -> BOOLEAN]
<1> USE DEF Typed, SessionTypes, SessionFlagTypes
<1>1. Rest(s) \in Seq(SessionHandlers)
  BY TailFacts DEF Rest
<1>2. Aborted(s) \in Seq(SessionHandlers)
  <2>1. <<"readError">> \in Seq(SessionHandlers) /\ <<"writeError">> \in Seq(SessionHandlers)
    BY DEF SessionHandlers
  <2>2. <<>> \in Seq(SessionHandlers)
    BY EmptyFacts
  <2> QED BY <2>1, <2>2 DEF Aborted
<1>3. Rest(s) \o Aborted(s) \in Seq(SessionHandlers)
  BY <1>1, <1>2, ConcatFacts
<1>4. Keeps(s) => inbox' \in [Session -> Seq(SessionHandlers)]
  BY <1>1 DEF Keeps
<1>5. ASSUME Close(s)
      PROVE  /\ sstate' \in [Session -> {"none", "reading", "handling", "writing", "closed"}]
             /\ op' \in [Session -> {"none", "read", "write"}]
             /\ inbox' \in [Session -> Seq(SessionHandlers)]
             /\ leaving' \in [Session -> {"no", "others", "last"}]
             /\ attached' \in [Session -> BOOLEAN]
             /\ sessions' \subseteq sessions
  <2>1. CASE sstate[s] = "closed"
    BY <1>4, <1>5, <2>1 DEF Close
  <2>2. CASE sstate[s] # "closed"
    <3>1. sstate' \in [Session -> {"none", "reading", "handling", "writing", "closed"}]
          /\ op' \in [Session -> {"none", "read", "write"}]
      BY <1>5, <2>2 DEF Close
    <3>2. inbox' \in [Session -> Seq(SessionHandlers)]
      BY <1>5, <1>3, <2>2 DEF Close
    <3>3. leaving' \in [Session -> {"no", "others", "last"}] /\ sessions' \subseteq sessions
      BY <1>5, <2>2 DEF Close
    <3>4. attached' \in [Session -> BOOLEAN]
      BY <1>5, <2>2 DEF Close
    <3> QED BY <3>1, <3>2, <3>3, <3>4
  <2> QED BY <2>1, <2>2
<1>6. ASSUME ReadRequest(s), ~Close(s)
      PROVE  /\ sstate' \in [Session -> {"none", "reading", "handling", "writing", "closed"}]
             /\ op' \in [Session -> {"none", "read", "write"}]
             /\ inbox' \in [Session -> Seq(SessionHandlers)]
             /\ leaving' \in [Session -> {"no", "others", "last"}]
             /\ attached' \in [Session -> BOOLEAN]
             /\ sessions' \subseteq sessions
  <2>1. /\ sstate' = [sstate EXCEPT ![s] = "reading"] /\ op' = [op EXCEPT ![s] = "read"]
        /\ Keeps(s)
        /\ UNCHANGED <<attached, sessions, leaving>>
    BY <1>6 DEF ReadRequest
  <2>2. sstate' \in [Session -> {"none", "reading", "handling", "writing", "closed"}]
        /\ op' \in [Session -> {"none", "read", "write"}]
    BY <2>1
  <2>3. attached' \in [Session -> BOOLEAN]
    BY <2>1
  <2> QED BY <1>4, <2>1, <2>2, <2>3
<1>7. ASSUME NEW keep \in BOOLEAN, WriteResponse(s, keep)
      PROVE  /\ sstate' \in [Session -> {"none", "reading", "handling", "writing", "closed"}]
             /\ op' \in [Session -> {"none", "read", "write"}]
             /\ closing' \in [Session -> BOOLEAN]
  <2>1. sstate' \in [Session -> {"none", "reading", "handling", "writing", "closed"}]
        /\ op' \in [Session -> {"none", "read", "write"}]
    BY <1>7 DEF WriteResponse
  <2>2. closing' \in [Session -> BOOLEAN]
    BY <1>7 DEF WriteResponse
  <2> QED BY <2>1, <2>2
<1> QED BY <1>1, <1>3, <1>4, <1>5, <1>6, <1>7

\* What handlers on a session's strand, its reads and writes and the executor's tasks have
\* in common: they are no business of the callers or of the acceptor, a session only leaves,
\* and of handlers on the acceptor's strand they add a completion at most.
SessionEffect ==
    /\ UNCHANGED otherVars /\ UNCHANGED open
    /\ sessions' \subseteq sessions
    /\ strand' = strand \/ (drained /\ strand' = Append(strand, "try"))
    /\ uncounted' \in Nat
    /\ drainReq' = drainReq

LEMMA SessionStepEffect ==
    ASSUME Typed, NEW s \in Session, SessionStep(s) \/ OpEnds(s) \/ ExecuteRequest(s)
    PROVE  SessionEffect
<1> USE DEF Typed, SessionTypes, CountTypes, SessionEffect, execVars, Begins
<1>1. CASE HandleStart(s)
  BY <1>1, SessionOperatorTypes DEF HandleStart
<1>2. CASE HandleRead(s)
  BY <1>2 DEF HandleRead
<1>3. CASE HandleReadRefused(s)
  BY <1>3 DEF HandleReadRefused
<1>4. CASE HandleReadBad(s)
  BY <1>4 DEF HandleReadBad
<1>5. CASE HandleReadError(s)
  BY <1>5, SessionOperatorTypes DEF HandleReadError
<1>6. CASE HandleResponse(s)
  BY <1>6 DEF HandleResponse
<1>7. CASE HandleWrite(s)
  BY <1>7, SessionOperatorTypes DEF HandleWrite
<1>8. CASE HandleWriteError(s)
  BY <1>8, SessionOperatorTypes DEF HandleWriteError
<1>9. CASE HandleDrain(s)
  BY <1>9, SessionOperatorTypes DEF HandleDrain
<1>10. CASE HandleClose(s)
  BY <1>10, SessionOperatorTypes DEF HandleClose
<1>11. CASE RemoveSession(s)
  BY <1>11 DEF RemoveSession, Post
<1>12. CASE OpEnds(s)
  BY <1>12 DEF OpEnds, ReadEnds, WriteEnds
<1>13. CASE ExecuteRequest(s)
  BY <1>13 DEF ExecuteRequest
<1> QED BY <1>1, <1>2, <1>3, <1>4, <1>5, <1>6, <1>7, <1>8, <1>9, <1>10, <1>11, <1>12, <1>13
        DEF SessionStep

\* The handlers on a session's strand.
LEMMA SessionStepKeepsTypes ==
    ASSUME Typed, NEW s \in Session, SessionStep(s) \/ OpEnds(s) \/ ExecuteRequest(s)
    PROVE  Typed'
<1> USE DEF Typed, lifeVars, ioVars, execVars, sessionVars
<1>1. SessionEffect
  BY SessionStepEffect
<1>2. FlagTypes'
  BY <1>1 DEF SessionEffect, otherVars, FlagTypes
<1>3. CountTypes'
  BY <1>1 DEF SessionEffect, otherVars, CountTypes
<1>4. StrandTypes'
  <2>1. Append(strand, "try") \in Seq(StrandHandlers)
    BY AppendFacts DEF StrandTypes, StrandHandlers
  <2> QED BY <1>1, <2>1 DEF SessionEffect, otherVars, StrandTypes
<1>5. CallTypes'
  BY <1>1 DEF SessionEffect, otherVars, CallTypes
<1>6. CASE HandleStart(s)
  <2>1. SessionTypes'
    BY <1>6, SessionOperatorTypes DEF HandleStart, Begins, SessionTypes
  <2>2. SessionFlagTypes'
    BY <1>6, SessionOperatorTypes DEF HandleStart, Begins, SessionFlagTypes
  <2> QED BY <1>2, <1>3, <1>4, <1>5, <2>1, <2>2
<1>7. CASE HandleRead(s)
  <2>1. SessionTypes'
    BY <1>7, SessionOperatorTypes DEF HandleRead, Begins, SessionTypes
  <2>2. SessionFlagTypes'
    BY <1>7, SessionOperatorTypes DEF HandleRead, Begins, SessionFlagTypes
  <2> QED BY <1>2, <1>3, <1>4, <1>5, <2>1, <2>2
<1>8. CASE HandleReadRefused(s)
  <2>1. SessionTypes'
    BY <1>8, SessionOperatorTypes DEF HandleReadRefused, Begins, SessionTypes
  <2>2. SessionFlagTypes'
    BY <1>8, SessionOperatorTypes DEF HandleReadRefused, Begins, SessionFlagTypes
  <2> QED BY <1>2, <1>3, <1>4, <1>5, <2>1, <2>2
<1>9. CASE HandleReadBad(s)
  <2>1. SessionTypes'
    BY <1>9, SessionOperatorTypes DEF HandleReadBad, Begins, SessionTypes
  <2>2. SessionFlagTypes'
    BY <1>9, SessionOperatorTypes DEF HandleReadBad, Begins, SessionFlagTypes
  <2> QED BY <1>2, <1>3, <1>4, <1>5, <2>1, <2>2
<1>10. CASE HandleReadError(s)
  <2>1. SessionTypes'
    BY <1>10, SessionOperatorTypes DEF HandleReadError, Begins, SessionTypes
  <2>2. SessionFlagTypes'
    BY <1>10, SessionOperatorTypes DEF HandleReadError, Begins, SessionFlagTypes
  <2> QED BY <1>2, <1>3, <1>4, <1>5, <2>1, <2>2
<1>11. CASE HandleResponse(s)
  <2>1. SessionTypes'
    BY <1>11, SessionOperatorTypes DEF HandleResponse, Begins, SessionTypes
  <2>2. SessionFlagTypes'
    BY <1>11, SessionOperatorTypes DEF HandleResponse, Begins, SessionFlagTypes
  <2> QED BY <1>2, <1>3, <1>4, <1>5, <2>1, <2>2
<1>12. CASE HandleWrite(s)
  <2>1. SessionTypes'
    BY <1>12, SessionOperatorTypes DEF HandleWrite, Begins, SessionTypes
  <2>2. SessionFlagTypes'
    BY <1>12, SessionOperatorTypes DEF HandleWrite, Begins, SessionFlagTypes
  <2> QED BY <1>2, <1>3, <1>4, <1>5, <2>1, <2>2
<1>13. CASE HandleWriteError(s)
  <2>1. SessionTypes'
    BY <1>13, SessionOperatorTypes DEF HandleWriteError, Begins, SessionTypes
  <2>2. SessionFlagTypes'
    BY <1>13, SessionOperatorTypes DEF HandleWriteError, Begins, SessionFlagTypes
  <2> QED BY <1>2, <1>3, <1>4, <1>5, <2>1, <2>2
<1>14. CASE HandleDrain(s)
  <2>1. SessionTypes'
    BY <1>14, SessionOperatorTypes DEF HandleDrain, Begins, SessionTypes
  <2>2. SessionFlagTypes'
    BY <1>14, SessionOperatorTypes DEF HandleDrain, Begins, SessionFlagTypes
  <2> QED BY <1>2, <1>3, <1>4, <1>5, <2>1, <2>2
<1>15. CASE HandleClose(s)
  <2>1. SessionTypes'
    BY <1>15, SessionOperatorTypes DEF HandleClose, Begins, SessionTypes
  <2>2. SessionFlagTypes'
    BY <1>15, SessionOperatorTypes DEF HandleClose, Begins, SessionFlagTypes
  <2> QED BY <1>2, <1>3, <1>4, <1>5, <2>1, <2>2
<1>16. CASE RemoveSession(s)
  <2>1. SessionTypes'
    BY <1>16 DEF RemoveSession, SessionTypes
  <2>2. SessionFlagTypes'
    BY <1>16 DEF RemoveSession, SessionFlagTypes
  <2> QED BY <1>2, <1>3, <1>4, <1>5, <2>1, <2>2
<1>17. CASE OpEnds(s)
  <2>1. \A h \in SessionHandlers : Append(inbox[s], h) \in Seq(SessionHandlers)
    BY AppendFacts DEF SessionTypes
  <2>2. SessionTypes'
    <3>1. ASSUME NEW h \in SessionHandlers, ReadEnds(s, h) \/ WriteEnds(s, h) PROVE SessionTypes'
      BY <2>1, <3>1 DEF ReadEnds, WriteEnds, SessionTypes
    <3> QED BY <1>17, <3>1 DEF OpEnds, SessionHandlers
  <2>3. SessionFlagTypes'
    BY <1>17 DEF OpEnds, ReadEnds, WriteEnds, SessionFlagTypes
  <2> QED BY <1>2, <1>3, <1>4, <1>5, <2>2, <2>3
<1>18. CASE ExecuteRequest(s)
  <2>1. Append(inbox[s], "response") \in Seq(SessionHandlers)
    BY AppendFacts DEF SessionTypes, SessionHandlers
  <2>2. SessionTypes'
    BY <1>18, <2>1 DEF ExecuteRequest, SessionTypes
  <2>3. SessionFlagTypes'
    BY <1>18 DEF ExecuteRequest, SessionFlagTypes
  <2> QED BY <1>2, <1>3, <1>4, <1>5, <2>2, <2>3
<1> QED BY <1>6, <1>7, <1>8, <1>9, <1>10, <1>11, <1>12, <1>13, <1>14, <1>15, <1>16, <1>17, <1>18
           DEF SessionStep

LEMMA CountKeepsTypes == Typed /\ WorkerCounts => Typed'
<1> SUFFICES ASSUME Typed, WorkerCounts PROVE Typed'
  OBVIOUS
<1> USE DEF Typed, WorkerCounts, otherVars, lifeVars, ioVars, sessionVars
<1>1. FlagTypes'
  BY DEF FlagTypes
<1>2. CountTypes'
  BY DEF CountTypes
<1>3. StrandTypes'
  BY DEF StrandTypes
<1>4. SessionTypes'
  BY DEF SessionTypes
<1>5. SessionFlagTypes'
  BY DEF SessionFlagTypes
<1>6. CallTypes'
  BY DEF CallTypes
<1> QED BY <1>1, <1>2, <1>3, <1>4, <1>5, <1>6

\* The steps of Next, by who takes them.
CallStep(t) ==
    \/ Start(t) \/ StartFails(t) \/ StopIdle(t) \/ ThreadStep(t)
    \/ \E wait \in BOOLEAN : StopBegin(t, wait)

IoStep == IoExit \/ IoThrows \/ ClientConnects \/ AcceptFails \/ GraceEnds

ConnectionStep(s) == SessionStep(s) \/ OpEnds(s) \/ ExecuteRequest(s)

LEMMA NextSteps ==
    Next => \/ \E t \in Thread : CallStep(t)
            \/ IoStep \/ StrandStep \/ WorkerCounts
            \/ \E s \in Session : ConnectionStep(s)
  BY DEF Next, CallStep, IoStep, ConnectionStep

LEMMA StepKeepsTypes == Typed /\ [Next]_vars => Typed'
<1> SUFFICES ASSUME Typed, [Next]_vars PROVE Typed'
  OBVIOUS
<1>1. CASE UNCHANGED vars
  <2> USE <1>1 DEF vars, lifeVars, ioVars, execVars, sessionVars
  <2>1. FlagTypes'
    BY DEF Typed, FlagTypes
  <2>2. CountTypes' /\ StrandTypes' /\ SessionTypes' /\ CallTypes'
    BY DEF Typed, CountTypes, StrandTypes, SessionTypes, CallTypes
  <2>3. SessionFlagTypes'
    BY DEF Typed, SessionFlagTypes
  <2> QED BY <2>1, <2>2, <2>3 DEF Typed
<1>2. CASE Next
  BY <1>2, NextSteps, CallStepKeepsTypes, IoStepKeepsTypes, StrandStepKeepsTypes,
     SessionStepKeepsTypes, CountKeepsTypes DEF CallStep, IoStep, ConnectionStep
<1> QED BY <1>1, <1>2

\* Every variable keeps its type, whatever callers, clients, handlers and the executor do.
THEOREM TypeCorrect == Spec => []TypeOK
<1>1. Spec => []Typed
  BY InitIsTyped, StepKeepsTypes, PTL DEF Spec
<1> QED BY <1>1, TypedIsTypeOK, PTL

-----------------------------------------------------------------------------
(* Who joins the I/O threads, and what the executor still holds *)

\* A step of t's call: t alone goes on, and gets no StopOnIoContext to schedule by it.
Moves(t, from, to) ==
    /\ pc[t].at = from /\ pc'[t].at \in to
    /\ pc'[t].post => pc[t].post
    /\ \A u \in Thread : u # t => pc'[u] = pc[u]

LEMMA MoveFacts ==
    ASSUME CallTypes, NEW t \in Thread
    PROVE  /\ \A at \in ThreadPcs : Goto(t, at) => Moves(t, pc[t].at, {at})
           /\ AfterStop(t) => Moves(t, pc[t].at, {"idle", "waitBegin"}) /\ pc'[t].post = FALSE
           /\ pc' = [pc EXCEPT ![t] = Idle] => Moves(t, pc[t].at, {"idle"}) /\ pc'[t].post = FALSE
<1>1. ASSUME NEW at \in ThreadPcs, Goto(t, at) PROVE Moves(t, pc[t].at, {at})
  <2>1. pc' = [pc EXCEPT ![t] = [pc[t] EXCEPT !.at = at]]
    BY <1>1 DEF Goto
  <2>2. pc'[t].at = at /\ \A u \in Thread : u # t => pc'[u] = pc[u]
    BY <2>1 DEF CallTypes, CallRecords
  <2>3. pc'[t].post = pc[t].post
    BY <2>1 DEF CallTypes, CallRecords
  <2> QED BY <2>2, <2>3 DEF Moves
<1>2. ASSUME AfterStop(t)
      PROVE  Moves(t, pc[t].at, {"idle", "waitBegin"}) /\ pc'[t].post = FALSE
  BY <1>2 DEF AfterStop, CallTypes, Idle, Moves
<1>3. ASSUME pc' = [pc EXCEPT ![t] = Idle]
      PROVE  Moves(t, pc[t].at, {"idle"}) /\ pc'[t].post = FALSE
  BY <1>3 DEF CallTypes, Idle, Moves
<1> QED BY <1>1, <1>2, <1>3

\* Where each step of a call leads.
LEMMA CallMoves ==
    ASSUME Typed, NEW t \in Thread
    PROVE  /\ StartFails(t) => Moves(t, "idle", {"startFails"})
           /\ StartFailEnd(t) => Moves(t, "startFails", {"idle"})
           /\ StopIdle(t) => Moves(t, "idle", {"waitBegin"})
           /\ StopExec(t) => /\ pc[t].post => Moves(t, "stopExec", {"stopPost"})
                             /\ ~pc[t].post => Moves(t, "stopExec", {"idle", "waitBegin"})
           /\ StopPost(t) => Moves(t, "stopPost", {"idle", "waitBegin"}) /\ pc'[t].post = FALSE
           /\ WaitBegin(t) => /\ ioOwned => Moves(t, "waitBegin", {"waitExec"})
                              /\ ~ioOwned => Moves(t, "waitBegin", {"idle"})
           /\ WaitExec(t) => Moves(t, "waitExec", {"waitDrain"})
           /\ WaitDrain(t) => Moves(t, "waitDrain", {"waitPost"})
           /\ WaitPost(t) => Moves(t, "waitPost", {"waitIo"})
           /\ WaitIo(t) => Moves(t, "waitIo", {"waitEnd"})
           /\ WaitEnd(t) => Moves(t, "waitEnd", {"idle"})
<1> USE MoveFacts DEF Typed, ThreadPcs
<1>1. StartFails(t) => Moves(t, "idle", {"startFails"})
  BY DEF StartFails, MayStart
<1>2. StartFailEnd(t) => Moves(t, "startFails", {"idle"})
  BY DEF StartFailEnd
<1>3. StopIdle(t) => Moves(t, "idle", {"waitBegin"})
  BY DEF StopIdle
<1>4. StopExec(t) => /\ pc[t].post => Moves(t, "stopExec", {"stopPost"})
                     /\ ~pc[t].post => Moves(t, "stopExec", {"idle", "waitBegin"})
  BY DEF StopExec
<1>5. StopPost(t) => Moves(t, "stopPost", {"idle", "waitBegin"}) /\ pc'[t].post = FALSE
  BY DEF StopPost
<1>6. WaitBegin(t) => /\ ioOwned => Moves(t, "waitBegin", {"waitExec"})
                      /\ ~ioOwned => Moves(t, "waitBegin", {"idle"})
  BY DEF WaitBegin
<1>7. WaitExec(t) => Moves(t, "waitExec", {"waitDrain"})
  BY DEF WaitExec
<1>8. WaitDrain(t) => Moves(t, "waitDrain", {"waitPost"})
  BY DEF WaitDrain
<1>9. WaitPost(t) => Moves(t, "waitPost", {"waitIo"})
  BY DEF WaitPost
<1>10. WaitIo(t) => Moves(t, "waitIo", {"waitEnd"})
  BY DEF WaitIo
<1>11. WaitEnd(t) => Moves(t, "waitEnd", {"idle"})
  BY DEF WaitEnd
<1> QED BY <1>1, <1>2, <1>3, <1>4, <1>5, <1>6, <1>7, <1>8, <1>9, <1>10, <1>11

\* RequestStop makes the first to stop the one who schedules StopOnIoContext.
LEMMA StopBeginMoves ==
    ASSUME Typed, NEW t \in Thread, NEW wait \in BOOLEAN, StopBegin(t, wait)
    PROVE  /\ pc[t].at = "idle" /\ pc'[t].at = "stopExec"
           /\ pc'[t].post <=> state # "stopping"
           /\ \A u \in Thread : u # t => pc'[u] = pc[u]
  BY DEF Typed, CallTypes, StopBegin

\* A move that neither enters nor leaves Wait.
LEMMA SameJoiner ==
    ASSUME NEW t \in Thread, NEW from, NEW to, Moves(t, from, to),
           from \in WaitPcs => to \subseteq WaitPcs,
           from \notin WaitPcs => to \cap WaitPcs = {}
    PROVE  \A u \in Thread : InWait(u)' <=> InWait(u)
  BY DEF Moves, InWait

LEMMA InitIsJoined == Init => ServerInv
<1> SUFFICES ASSUME Init PROVE ServerInv
  OBVIOUS
<1>1. \A t \in Thread : pc[t].at = "idle"
  BY DEF Init, Idle
<1>2. OneJoins
  BY <1>1 DEF Init, OneJoins, InWait, WaitPcs
<1>3. DrainedStays
  BY <1>1, FS_EmptySet DEF Init, DrainedStays, WaitPcs
<1> QED BY <1>2, <1>3 DEF ServerInv

\* A step that leaves the I/O threads with whoever has them.
LEMMA SameJoins ==
    ASSUME OneJoins, \A u \in Thread : InWait(u)' <=> InWait(u),
           \A u \in Thread : pc'[u].at = "waitEnd" => pc[u].at = "waitEnd",
           UNCHANGED <<waiting, ioOwned>>, ioUp' => ioUp
    PROVE  OneJoins'
<1> USE DEF OneJoins
<1>1. waiting' <=> \E u \in Thread : InWait(u)'
  OBVIOUS
<1>2. \A u, w \in Thread : InWait(u)' /\ InWait(w)' => u = w
  OBVIOUS
<1>3. (waiting' => ~ioOwned') /\ (ioUp' => ioOwned' \/ waiting')
  OBVIOUS
<1>4. \A u \in Thread : pc'[u].at = "waitEnd" => ~ioUp'
  OBVIOUS
<1> QED BY <1>1, <1>2, <1>3, <1>4

\* One thread at a time takes the I/O threads, and gives them back after they have ended.
LEMMA CallsKeepOneJoins ==
    ASSUME Typed, OneJoins, NEW t \in Thread, CallStep(t)
    PROVE  OneJoins'
<1> USE DEF lifeVars, ioVars
<1>1. ASSUME NEW from, NEW to, Moves(t, from, to), from \notin WaitPcs, to \cap WaitPcs = {},
             UNCHANGED <<waiting, ioOwned, ioUp>>
      PROVE  OneJoins'
  <2>1. \A u \in Thread : InWait(u)' <=> InWait(u)
    BY <1>1, SameJoiner
  <2>2. \A u \in Thread : pc'[u].at = "waitEnd" => pc[u].at = "waitEnd"
    BY <1>1 DEF Moves, WaitPcs
  <2> QED BY <1>1, <2>1, <2>2, SameJoins
<1>2. ASSUME NEW from, NEW to, Moves(t, from, to), from \in WaitPcs, to \subseteq WaitPcs,
             "waitEnd" \notin to, UNCHANGED <<waiting, ioOwned, ioUp>>
      PROVE  OneJoins'
  <2>1. \A u \in Thread : InWait(u)' <=> InWait(u)
    BY <1>2, SameJoiner
  <2>2. \A u \in Thread : pc'[u].at = "waitEnd" => pc[u].at = "waitEnd"
    BY <1>2 DEF Moves
  <2> QED BY <1>2, <2>1, <2>2, SameJoins
<1>3. CASE Start(t)
  BY <1>3 DEF Start, MayStart, OneJoins, InWait, WaitPcs
<1>4. CASE StartFails(t)
  BY <1>1, <1>4, CallMoves DEF StartFails, WaitPcs
<1>5. CASE StopIdle(t)
  BY <1>1, <1>5, CallMoves DEF StopIdle, WaitPcs
<1>6. CASE StartFailEnd(t)
  BY <1>1, <1>6, CallMoves DEF StartFailEnd, WaitPcs
<1>7. CASE StopExec(t)
  BY <1>1, <1>7, CallMoves DEF StopExec, WaitPcs
<1>8. CASE StopPost(t)
  BY <1>1, <1>8, CallMoves DEF StopPost, WaitPcs
<1>9. ASSUME NEW wait \in BOOLEAN, StopBegin(t, wait) PROVE OneJoins'
  <2>1. \A u \in Thread : InWait(u)' <=> InWait(u)
    BY <1>9, StopBeginMoves DEF InWait, WaitPcs
  <2>2. \A u \in Thread : pc'[u].at = "waitEnd" => pc[u].at = "waitEnd"
    BY <1>9, StopBeginMoves
  <2> QED BY <1>9, <2>1, <2>2, SameJoins DEF StopBegin
<1>10. CASE WaitBegin(t) /\ ~ioOwned
  BY <1>1, <1>10, CallMoves DEF WaitBegin, WaitPcs
<1>11. CASE WaitBegin(t) /\ ioOwned
  <2>1. waiting' = TRUE /\ ioOwned' = FALSE /\ waiting = FALSE
    BY <1>11 DEF WaitBegin, Typed, FlagTypes
  <2>2. Moves(t, "waitBegin", {"waitExec"})
    BY <1>11, CallMoves
  <2>3. \A u \in Thread : InWait(u)' <=> u = t
    BY <2>1, <2>2 DEF Moves, OneJoins, InWait, WaitPcs
  <2>4. \A u \in Thread : pc'[u].at # "waitEnd"
    BY <2>1, <2>2 DEF Moves, OneJoins, InWait, WaitPcs
  <2> QED BY <2>1, <2>3, <2>4 DEF OneJoins
<1>12. CASE WaitExec(t)
  BY <1>2, <1>12, CallMoves DEF WaitExec, WaitPcs
<1>13. CASE WaitDrain(t)
  BY <1>2, <1>13, CallMoves DEF WaitDrain, WaitPcs
<1>14. CASE WaitPost(t)
  BY <1>2, <1>14, CallMoves DEF WaitPost, WaitPcs
<1>15. CASE WaitIo(t)
  <2>1. Moves(t, "waitIo", {"waitEnd"})
    BY <1>15, CallMoves
  <2>2. \A u \in Thread : InWait(u)' <=> InWait(u)
    BY <2>1, SameJoiner DEF WaitPcs
  <2>3. ~ioUp' /\ UNCHANGED <<waiting, ioOwned>>
    BY <1>15 DEF WaitIo
  <2> QED BY <2>2, <2>3 DEF OneJoins
<1>16. CASE WaitEnd(t)
  <2>1. Moves(t, "waitEnd", {"idle"})
    BY <1>16, CallMoves
  <2>2. waiting' = FALSE /\ ioOwned' = ioOwned /\ ioUp' = ioUp
    BY <1>16 DEF WaitEnd
  <2>3. \A u \in Thread : ~InWait(u)' /\ pc'[u].at # "waitEnd"
    BY <2>1 DEF Moves, OneJoins, InWait, WaitPcs
  <2>4. ~ioUp
    BY <2>1 DEF Moves, OneJoins
  <2> QED BY <2>2, <2>3, <2>4 DEF OneJoins
<1> QED BY <1>3, <1>4, <1>5, <1>6, <1>7, <1>8, <1>9, <1>10, <1>11, <1>12, <1>13, <1>14, <1>15,
           <1>16 DEF CallStep, ThreadStep

\* The thread whose Wait has drained the executor, and the stop that follows.
LEMMA CallsKeepDrained ==
    ASSUME Typed, ServerInv, NEW t \in Thread, CallStep(t)
    PROVE  DrainedStays'
<1> USE DEF lifeVars, execVars, ServerInv
<1>1. ASSUME NEW from, NEW to, Moves(t, from, to), to \cap (WaitPcs \ {"waitExec"}) = {},
             open' => open, UNCHANGED <<accepted, uncounted, drained, completed>>
      PROVE  DrainedStays'
  <2>1. \A u \in Thread : pc'[u].at \in WaitPcs \ {"waitExec"} => pc'[u].at = pc[u].at
    BY <1>1 DEF Moves
  <2> QED BY <1>1, <2>1 DEF DrainedStays
<1>2. CASE Start(t) \/ StartFails(t)
  <2>1. \A u \in Thread : ~InWait(u)'
    <3>1. CASE Start(t)
      BY <3>1 DEF Start, MayStart, OneJoins, InWait, WaitPcs
    <3>2. CASE StartFails(t)
      BY <3>2, CallMoves DEF StartFails, MayStart, OneJoins, InWait, WaitPcs, Moves
    <3> QED BY <1>2, <3>1, <3>2
  <2>2. drained' = FALSE /\ completed' = FALSE /\ accepted' = {}
    BY <1>2 DEF Start, StartFails
  <2> QED BY <2>1, <2>2, FS_EmptySet DEF DrainedStays, InWait, WaitPcs
<1>3. CASE StopIdle(t)
  BY <1>1, <1>3, CallMoves DEF StopIdle, WaitPcs
<1>4. CASE StartFailEnd(t)
  BY <1>1, <1>4, CallMoves DEF StartFailEnd, WaitPcs
<1>5. CASE StopExec(t)
  BY <1>1, <1>5, CallMoves DEF StopExec, WaitPcs
<1>6. CASE StopPost(t)
  BY <1>1, <1>6, CallMoves DEF StopPost, WaitPcs
<1>7. ASSUME NEW wait \in BOOLEAN, StopBegin(t, wait) PROVE DrainedStays'
  <2>1. \A u \in Thread : pc'[u].at \in WaitPcs \ {"waitExec"} => pc'[u].at = pc[u].at
    BY <1>7, StopBeginMoves DEF WaitPcs
  <2> QED BY <1>7, <2>1 DEF StopBegin, DrainedStays
<1>8. CASE WaitBegin(t)
  BY <1>1, <1>8, CallMoves DEF WaitBegin, WaitPcs
<1>9. CASE WaitExec(t)
  <2>1. Moves(t, "waitExec", {"waitDrain"})
    BY <1>9, CallMoves
  <2>2. open' = FALSE /\ UNCHANGED <<accepted, uncounted, drained, completed>>
    BY <1>9 DEF WaitExec
  <2>3. \A u \in Thread : pc'[u].at \in WaitPcs \ {"waitExec", "waitDrain"} => pc'[u] = pc[u]
    BY <2>1 DEF Moves
  <2> QED BY <2>2, <2>3 DEF DrainedStays
<1>10. CASE WaitDrain(t)
  <2>1. Moves(t, "waitDrain", {"waitPost"})
    BY <1>10, CallMoves
  <2>2. ~open
    BY <2>1 DEF DrainedStays, Moves, WaitPcs
  <2>3. accepted = {} /\ uncounted = 0
    BY <1>10, FS_EmptySet, FS_CardinalityType
       DEF WaitDrain, InFlight, DrainedStays, Typed, CountTypes
  <2>4. drained' = TRUE /\ UNCHANGED <<open, accepted, uncounted, completed>>
    BY <1>10 DEF WaitDrain
  <2>5. \A u \in Thread : pc'[u].at \in WaitPcs \ {"waitExec"} => ~open
    BY <2>1, <2>2 DEF DrainedStays, Moves
  <2> QED BY <2>2, <2>3, <2>4, <2>5, FS_EmptySet DEF DrainedStays
<1>11. ASSUME NEW from \in {"waitPost", "waitIo"}, NEW to, Moves(t, from, to),
              UNCHANGED <<open, accepted, uncounted, drained, completed>>
       PROVE  DrainedStays'
  <2>1. ~open /\ drained
    BY <1>11 DEF DrainedStays, Moves, WaitPcs
  <2> QED BY <1>11, <2>1 DEF DrainedStays
<1>12. CASE WaitPost(t)
  BY <1>11, <1>12, CallMoves DEF WaitPost
<1>13. CASE WaitIo(t)
  BY <1>11, <1>13, CallMoves DEF WaitIo
<1>14. CASE WaitEnd(t)
  BY <1>1, <1>14, CallMoves DEF WaitEnd, WaitPcs
<1> QED BY <1>2, <1>3, <1>4, <1>5, <1>6, <1>7, <1>8, <1>9, <1>10, <1>12, <1>13, <1>14
        DEF CallStep, ThreadStep

\* A step of the I/O threads, of a session or of the executor, which takes no part in Wait.
LEMMA OthersKeepServer ==
    ASSUME Typed, ServerInv,
           UNCHANGED <<pc, waiting, ioOwned, open, drained>>, ioUp' => ioUp,
           IsFiniteSet(accepted'), ~open => accepted' \subseteq accepted,
           uncounted' # 0 => uncounted # 0 \/ accepted # {},
           completed' => completed \/ drained
    PROVE  ServerInv'
<1>1. OneJoins'
  BY SameJoins DEF ServerInv, InWait
<1>2. DrainedStays'
  BY DEF ServerInv, DrainedStays
<1> QED BY <1>1, <1>2 DEF ServerInv

LEMMA IoKeepsServer ==
    ASSUME Typed, ServerInv, IoStep \/ StrandStep \/ WorkerCounts
    PROVE  ServerInv'
<1> USE DEF lifeVars, ioVars, execVars, otherVars
<1>1. UNCHANGED <<pc, waiting, ioOwned, open, drained>>
  BY DEF IoStep, IoExit, IoThrows, ClientConnects, AcceptFails, GraceEnds, StrandStep, HandleAccept,
     HandleAcceptError, Rearm, StopOnIoContext, DrainSessions, HandleShutdownDeadline,
     HandleTry, TryCompleteStop, RegisterSession, WorkerCounts
<1>2. accepted' = accepted
  BY DEF IoStep, IoExit, IoThrows, ClientConnects, AcceptFails, GraceEnds, StrandStep, HandleAccept,
     HandleAcceptError, Rearm, StopOnIoContext, DrainSessions, HandleShutdownDeadline,
     HandleTry, TryCompleteStop, RegisterSession, WorkerCounts
<1>3. ioUp' => ioUp
  BY DEF IoStep, IoExit, IoThrows, ClientConnects, AcceptFails, GraceEnds, StrandStep, HandleAccept,
     HandleAcceptError, Rearm, StopOnIoContext, DrainSessions, HandleShutdownDeadline,
     HandleTry, TryCompleteStop, RegisterSession, WorkerCounts
<1>4. completed' => completed \/ drained
  BY DEF IoStep, IoExit, IoThrows, ClientConnects, AcceptFails, GraceEnds, StrandStep, HandleAccept,
     HandleAcceptError, Rearm, StopOnIoContext, DrainSessions, HandleShutdownDeadline,
     HandleTry, TryCompleteStop, MayComplete, RegisterSession, WorkerCounts
<1>5. uncounted' # 0 => uncounted # 0
  <2>1. CASE IoStep \/ StrandStep
    <3>1. uncounted' = uncounted
      BY <2>1 DEF IoStep, IoExit, IoThrows, ClientConnects, AcceptFails, GraceEnds, StrandStep,
         HandleAccept, HandleAcceptError, Rearm, StopOnIoContext, DrainSessions,
         HandleShutdownDeadline, HandleTry, TryCompleteStop, RegisterSession
    <3> QED BY <3>1
  <2>2. CASE WorkerCounts
    BY <2>2 DEF WorkerCounts
  <2> QED BY <2>1, <2>2
<1>6. IsFiniteSet(accepted')
  BY <1>2 DEF ServerInv, DrainedStays
<1> QED BY <1>1, <1>2, <1>3, <1>4, <1>5, <1>6, OthersKeepServer

\* The executor takes a request only while it is open, and counts it until its end.
LEMMA SessionAccepts ==
    ASSUME NEW s \in Session, ConnectionStep(s)
    PROVE  /\ accepted' \subseteq accepted \/ (open /\ accepted' = accepted \cup {s})
           /\ uncounted' = uncounted \/ s \in accepted
<1> USE DEF ConnectionStep, SessionStep, HandleStart, HandleRead, HandleReadRefused,
        HandleReadBad, HandleReadError, HandleResponse, HandleWrite, HandleWriteError, HandleDrain,
        HandleClose, RemoveSession, OpEnds, ReadEnds, WriteEnds, ExecuteRequest, execVars
<1>1. accepted' \subseteq accepted \/ (open /\ accepted' = accepted \cup {s})
  OBVIOUS
<1>2. uncounted' = uncounted \/ s \in accepted
  OBVIOUS
<1> QED BY <1>1, <1>2

LEMMA ConnectionKeepsServer ==
    ASSUME Typed, ServerInv, NEW s \in Session, ConnectionStep(s)
    PROVE  ServerInv'
<1>1. SessionEffect
  BY SessionStepEffect DEF ConnectionStep
<1>2. UNCHANGED <<pc, waiting, ioOwned, open, drained, completed, ioUp>>
  BY <1>1 DEF SessionEffect, otherVars, lifeVars, ioVars
<1>3. IsFiniteSet(accepted')
  BY SessionAccepts, FS_AddElement, FS_Subset DEF ServerInv, DrainedStays
<1> QED BY <1>2, <1>3, SessionAccepts, OthersKeepServer

LEMMA StepKeepsServer == Typed /\ ServerInv /\ [Next]_vars => ServerInv'
<1> SUFFICES ASSUME Typed, ServerInv, [Next]_vars PROVE ServerInv'
  OBVIOUS
<1>1. CASE UNCHANGED vars
  BY <1>1, OthersKeepServer DEF vars, lifeVars, ioVars, execVars, ServerInv, DrainedStays
<1>2. CASE Next
  BY <1>2, NextSteps, CallsKeepOneJoins, CallsKeepDrained, IoKeepsServer, ConnectionKeepsServer
     DEF ServerInv
<1> QED BY <1>1, <1>2

-----------------------------------------------------------------------------
(* One exchange at a time on a session *)

\* A handler posted to the strand of a session.
LEMMA WorkAppend ==
    ASSUME NEW s \in Session, inbox[s] \in Seq(SessionHandlers), NEW h \in SessionHandlers,
           inbox'[s] = Append(inbox[s], h)
    PROVE  /\ h \notin Work => WorkIn(s)' = WorkIn(s)
           /\ WorkIn(s) = {} => \A i, j \in WorkIn(s)' : i = j
           /\ (\A i, j \in WorkIn(s) : i = j) /\ h \notin Work => \A i, j \in WorkIn(s)' : i = j
<1> DEFINE q == inbox[s]
           r == inbox'[s]
<1>1. q \in Seq(SessionHandlers) /\ r = Append(q, h) /\ Len(r) = Len(q) + 1 /\ Len(q) \in Nat
  OBVIOUS
<1>2. DOMAIN q = 1 .. Len(q) /\ DOMAIN r = 1 .. Len(q) + 1
  BY <1>1
<1>3. (\A i \in 1 .. Len(q) : r[i] = q[i]) /\ r[Len(q) + 1] = h
  BY <1>1
<1>4. WorkIn(s) = {i \in DOMAIN q : q[i] \in Work} /\ WorkIn(s)' = {i \in DOMAIN r : r[i] \in Work}
  BY DEF WorkIn
<1> HIDE DEF q, r
<1>5. \A i \in WorkIn(s)' : i \in WorkIn(s) \/ (i = Len(q) + 1 /\ h \in Work)
  BY <1>1, <1>2, <1>3, <1>4
<1>6. WorkIn(s) \subseteq WorkIn(s)'
  BY <1>1, <1>2, <1>3, <1>4
<1> QED BY <1>5, <1>6

\* The first handler on the strand of a session runs, and is gone.
LEMMA WorkTail ==
    ASSUME NEW s \in Session, inbox[s] \in Seq(SessionHandlers), inbox[s] # <<>>,
           \A i, j \in WorkIn(s) : i = j, inbox'[s] = Tail(inbox[s])
    PROVE  /\ Head(inbox[s]) \in Work => WorkIn(s) # {} /\ WorkIn(s)' = {}
           /\ WorkIn(s) = {} => WorkIn(s)' = {}
           /\ \A i, j \in WorkIn(s)' : i = j
<1> DEFINE q == inbox[s]
           r == inbox'[s]
<1>1. q \in Seq(SessionHandlers) /\ r = Tail(q) /\ Len(r) = Len(q) - 1
      /\ Len(q) \in Nat /\ Len(q) > 0
  OBVIOUS
<1>2. DOMAIN q = 1 .. Len(q) /\ DOMAIN r = 1 .. Len(q) - 1
  BY <1>1
<1>3. (\A i \in 1 .. Len(q) - 1 : r[i] = q[i + 1]) /\ Head(q) = q[1]
  BY <1>1
<1>4. WorkIn(s) = {i \in DOMAIN q : q[i] \in Work} /\ WorkIn(s)' = {i \in DOMAIN r : r[i] \in Work}
  BY DEF WorkIn
<1> HIDE DEF q, r
<1>5. \A i \in WorkIn(s)' : i \in Nat /\ i > 0 /\ i + 1 \in WorkIn(s)
  BY <1>1, <1>2, <1>3, <1>4
<1>6. q[1] \in Work => 1 \in WorkIn(s)
  BY <1>1, <1>2, <1>4
<1>7. q[1] \in Work => WorkIn(s)' = {}
  <2> SUFFICES ASSUME q[1] \in Work, NEW i \in WorkIn(s)' PROVE FALSE
    OBVIOUS
  <2>1. i + 1 = 1 /\ i \in Nat /\ i > 0
    BY <1>5, <1>6
  <2> QED BY <2>1
<1>8. ASSUME NEW i \in WorkIn(s)', NEW j \in WorkIn(s)' PROVE i = j
  <2>1. i \in Nat /\ j \in Nat /\ i + 1 = j + 1
    BY <1>5
  <2> QED BY <2>1
<1>9. Head(inbox[s]) = q[1]
  BY <1>3 DEF q
<1> QED BY <1>5, <1>6, <1>7, <1>8, <1>9

\* An empty queue has no work.
LEMMA WorkEmpty ==
    ASSUME NEW s \in Session, inbox[s] = <<>>
    PROVE  WorkIn(s) = {}
  BY DEF WorkIn

\* A queue without work waits for no answer and for the end of no write.
LEMMA NoWorkNoResponse ==
    ASSUME NEW s \in Session, WorkIn(s) = {}
    PROVE  /\ ~HasResponse(s)
           /\ ToSet(inbox[s]) \cap {"writeOk", "writeError"} = {}
           /\ IsWriting(s) <=> op[s] = "write"
<1>1. "response" \in Work /\ {"writeOk", "writeError"} \subseteq Work
  BY DEF Work, SessionHandlers
<1>2. \A h \in Work : h \notin ToSet(inbox[s])
  BY DEF WorkIn, ToSet
<1> QED BY <1>1, <1>2 DEF HasResponse, IsWriting

LEMMA SliceKeeps ==
    ASSUME NEW s \in Session, OneThing(s), Answered(s),
           UNCHANGED <<sstate[s], op[s], inbox[s]>>, s \in accepted' => s \in accepted,
           s \in cut => s \in cut',
           strandAt' = <<"register", s>> => strandAt = <<"register", s>>
    PROVE  OneThing(s)' /\ Answered(s)'
<1>1. /\ WorkIn(s)' = WorkIn(s)
      /\ HasResponse(s)' <=> HasResponse(s)
      /\ IsWriting(s)' <=> IsWriting(s)
  BY DEF WorkIn, HasResponse, IsWriting
<1>2. OneThing(s)'
  BY <1>1 DEF OneThing
<1>3. Answered(s)'
  BY <1>1 DEF Answered
<1> QED BY <1>2, <1>3

\* A handler that carries on the exchange leaves at most one thing to come.
LEMMA WorkHandled ==
    ASSUME Typed, Typed', NEW s \in Session, OneThing(s), Answered(s),
           NEW h \in Work, Begins(s, h), inbox'[s] = Rest(s), UNCHANGED strandAt,
           op'[s] # "none" => s \notin accepted',
           op'[s] = "write" => sstate'[s] = "writing",
           s \in accepted' => sstate'[s] = "handling" \/ s \in accepted,
           s \in cut => s \in cut'
    PROVE  OneThing(s)' /\ Answered(s)'
<1>1. inbox[s] \in Seq(SessionHandlers) /\ inbox[s] # <<>> /\ Head(inbox[s]) \in Work
  BY DEF Typed, SessionTypes, Begins
<1>2. WorkIn(s) # {} /\ WorkIn(s)' = {}
  BY <1>1, WorkTail DEF OneThing, Rest
<1>3. op[s] = "none" /\ s \notin accepted /\ strandAt # <<"register", s>>
  BY <1>1, <1>2 DEF OneThing
<1>4. OneThing(s)'
  BY <1>2, <1>3 DEF OneThing
<1>5. ~HasResponse(s)' /\ (IsWriting(s)' <=> op'[s] = "write")
  <2>1. "response" \in Work /\ {"writeOk", "writeError"} \subseteq Work
    BY DEF Work, SessionHandlers
  <2>2. \A x \in Work : x \notin ToSet(inbox'[s])
    BY <1>2 DEF WorkIn, ToSet
  <2> QED BY <2>1, <2>2 DEF HasResponse, IsWriting
<1>6. "close" \in ToSet(inbox[s])' => "close" \in ToSet(inbox[s])
  BY <1>1, TailFacts DEF Rest
<1>7. Answered(s)'
  BY <1>3, <1>5, <1>6 DEF Answered
<1> QED BY <1>4, <1>7

\* Another handler, which finds the session closed, closes it, or leaves its exchange alone.
LEMMA OtherHandled ==
    ASSUME Typed, Typed', NEW s \in Session, OneThing(s), Answered(s),
           NEW h \in {"drain", "close"}, Begins(s, h),
           UNCHANGED <<strandAt, accepted, cut>>,
           \/ /\ inbox'[s] = Rest(s) /\ UNCHANGED <<sstate[s], op[s]>>
           \/ /\ inbox'[s] = Rest(s) \o Aborted(s) /\ op'[s] = "none" /\ sstate'[s] = "closed"
              /\ h = "close" \/ sstate[s] = "reading"
    PROVE  OneThing(s)' /\ Answered(s)'
<1> DEFINE q == inbox[s]
<1>1. q \in Seq(SessionHandlers) /\ q # <<>> /\ Head(q) = h /\ Tail(q) \in Seq(SessionHandlers)
  BY TailFacts DEF Typed, SessionTypes, Begins
<1>2. strandAt # <<"register", s>>
  BY <1>1 DEF OneThing
<1>3. ToSet(q) = {h} \cup ToSet(Tail(q))
  BY <1>1, TailFacts
<1>4. h = "close" => s \in cut
  BY <1>3 DEF Answered
<1>5. CASE inbox'[s] = Rest(s) /\ op'[s] = op[s]
  <2>1. /\ WorkIn(s) = {} => WorkIn(s)' = {}
        /\ \A i, j \in WorkIn(s)' : i = j
    BY <1>1, <1>5, WorkTail DEF OneThing, Rest
  <2>2. OneThing(s)'
    BY <1>2, <1>5, <2>1 DEF OneThing
  <2>3. (HasResponse(s)' => HasResponse(s)) /\ (IsWriting(s)' => IsWriting(s))
    BY <1>3, <1>5 DEF HasResponse, IsWriting, Rest
  <2>4. "close" \in ToSet(inbox'[s]) => "close" \in ToSet(q)
    BY <1>3, <1>5 DEF Rest
  <2>5. sstate'[s] = sstate[s] \/ (sstate'[s] = "closed" /\ (h = "close" \/ sstate[s] = "reading"))
    OBVIOUS
  <2>6. s \in accepted' \/ HasResponse(s)' =>
            sstate[s] = "handling" \/ (sstate[s] = "closed" /\ s \in cut)
    BY <2>3 DEF Answered
  <2>7. IsWriting(s)' => sstate[s] = "writing" \/ (sstate[s] = "closed" /\ s \in cut)
    BY <2>3 DEF Answered
  <2>8. Answered(s)'
    BY <1>4, <2>4, <2>5, <2>6, <2>7 DEF Answered
  <2> QED BY <2>2, <2>8
<1>6. CASE /\ inbox'[s] = Rest(s) \o Aborted(s) /\ op'[s] = "none" /\ sstate'[s] = "closed"
           /\ h = "close" \/ sstate[s] = "reading"
  <2>1. CASE op[s] = "none"
    <3>1. Aborted(s) = <<>>
      BY <2>1 DEF Aborted
    <3>2. inbox'[s] = Rest(s)
      BY <1>1, <1>6, <3>1 DEF Rest
    <3> QED BY <1>5, <1>6, <2>1, <3>2
  <2>2. CASE op[s] # "none"
    <3>1. PICK e \in {"readError", "writeError"} :
              Aborted(s) = <<e>> /\ (e = "writeError" => op[s] = "write")
      BY <2>2 DEF Aborted, Typed, SessionTypes
    <3>2. inbox'[s] = Append(Rest(s), e) /\ Rest(s) \in Seq(SessionHandlers)
      BY <1>1, <1>6, <3>1 DEF Rest
    <3>3. WorkIn(s) = {} /\ s \notin accepted
      BY <2>2 DEF OneThing
    <3>4. ToSet(inbox'[s]) = ToSet(Rest(s)) \cup {e}
      BY <3>2, AppendFacts DEF SessionHandlers
    <3>5. \A i \in DOMAIN Rest(s) : Rest(s)[i] \notin Work
      <4>1. \A x \in ToSet(q) : x \notin Work
        BY <3>3 DEF WorkIn, ToSet
      <4> QED BY <1>3, <4>1 DEF Rest, ToSet
    <3>6. \A i, j \in WorkIn(s)' : i = j
      <4>1. \A i \in DOMAIN inbox'[s] :
                (i \in DOMAIN Rest(s) /\ inbox'[s][i] = Rest(s)[i]) \/ i = Len(Rest(s)) + 1
        BY <3>2
      <4> QED BY <3>5, <4>1 DEF WorkIn
    <3>7. OneThing(s)'
      BY <1>2, <1>6, <3>3, <3>6 DEF OneThing
    <3>8. ~HasResponse(s)'
      BY <1>3, <3>3, <3>4, NoWorkNoResponse DEF HasResponse, Rest
    <3>9. "close" \in ToSet(inbox'[s]) => "close" \in ToSet(q)
      BY <1>3, <3>4 DEF Rest
    <3>10. IsWriting(s)' => s \in cut
      <4>1. IsWriting(s)' => op[s] = "write"
        BY <1>3, <1>6, <3>1, <3>3, <3>4, NoWorkNoResponse DEF IsWriting, Rest
      <4>2. op[s] = "write" => sstate[s] # "reading"
        BY DEF Answered, IsWriting
      <4> QED BY <1>4, <1>6, <4>1, <4>2
    <3>11. Answered(s)'
      BY <1>6, <3>3, <3>8, <3>9, <3>10 DEF Answered
    <3> QED BY <3>7, <3>11
  <2> QED BY <2>1, <2>2
<1> QED BY <1>5, <1>6

\* A read or a write ends.
LEMMA OpEnded ==
    ASSUME Typed, Typed', NEW s \in Session, OneThing(s), Answered(s), OpEnds(s)
    PROVE  OneThing(s)' /\ Answered(s)'
<1>1. PICK h \in {"readOk", "readBad", "readError", "writeOk", "writeError"} :
          /\ inbox' = [inbox EXCEPT ![s] = Append(@, h)]
          /\ h \in {"writeOk", "writeError"} => op[s] = "write"
  BY DEF OpEnds, ReadEnds, WriteEnds
<1>2. op[s] # "none" /\ op'[s] = "none" /\ UNCHANGED <<strandAt, accepted, cut, sstate>>
  BY DEF OpEnds, ReadEnds, WriteEnds, otherVars, ioVars, execVars, Typed, SessionTypes
<1>3. inbox[s] \in Seq(SessionHandlers) /\ inbox'[s] = Append(inbox[s], h) /\ h \in SessionHandlers
  BY <1>1 DEF Typed, SessionTypes, SessionHandlers
<1>4. WorkIn(s) = {} /\ s \notin accepted /\ strandAt # <<"register", s>>
  BY <1>2 DEF OneThing
<1>5. \A i, j \in WorkIn(s)' : i = j
  BY <1>3, <1>4, WorkAppend
<1>6. ToSet(inbox'[s]) = ToSet(inbox[s]) \cup {h}
  BY <1>3, AppendFacts
<1>7. ~HasResponse(s)'
  BY <1>4, <1>6, NoWorkNoResponse DEF HasResponse
<1>8. OneThing(s)'
  BY <1>2, <1>4, <1>5 DEF OneThing
<1>9. IsWriting(s)' => IsWriting(s)
  BY <1>1, <1>2, <1>6 DEF IsWriting
<1>10. Answered(s)'
  BY <1>2, <1>4, <1>6, <1>7, <1>9 DEF Answered
<1> QED BY <1>8, <1>10

\* The executor's task ends.
LEMMA RequestExecuted ==
    ASSUME Typed, Typed', NEW s \in Session, OneThing(s), Answered(s), ExecuteRequest(s)
    PROVE  OneThing(s)' /\ Answered(s)'
<1>1. /\ s \in accepted /\ accepted' = accepted \ {s}
      /\ UNCHANGED <<strandAt, op, cut, sstate>>
  BY DEF ExecuteRequest, otherVars, ioVars
<1>2. inbox[s] \in Seq(SessionHandlers) /\ inbox'[s] = Append(inbox[s], "response")
  BY DEF ExecuteRequest, Typed, SessionTypes
<1>3. WorkIn(s) = {} /\ op[s] = "none" /\ strandAt # <<"register", s>>
  BY <1>1 DEF OneThing
<1>4. \A i, j \in WorkIn(s)' : i = j
  BY <1>2, <1>3, WorkAppend DEF SessionHandlers
<1>5. ToSet(inbox'[s]) = ToSet(inbox[s]) \cup {"response"}
  BY <1>2, AppendFacts DEF SessionHandlers
<1>6. OneThing(s)'
  BY <1>1, <1>3, <1>4 DEF OneThing
<1>7. ~IsWriting(s)'
  BY <1>1, <1>3, <1>5, NoWorkNoResponse DEF IsWriting
<1>8. Answered(s)'
  BY <1>1, <1>5, <1>7 DEF Answered
<1> QED BY <1>6, <1>8

\* What Close and ReadRequest do to the session's own queue and operation.
LEMMA CloseOutcome ==
    ASSUME Typed, NEW s \in Session, inbox[s] # <<>>, Close(s)
    PROVE  \/ inbox'[s] = Rest(s) /\ UNCHANGED <<sstate[s], op[s]>>
           \/ inbox'[s] = Rest(s) \o Aborted(s) /\ op'[s] = "none" /\ sstate'[s] = "closed"
  BY DEF Close, Keeps, Typed, SessionTypes

LEMMA IdleCloseOutcome ==
    ASSUME Typed, NEW s \in Session, inbox[s] # <<>>, op[s] = "none", Close(s) \/ ReadRequest(s)
    PROVE  inbox'[s] = Rest(s) /\ op'[s] # "write"
<1>1. Rest(s) \in Seq(SessionHandlers) /\ Aborted(s) = <<>>
  BY SessionOperatorTypes DEF Aborted
<1>2. Rest(s) \o Aborted(s) = Rest(s)
  BY <1>1
<1>3. Keeps(s) => inbox'[s] = Rest(s)
  BY DEF Keeps, Typed, SessionTypes
<1>4. Close(s) => inbox'[s] = Rest(s)
  BY <1>2, CloseOutcome
<1>5. op'[s] # "write"
  BY DEF Close, ReadRequest, Typed, SessionTypes
<1> QED BY <1>3, <1>4, <1>5 DEF ReadRequest

\* A handler that carries on the exchange finds no other in the way.
LEMMA WorkAlone ==
    ASSUME Typed, NEW s \in Session, OneThing(s), NEW h \in Work, Begins(s, h)
    PROVE  op[s] = "none" /\ s \notin accepted /\ inbox[s] # <<>>
<1>1. inbox[s] \in Seq(SessionHandlers) /\ inbox[s] # <<>> /\ inbox[s][1] \in Work
  BY DEF Begins, Typed, SessionTypes
<1>2. 1 \in WorkIn(s)
  BY <1>1 DEF WorkIn
<1> QED BY <1>1, <1>2 DEF OneThing

LEMMA SessionKeepsExchange ==
    ASSUME Typed, Typed', NEW s \in Session, OneThing(s), Answered(s), ConnectionStep(s)
    PROVE  OneThing(s)' /\ Answered(s)'
<1> USE DEF otherVars, ioVars, execVars
<1>1. \A h : Begins(s, h) => inbox[s] # <<>>
  BY DEF Begins
<1>2. Keeps(s) => inbox'[s] = Rest(s)
  BY DEF Keeps, Typed, SessionTypes
<1>3. CASE HandleStart(s)
  <2>1. "start" \in Work /\ Begins(s, "start")
    BY <1>3 DEF HandleStart, Work, SessionHandlers
  <2>2. inbox'[s] = Rest(s) /\ op'[s] # "write" /\ s \notin accepted
    BY <1>3, <2>1, WorkAlone, IdleCloseOutcome DEF HandleStart
  <2> QED BY <1>3, <2>1, <2>2, WorkHandled DEF HandleStart
<1>4. CASE HandleRead(s)
  <2>1. "readOk" \in Work /\ Begins(s, "readOk")
    BY <1>4 DEF HandleRead, Work, SessionHandlers
  <2>2. op[s] = "none" /\ sstate'[s] = "handling" /\ UNCHANGED <<op, cut, strandAt>>
    BY <1>4, <2>1, WorkAlone DEF HandleRead, Typed, SessionTypes
  <2> QED BY <1>2, <1>4, <2>1, <2>2, WorkHandled DEF HandleRead
<1>5. CASE HandleReadRefused(s)
  <2>1. "readOk" \in Work /\ Begins(s, "readOk")
    BY <1>5 DEF HandleReadRefused, Work, SessionHandlers
  <2>2. s \notin accepted /\ Keeps(s) /\ UNCHANGED <<strandAt, accepted, cut>>
    BY <1>5, <2>1, WorkAlone DEF HandleReadRefused
  <2>3. op'[s] = "write" => sstate'[s] = "writing"
    BY <1>5, <2>1, WorkAlone DEF HandleReadRefused, Typed, SessionTypes
  <2> QED BY <1>2, <2>1, <2>2, <2>3, WorkHandled
<1>6. CASE HandleReadBad(s)
  <2>1. "readBad" \in Work /\ Begins(s, "readBad")
    BY <1>6 DEF HandleReadBad, Work, SessionHandlers
  <2>2. s \notin accepted /\ Keeps(s) /\ UNCHANGED <<strandAt, accepted, cut>>
    BY <1>6, <2>1, WorkAlone DEF HandleReadBad
  <2>3. op'[s] = "write" => sstate'[s] = "writing"
    BY <1>6, <2>1, WorkAlone DEF HandleReadBad, WriteResponse, Typed, SessionTypes
  <2> QED BY <1>2, <2>1, <2>2, <2>3, WorkHandled
<1>7. CASE HandleReadError(s)
  <2>1. "readError" \in Work /\ Begins(s, "readError")
    BY <1>7 DEF HandleReadError, Work, SessionHandlers
  <2>2. s \notin accepted /\ UNCHANGED <<strandAt, accepted>> /\ (s \in cut => s \in cut')
    BY <1>7, <2>1, WorkAlone DEF HandleReadError
  <2>3. inbox'[s] = Rest(s) /\ op'[s] # "write"
    BY <1>7, <2>1, WorkAlone, IdleCloseOutcome DEF HandleReadError
  <2> QED BY <2>1, <2>2, <2>3, WorkHandled
<1>8. CASE HandleResponse(s)
  <2>1. "response" \in Work /\ Begins(s, "response")
    BY <1>8 DEF HandleResponse, Work, SessionHandlers
  <2>2. s \notin accepted /\ Keeps(s) /\ UNCHANGED <<strandAt, accepted, cut>>
    BY <1>8, <2>1, WorkAlone DEF HandleResponse
  <2>3. op'[s] = "write" => sstate'[s] = "writing"
    BY <1>8, <2>1, WorkAlone DEF HandleResponse, WriteResponse, Typed, SessionTypes
  <2> QED BY <1>2, <2>1, <2>2, <2>3, WorkHandled
<1>9. CASE HandleWrite(s)
  <2>1. "writeOk" \in Work /\ Begins(s, "writeOk")
    BY <1>9 DEF HandleWrite, Work, SessionHandlers
  <2>2. s \notin accepted /\ UNCHANGED <<strandAt, accepted, cut>> /\ (Close(s) \/ ReadRequest(s))
    BY <1>9, <2>1, WorkAlone DEF HandleWrite
  <2>3. inbox'[s] = Rest(s) /\ op'[s] # "write"
    BY <2>1, <2>2, WorkAlone, IdleCloseOutcome
  <2> QED BY <2>1, <2>2, <2>3, WorkHandled
<1>10. CASE HandleWriteError(s)
  <2>1. "writeError" \in Work /\ Begins(s, "writeError")
    BY <1>10 DEF HandleWriteError, Work, SessionHandlers
  <2>2. s \notin accepted /\ UNCHANGED <<strandAt, accepted>> /\ (s \in cut => s \in cut')
    BY <1>10, <2>1, WorkAlone DEF HandleWriteError
  <2>3. inbox'[s] = Rest(s) /\ op'[s] # "write"
    BY <1>10, <2>1, WorkAlone, IdleCloseOutcome DEF HandleWriteError
  <2> QED BY <2>1, <2>2, <2>3, WorkHandled
<1>11. CASE HandleDrain(s)
  <2>1. Begins(s, "drain") /\ UNCHANGED <<strandAt, accepted, cut>>
    BY <1>11 DEF HandleDrain
  <2>2. CASE sstate[s] = "reading"
    BY <1>1, <1>11, <2>1, <2>2, CloseOutcome, OtherHandled DEF HandleDrain
  <2>3. CASE sstate[s] # "reading"
    BY <1>2, <1>11, <2>1, <2>3, OtherHandled DEF HandleDrain
  <2> QED BY <2>2, <2>3
<1>12. CASE HandleClose(s)
  <2>1. Begins(s, "close") /\ UNCHANGED <<strandAt, accepted, cut>> /\ Close(s)
    BY <1>12 DEF HandleClose
  <2> QED BY <1>1, <2>1, CloseOutcome, OtherHandled
<1>13. CASE RemoveSession(s)
  BY <1>13, SliceKeeps DEF RemoveSession
<1>14. CASE OpEnds(s)
  BY <1>14, OpEnded
<1>15. CASE ExecuteRequest(s)
  BY <1>15, RequestExecuted
<1> QED BY <1>3, <1>4, <1>5, <1>6, <1>7, <1>8, <1>9, <1>10, <1>11, <1>12, <1>13, <1>14, <1>15
        DEF ConnectionStep, SessionStep

\* A session does nothing to another.
LEMMA SessionLeavesOthers ==
    ASSUME Typed, NEW s \in Session, ConnectionStep(s), NEW u \in Session, u # s
    PROVE  /\ UNCHANGED <<sstate[u], op[u], inbox[u], leaving[u], strandAt>>
           /\ u \in accepted' => u \in accepted
           /\ u \in cut => u \in cut'
           /\ u \in sessions => u \in sessions'
<1> USE DEF ConnectionStep, SessionStep, HandleStart, HandleRead, HandleReadRefused,
        HandleReadBad, HandleReadError, HandleResponse, HandleWrite, HandleWriteError, HandleDrain,
        HandleClose, RemoveSession, OpEnds, ReadEnds, WriteEnds, ExecuteRequest, otherVars, ioVars,
        execVars, Close, ReadRequest, WriteResponse, Keeps
<1>1. UNCHANGED sstate[u] /\ UNCHANGED op[u]
  BY DEF Typed, SessionTypes
<1>2. UNCHANGED inbox[u]
  BY DEF Typed, SessionTypes
<1>3. UNCHANGED leaving[u]
  BY DEF Typed, SessionTypes
<1>4. UNCHANGED strandAt
  OBVIOUS
<1>5. u \in accepted' => u \in accepted
  OBVIOUS
<1>6. u \in cut => u \in cut'
  OBVIOUS
<1>7. u \in sessions => u \in sessions'
  OBVIOUS
<1> QED BY <1>1, <1>2, <1>3, <1>4, <1>5, <1>6, <1>7

\* Calls leave the sessions alone, and only empty the executor.
LEMMA CallLeavesSessions ==
    ASSUME NEW t \in Thread, CallStep(t)
    PROVE  /\ UNCHANGED <<sessionVars, strandAt>>
           /\ accepted' \subseteq accepted
           /\ sessions' \subseteq sessions
<1> USE DEF CallStep, ThreadStep, Start, StartFails, StartFailEnd, StopIdle, StopBegin, StopExec,
        StopPost, WaitBegin, WaitExec, WaitDrain, WaitPost, WaitIo, WaitEnd, ioVars, execVars
<1>1. UNCHANGED sessionVars
  OBVIOUS
<1>2. UNCHANGED strandAt
  OBVIOUS
<1>3. accepted' \subseteq accepted
  OBVIOUS
<1>4. sessions' \subseteq sessions
  OBVIOUS
<1> QED BY <1>1, <1>2, <1>3, <1>4

\* So do the I/O threads themselves.
LEMMA IoLeavesSessions ==
    ASSUME IoStep \/ WorkerCounts
    PROVE  UNCHANGED <<sessionVars, strandAt, accepted, sessions>>
  BY DEF IoStep, IoExit, IoThrows, ClientConnects, AcceptFails, GraceEnds, WorkerCounts, execVars,
     otherVars, ioVars

\* The acceptor's strand gives a session its slot, its first handler, the news of the stop
\* or the order to close.
LEMMA StrandKeepsExchange ==
    ASSUME Typed, Typed', SessionInv, StrandStep, NEW s \in Session
    PROVE  OneThing(s)' /\ Answered(s)'
<1> USE DEF execVars
<1>1. OneThing(s) /\ Answered(s) /\ inbox[s] \in Seq(SessionHandlers)
  BY DEF SessionInv, Typed, SessionTypes
<1>2. <<"rearm">> # <<"register", s>> /\ <<"free">> # <<"register", s>>
      /\ <<"drain">> # <<"register", s>> /\ <<"try">> # <<"register", s>>
  OBVIOUS
<1>3. CASE /\ HandleAcceptError \/ Rearm \/ StopOnIoContext \/ HandleTry \/ TryCompleteStop
  <2>1. UNCHANGED <<sessionVars, accepted>>
    BY <1>3 DEF HandleAcceptError, Rearm, StopOnIoContext, HandleTry, TryCompleteStop
  <2>2. strandAt' # <<"register", s>>
    BY <1>2, <1>3 DEF HandleAcceptError, Rearm, StopOnIoContext, HandleTry, TryCompleteStop
  <2> QED BY <1>1, <2>1, <2>2, SliceKeeps DEF sessionVars
<1>4. CASE HandleAccept /\ stopFlag
  <2>1. UNCHANGED <<sessionVars, accepted>> /\ strandAt' = <<"rearm">>
    BY <1>4 DEF HandleAccept
  <2> QED BY <1>1, <1>2, <2>1, SliceKeeps DEF sessionVars
<1>5. CASE HandleAccept /\ ~stopFlag
  <2>1. PICK u \in Session :
          /\ FreeSlot(u)
          /\ strandAt' = <<"register", u>>
          /\ sstate' = [sstate EXCEPT ![u] = "reading"]
          /\ cut' = cut \ {u}
    BY <1>5 DEF HandleAccept
  <2>2. UNCHANGED <<op, inbox, accepted>>
    BY <1>5 DEF HandleAccept
  <2>3. CASE s # u
    <3>1. strandAt' # <<"register", s>>
      BY <2>1, <2>3
    <3>2. UNCHANGED sstate[s]
      BY <2>1, <2>3 DEF Typed, SessionTypes
    <3> QED BY <1>1, <2>1, <2>2, <2>3, <3>1, <3>2, SliceKeeps
  <2>4. CASE s = u
    <3>1. inbox'[s] = <<>> /\ op'[s] = "none" /\ s \notin accepted'
      BY <2>1, <2>2, <2>4 DEF FreeSlot
    <3>2. WorkIn(s)' = {}
      BY <3>1 DEF WorkIn
    <3>3. ToSet(inbox'[s]) = {}
      BY <3>1, EmptyFacts
    <3>4. OneThing(s)'
      BY <3>1, <3>2 DEF OneThing
    <3>5. Answered(s)'
      BY <3>1, <3>3 DEF Answered, HasResponse, IsWriting
    <3> QED BY <3>4, <3>5
  <2> QED BY <2>3, <2>4
<1>6. ASSUME NEW u \in Session, RegisterSession(u) PROVE OneThing(s)' /\ Answered(s)'
  <2>1. strandAt = <<"register", u>> /\ strandAt' = <<"rearm">>
        /\ UNCHANGED <<sstate, op, accepted>>
    BY <1>6 DEF RegisterSession, At
  <2>2. CASE s # u
    <3>1. UNCHANGED inbox[s] /\ (s \in cut => s \in cut')
      BY <1>6, <2>2 DEF RegisterSession, Typed, SessionTypes
    <3> QED BY <1>1, <1>2, <2>1, <3>1, SliceKeeps
  <2>3. CASE s = u
    <3>1. op[s] = "none" /\ s \notin accepted /\ inbox[s] = <<>>
      BY <1>1, <2>1, <2>3 DEF OneThing
    <3>2. PICK h \in {"start", "close"} :
            inbox'[s] = Append(inbox[s], h) /\ (h = "close" => s \in cut')
      BY <1>6, <2>3 DEF RegisterSession, Typed, SessionTypes
    <3>3. \A i, j \in WorkIn(s)' : i = j
      BY <1>1, <3>1, <3>2, WorkEmpty, WorkAppend DEF SessionHandlers
    <3>4. ToSet(inbox'[s]) = {h}
      <4>1. ToSet(inbox'[s]) = ToSet(inbox[s]) \cup {h}
        BY <1>1, <3>2, AppendFacts DEF SessionHandlers
      <4>2. ToSet(inbox[s]) = {}
        BY <3>1, EmptyFacts
      <4> QED BY <4>1, <4>2
    <3>5. OneThing(s)'
      BY <1>2, <2>1, <3>1, <3>3 DEF OneThing
    <3>6. Answered(s)'
      BY <2>1, <3>1, <3>2, <3>4 DEF Answered, HasResponse, IsWriting
    <3> QED BY <3>5, <3>6
  <2> QED BY <2>2, <2>3
<1>7. ASSUME NEW h \in {"drain", "close"}, inbox'[s] = Append(inbox[s], h),
             h = "close" => s \in cut', s \in cut => s \in cut', strandAt' = <<"try">>,
             strandAt = <<"free">> \/ strandAt = <<"drain">>,
             UNCHANGED <<sstate, op, accepted>>
      PROVE  OneThing(s)' /\ Answered(s)'
  <2>1. h \in SessionHandlers /\ h \notin Work
    BY DEF Work, SessionHandlers
  <2>2. WorkIn(s)' = WorkIn(s)
    BY <1>1, <1>7, <2>1, WorkAppend
  <2>3. ToSet(inbox'[s]) = ToSet(inbox[s]) \cup {h}
    BY <1>1, <1>7, <2>1, AppendFacts
  <2>4. OneThing(s)'
    BY <1>1, <1>2, <1>7, <2>2 DEF OneThing
  <2>5. Answered(s)'
    BY <1>1, <1>7, <2>3 DEF Answered, HasResponse, IsWriting
  <2> QED BY <2>4, <2>5
<1>8. CASE DrainSessions
  <2>1. strandAt = <<"drain">> /\ strandAt' = <<"try">> /\ UNCHANGED <<sstate, op, accepted, cut>>
    BY <1>8 DEF DrainSessions, At
  <2>2. CASE s \in sessions
    <3>1. inbox'[s] = Append(inbox[s], "drain")
      BY <1>8, <2>2 DEF DrainSessions
    <3> QED BY <1>7, <2>1, <3>1
  <2>3. CASE s \notin sessions
    <3>1. inbox'[s] = inbox[s]
      BY <1>8, <2>3 DEF DrainSessions
    <3> QED BY <1>1, <1>2, <2>1, <3>1, SliceKeeps
  <2> QED BY <2>2, <2>3
<1>9. CASE HandleShutdownDeadline
  <2>1. strandAt = <<"free">> /\ strandAt' = <<"try">> /\ UNCHANGED <<sstate, op, accepted>>
        /\ cut' = cut \cup sessions
    BY <1>9 DEF HandleShutdownDeadline, Take
  <2>2. CASE s \in sessions
    <3>1. inbox'[s] = Append(inbox[s], "close")
      BY <1>9, <2>2 DEF HandleShutdownDeadline
    <3> QED BY <1>7, <2>1, <2>2, <3>1
  <2>3. CASE s \notin sessions
    <3>1. inbox'[s] = inbox[s]
      BY <1>9, <2>3 DEF HandleShutdownDeadline
    <3> QED BY <1>1, <1>2, <2>1, <3>1, SliceKeeps
  <2> QED BY <2>2, <2>3
<1> QED BY <1>3, <1>4, <1>5, <1>6, <1>8, <1>9 DEF StrandStep

LEMMA InitHasNoExchange == Init => SessionInv
<1> SUFFICES ASSUME Init, NEW s \in Session PROVE OneThing(s) /\ Answered(s)
  BY DEF SessionInv
<1>1. inbox[s] = <<>> /\ op[s] = "none" /\ s \notin accepted /\ strandAt # <<"register", s>>
  BY DEF Init
<1>2. WorkIn(s) = {} /\ ToSet(inbox[s]) = {}
  BY <1>1, WorkEmpty, EmptyFacts
<1> QED BY <1>1, <1>2 DEF OneThing, Answered, HasResponse, IsWriting

LEMMA StepKeepsSessions ==
    ASSUME Typed, Typed', SessionInv, [Next]_vars
    PROVE  SessionInv'
<1> SUFFICES ASSUME NEW s \in Session PROVE OneThing(s)' /\ Answered(s)'
  BY DEF SessionInv
<1>1. OneThing(s) /\ Answered(s)
  BY DEF SessionInv
<1>2. ASSUME UNCHANGED <<sessionVars, strandAt>>, accepted' \subseteq accepted
      PROVE  OneThing(s)' /\ Answered(s)'
  BY <1>1, <1>2, SliceKeeps DEF sessionVars
<1>3. CASE UNCHANGED vars
  BY <1>2, <1>3 DEF vars, ioVars, execVars
<1>4. ASSUME NEW t \in Thread, CallStep(t) PROVE OneThing(s)' /\ Answered(s)'
  BY <1>2, <1>4, CallLeavesSessions
<1>5. CASE IoStep \/ WorkerCounts
  BY <1>2, <1>5, IoLeavesSessions
<1>6. CASE StrandStep
  BY <1>6, StrandKeepsExchange
<1>7. ASSUME NEW u \in Session, ConnectionStep(u) PROVE OneThing(s)' /\ Answered(s)'
  <2>1. CASE u = s
    BY <1>1, <1>7, <2>1, SessionKeepsExchange
  <2>2. CASE u # s
    BY <1>1, <1>7, <2>2, SessionLeavesOthers, SliceKeeps
  <2> QED BY <2>1, <2>2
<1> QED BY <1>3, <1>4, <1>5, <1>6, <1>7, NextSteps

-----------------------------------------------------------------------------
(* When no handler throws, the I/O threads leave an empty server *)

LEMMA InitIsDone == Init => IoInv
  BY DEF Init, IoInv, IoIsDone

\* Nothing but a call runs when the I/O threads are gone.
LEMMA RunsWhileUp ==
    ASSUME IoInv, NEW s \in Session, IoStep \/ StrandStep \/ ConnectionStep(s)
    PROVE  ioUp
<1>1. CASE IoStep
  BY <1>1 DEF IoStep, IoExit, IoThrows, ClientConnects, AcceptFails, GraceEnds, Runs
<1>2. CASE StrandStep
  BY <1>2 DEF StrandStep, HandleAccept, HandleAcceptError, Rearm, StopOnIoContext, DrainSessions,
     HandleShutdownDeadline, HandleTry, TryCompleteStop, RegisterSession, Take, At, Runs
<1>3. CASE ConnectionStep(s)
  BY <1>3 DEF ConnectionStep, SessionStep, HandleStart, HandleRead, HandleReadRefused,
     HandleReadBad, HandleReadError, HandleResponse, HandleWrite, HandleWriteError, HandleDrain,
     HandleClose, RemoveSession, OpEnds, ReadEnds, WriteEnds, ExecuteRequest, Begins, Runs, IoInv,
     IoIsDone
<1> QED BY <1>1, <1>2, <1>3 DEF IoStep

\* The calls start the I/O threads, and touch them when they are gone only.
LEMMA CallsKeepIo ==
    ASSUME Typed, ServerInv, IoInv, NEW t \in Thread, CallStep(t)
    PROVE  IoInv'
<1> USE DEF execVars, ioVars, lifeVars
<1>1. UNCHANGED <<sessionVars, strandAt>> /\ accepted' \subseteq accepted
  BY CallLeavesSessions
<1>2. CASE Start(t)
  BY <1>2 DEF Start, IoInv
<1>3. CASE StartFails(t)
  <2>1. ~ioUp
    BY <1>3 DEF StartFails, MayStart, ServerInv, OneJoins
  <2>2. UNCHANGED <<ioUp, accepts, timer>>
    BY <1>3 DEF StartFails
  <2> QED BY <1>1, <2>1, <2>2 DEF IoInv, IoIsDone, sessionVars
<1>4. CASE StartFailEnd(t)
  <2>1. UNCHANGED <<ioUp, ioStopped, guard, completed, timer>> /\ accepts' = 0
    BY <1>4 DEF StartFailEnd, CloseAcceptor
  <2> QED BY <1>1, <2>1 DEF IoInv, IoIsDone, sessionVars
<1>5. CASE WaitEnd(t)
  <2>1. pc[t].at = "waitEnd"
    BY <1>5 DEF WaitEnd
  <2>2. ~ioUp
    BY <2>1 DEF ServerInv, OneJoins
  <2>3. UNCHANGED <<ioUp, timer>> /\ accepts' = 0
    BY <1>5 DEF WaitEnd, CloseAcceptor
  <2> QED BY <1>1, <2>2, <2>3 DEF IoInv, IoIsDone, sessionVars
<1>6. CASE \/ StopIdle(t) \/ StopExec(t) \/ StopPost(t) \/ WaitBegin(t) \/ WaitExec(t)
           \/ WaitDrain(t) \/ WaitPost(t) \/ WaitIo(t) \/ \E wait \in BOOLEAN : StopBegin(t, wait)
  <2>1. UNCHANGED <<ioUp, ioStopped, guard, completed, timer, accepts>>
    BY <1>6 DEF StopIdle, StopExec, StopPost, WaitBegin, WaitExec, WaitDrain, WaitPost, WaitIo,
       StopBegin
  <2> QED BY <1>1, <2>1 DEF IoInv, IoIsDone, sessionVars
<1> QED BY <1>2, <1>3, <1>4, <1>5, <1>6 DEF CallStep, ThreadStep

\* Out of work means that the stop is complete, so that no task is left to post a response.
LEMMA IoExitIsDone ==
    ASSUME Typed, ServerInv, IoInv, IoExit
    PROVE  IoIsDone'
<1>1. ~HasWork /\ ioUp
  BY DEF IoExit, IoInv
<1>2. ~guard
  BY <1>1 DEF HasWork
<1>3. accepted = {}
  BY <1>1, <1>2 DEF IoInv, ServerInv, DrainedStays
<1>4. accepts = 0 /\ ~timer /\ strandAt = <<"free">>
  BY <1>1 DEF HasWork, Typed, CountTypes
<1>5. \A s \in Session : inbox[s] = <<>> /\ op[s] = "none" /\ leaving[s] = "no"
  BY <1>1 DEF HasWork
<1>6. UNCHANGED <<accepts, timer, strandAt, accepted, inbox, op, leaving>>
  BY DEF IoExit, execVars, sessionVars
<1> QED BY <1>3, <1>4, <1>5, <1>6 DEF IoIsDone

LEMMA StepKeepsIo ==
    ASSUME ~IoMayThrow, Typed, ServerInv, IoInv, [Next]_vars
    PROVE  IoInv'
<1> USE DEF execVars, ioVars, lifeVars
<1>1. CASE UNCHANGED vars
  BY <1>1 DEF vars, sessionVars, IoInv, IoIsDone
<1>2. ASSUME ioUp, ioUp', UNCHANGED ioStopped, UNCHANGED <<guard, completed>> \/ completed'
      PROVE  IoInv'
  BY <1>2 DEF IoInv
<1>3. ASSUME NEW t \in Thread, CallStep(t) PROVE IoInv'
  BY <1>3, CallsKeepIo
<1>4. CASE IoExit
  <2>1. ~ioUp'
    BY <1>4 DEF IoExit
  <2> QED BY <1>4, <2>1, IoExitIsDone DEF IoInv
<1>5. CASE ClientConnects \/ AcceptFails \/ GraceEnds
  BY <1>2, <1>5 DEF ClientConnects, AcceptFails, GraceEnds, Runs
<1>6. CASE StrandStep
  <2>1. ioUp /\ UNCHANGED <<ioUp, ioStopped>>
    BY <1>6 DEF StrandStep, HandleAccept, HandleAcceptError, Rearm, StopOnIoContext, DrainSessions,
       HandleShutdownDeadline, HandleTry, TryCompleteStop, RegisterSession, Take, At, Runs
  <2>2. UNCHANGED <<guard, completed>> \/ completed'
    BY <1>6 DEF StrandStep, HandleAccept, HandleAcceptError, Rearm, StopOnIoContext, DrainSessions,
       HandleShutdownDeadline, HandleTry, TryCompleteStop, RegisterSession
  <2> QED BY <1>2, <2>1, <2>2
<1>7. ASSUME NEW s \in Session, ConnectionStep(s) PROVE IoInv'
  <2>1. UNCHANGED <<ioUp, ioStopped, guard, completed>>
    BY <1>7, SessionStepEffect DEF ConnectionStep, SessionEffect, otherVars
  <2> QED BY <1>2, <1>7, <2>1, RunsWhileUp
<1>8. CASE WorkerCounts
  BY <1>8 DEF WorkerCounts, otherVars, sessionVars, IoInv, IoIsDone
<1>9. ~IoThrows
  BY DEF IoThrows
<1> QED BY <1>1, <1>3, <1>4, <1>5, <1>6, <1>7, <1>8, <1>9, NextSteps DEF IoStep

\* As long as no handler throws, no request that the executor has accepted is lost and no write
\* is aborted, however the callers of Start, RequestStop and Wait overlap: its session is closed
\* and the I/O threads leave after the handler of the write, or the connection was cut.
THEOREM RequestsAreAnswered ==
    ASSUME ~IoMayThrow
    PROVE  Spec => []AcceptedIsAnswered
<1> DEFINE Inv == Typed /\ ServerInv /\ SessionInv /\ IoInv
<1>1. Init => Inv
  BY InitIsTyped, InitIsJoined, InitHasNoExchange, InitIsDone
<1>2. Inv /\ [Next]_vars => Inv'
  BY StepKeepsTypes, StepKeepsServer, StepKeepsSessions, StepKeepsIo
<1>3. Inv => AcceptedIsAnswered
  <2> SUFFICES ASSUME Inv, NEW s \in Session,
                      s \in accepted \/ HasResponse(s) \/ IsWriting(s),
                      sstate[s] = "closed" \/ ~ioUp
               PROVE  s \in cut
    BY DEF AcceptedIsAnswered
  <2>1. CASE ~ioUp
    BY <2>1, EmptyFacts DEF IoInv, IoIsDone, HasResponse, IsWriting
  <2>2. CASE sstate[s] = "closed"
    BY <2>2 DEF SessionInv, Answered
  <2> QED BY <2>1, <2>2
<1> QED BY <1>1, <1>2, <1>3, PTL DEF Spec

-----------------------------------------------------------------------------
(* When callers do not overlap, every call finds the server in a state that fits it *)

LEMMA InitCalls == Init => CallsInv
<1> SUFFICES ASSUME Init PROVE CallsInv
  OBVIOUS
<1>1. \A t \in Thread : pc[t].at = "idle" /\ pc[t].post = FALSE
  BY DEF Init, Idle
<1>2. CallsFitState
  BY <1>1 DEF Init, CallsFitState
<1>3. PosterIsFirst
  BY <1>1 DEF PosterIsFirst
<1> QED BY <1>2, <1>3 DEF CallsInv, Init

\* A thread on its way through Wait: the server is stopping, and nobody is still to schedule
\* StopOnIoContext.
LEMMA InWaitFacts ==
    ASSUME Typed, ServerInv, CallsInv, NEW t \in Thread, InWait(t)
    PROVE  /\ state = "stopping" /\ stopFlag /\ waiting /\ ~ioOwned
           /\ \A u \in Thread : ~pc[u].post /\ pc[u].at \notin {"stopPost", "startFails"}
           /\ \A u \in Thread : u # t => pc[u].at \in {"idle", "stopExec", "waitBegin"}
<1>1. state = "stopping"
  BY DEF InWait, WaitPcs, CallsInv, CallsFitState, Typed, CountTypes
<1>2. waiting /\ ~ioOwned /\ stopFlag
  BY <1>1 DEF ServerInv, OneJoins, CallsInv, CallsFitState
<1>3. \A u \in Thread : ~pc[u].post /\ pc[u].at \notin {"stopPost", "startFails"}
  BY <1>1, <1>2 DEF CallsInv, CallsFitState, PosterIsFirst
<1>4. ASSUME NEW u \in Thread, u # t PROVE pc[u].at \in {"idle", "stopExec", "waitBegin"}
  <2>1. ~InWait(u)
    BY <1>4 DEF ServerInv, OneJoins
  <2> QED BY <1>3, <2>1 DEF InWait, WaitPcs, Typed, CallTypes, CallRecords, ThreadPcs
<1> QED BY <1>1, <1>2, <1>3, <1>4

\* Start succeeds or fails, with nobody else in a call.
LEMMA StartKeepsCalls ==
    ASSUME ~CallsOverlap, Typed, ServerInv, CallsInv, NEW t \in Thread,
           Start(t) \/ StartFails(t) \/ StartFailEnd(t)
    PROVE  CallsInv'
<1>1. CASE Start(t)
  <2>1. (\A u \in Thread : pc[u].at = "idle") /\ UNCHANGED pc
    BY <1>1 DEF Start, MayStart
  <2>2. state' = "running" /\ ioOwned' = TRUE /\ stopFlag' = FALSE /\ drained' = FALSE
        /\ completed' = FALSE
    BY <1>1 DEF Start
  <2>3. \A u \in Thread : ~pc[u].post
    BY <2>1 DEF CallsInv, PosterIsFirst
  <2>4. CallsFitState'
    BY <2>1, <2>2 DEF CallsFitState
  <2>5. PosterIsFirst'
    BY <2>1, <2>3 DEF PosterIsFirst
  <2> QED BY <2>2, <2>4, <2>5 DEF CallsInv
<1>2. CASE StartFails(t)
  <2>1. (\A u \in Thread : pc[u].at = "idle") /\ Moves(t, "idle", {"startFails"})
    BY <1>2, CallMoves DEF StartFails, MayStart
  <2>2. state' = "starting" /\ completed' = FALSE /\ ~ioOwned' /\ ~waiting'
    BY <1>2 DEF StartFails, MayStart
  <2>3. \A u \in Thread : ~pc[u].post
    BY <2>1 DEF CallsInv, PosterIsFirst
  <2>4. pc'[t].at = "startFails" /\ \A u \in Thread : u # t => pc'[u].at = "idle"
    BY <2>1 DEF Moves
  <2>5. CallsFitState'
    BY <2>2, <2>4 DEF CallsFitState
  <2>6. PosterIsFirst'
    BY <2>1, <2>3, <2>4 DEF PosterIsFirst, Moves
  <2> QED BY <2>2, <2>5, <2>6 DEF CallsInv
<1>3. CASE StartFailEnd(t)
  <2>1. Moves(t, "startFails", {"idle"})
    BY <1>3, CallMoves
  <2>2. state = "starting" /\ \A u \in Thread : u # t => pc[u].at = "idle"
    BY <2>1 DEF Moves, CallsInv, CallsFitState
  <2>3. ~ioOwned /\ ~waiting
    BY <2>2 DEF CallsInv, CallsFitState
  <2>4. state' = "stopped" /\ UNCHANGED <<ioOwned, waiting, completed, sessions>>
    BY <1>3 DEF StartFailEnd
  <2>5. \A u \in Thread : pc'[u].at = "idle"
    BY <2>1, <2>2 DEF Moves
  <2>6. \A u \in Thread : ~pc'[u].post
    BY <2>1, <2>2 DEF Moves, CallsInv, PosterIsFirst
  <2>7. CallsFitState'
    BY <2>3, <2>4, <2>5 DEF CallsFitState
  <2>8. PosterIsFirst'
    BY <2>5, <2>6 DEF PosterIsFirst
  <2> QED BY <2>4, <2>7, <2>8 DEF CallsInv
<1> QED BY <1>1, <1>2, <1>3

\* RequestStop: the first one schedules, the others only stop the executor.
LEMMA StopKeepsCalls ==
    ASSUME ~CallsOverlap, Typed, ServerInv, CallsInv, NEW t \in Thread,
           \/ StopIdle(t) \/ StopExec(t) \/ StopPost(t)
           \/ \E wait \in BOOLEAN : StopBegin(t, wait)
    PROVE  CallsInv'
<1> USE DEF lifeVars
<1>1. CASE StopIdle(t)
  <2>1. Moves(t, "idle", {"waitBegin"}) /\ state = "stopped"
        /\ UNCHANGED <<state, stopFlag, ioOwned, waiting, drained, completed, sessions>>
    BY <1>1, CallMoves DEF StopIdle
  <2>2. CallsFitState'
    BY <2>1 DEF Moves, CallsInv, CallsFitState
  <2>3. PosterIsFirst'
    BY <2>1 DEF Moves, CallsInv, PosterIsFirst
  <2> QED BY <2>1, <2>2, <2>3 DEF CallsInv
<1>2. ASSUME NEW wait \in BOOLEAN, StopBegin(t, wait) PROVE CallsInv'
  <2>1. state \in {"running", "stopping"} /\ state' = "stopping" /\ stopFlag'
    BY <1>2 DEF StopBegin, Typed, CountTypes
  <2>2. UNCHANGED <<ioOwned, waiting, drained, completed, sessions>>
    BY <1>2 DEF StopBegin
  <2>3. /\ pc[t].at = "idle" /\ pc'[t].at = "stopExec" /\ (pc'[t].post <=> state # "stopping")
        /\ \A u \in Thread : u # t => pc'[u] = pc[u]
    BY <1>2, StopBeginMoves
  <2>4. CallsFitState'
    BY <2>1, <2>2, <2>3 DEF CallsInv, CallsFitState
  <2>5. PosterIsFirst'
    BY <2>1, <2>2, <2>3 DEF CallsInv, CallsFitState, PosterIsFirst
  <2> QED BY <2>2, <2>4, <2>5 DEF CallsInv
<1>3. CASE StopExec(t)
  <2>1. UNCHANGED <<state, stopFlag, ioOwned, waiting, drained, completed, sessions>>
    BY <1>3 DEF StopExec
  <2>2. /\ pc[t].post => Moves(t, "stopExec", {"stopPost"})
        /\ ~pc[t].post => Moves(t, "stopExec", {"idle", "waitBegin"})
    BY <1>3, CallMoves
  <2>3. pc[t].at = "stopExec"
    BY <1>3 DEF StopExec
  <2>4. state \in {"stopping", "stopped"}
    BY <2>3 DEF CallsInv, CallsFitState, Typed, CountTypes
  <2>5. CASE pc[t].post
    <3>1. Moves(t, "stopExec", {"stopPost"}) /\ state = "stopping"
      BY <2>2, <2>5 DEF CallsInv, PosterIsFirst
    <3>2. CallsFitState'
      BY <2>1, <3>1 DEF Moves, CallsInv, CallsFitState
    <3>3. pc'[t].post
      BY <1>3, <2>5 DEF StopExec, Goto, Typed, CallTypes, CallRecords
    <3>4. PosterIsFirst'
      BY <2>1, <2>5, <3>1, <3>3 DEF Moves, CallsInv, PosterIsFirst
    <3> QED BY <2>1, <3>2, <3>4 DEF CallsInv
  <2>6. CASE ~pc[t].post
    <3>1. Moves(t, "stopExec", {"idle", "waitBegin"})
      BY <2>2, <2>6
    <3>2. CallsFitState'
      BY <2>1, <2>4, <3>1 DEF Moves, CallsInv, CallsFitState
    <3>3. PosterIsFirst'
      BY <2>1, <2>6, <3>1 DEF Moves, CallsInv, PosterIsFirst
    <3> QED BY <2>1, <3>2, <3>3 DEF CallsInv
  <2> QED BY <2>5, <2>6
<1>4. CASE StopPost(t)
  <2>1. UNCHANGED <<state, stopFlag, ioOwned, waiting, drained, completed, sessions>>
    BY <1>4 DEF StopPost
  <2>2. Moves(t, "stopPost", {"idle", "waitBegin"}) /\ pc'[t].post = FALSE
    BY <1>4, CallMoves
  <2>3. state = "stopping"
    BY <2>2 DEF Moves, CallsInv, PosterIsFirst
  <2>4. CallsFitState'
    BY <2>1, <2>2, <2>3 DEF Moves, CallsInv, CallsFitState
  <2>5. PosterIsFirst'
    BY <2>1, <2>2 DEF Moves, CallsInv, PosterIsFirst
  <2> QED BY <2>1, <2>4, <2>5 DEF CallsInv
<1> QED BY <1>1, <1>2, <1>3, <1>4

\* Wait: it begins after the stop is scheduled, and is alone until it returns.
LEMMA WaitKeepsCalls ==
    ASSUME ~CallsOverlap, Typed, ServerInv, CallsInv, NEW t \in Thread,
           \/ WaitBegin(t) \/ WaitExec(t) \/ WaitDrain(t) \/ WaitPost(t) \/ WaitIo(t) \/ WaitEnd(t)
    PROVE  CallsInv'
<1> USE DEF lifeVars
<1>1. CASE WaitBegin(t)
  <2>1. pc[t].at = "waitBegin" /\ \A u \in Thread : ~pc[u].post
    BY <1>1 DEF WaitBegin, StopScheduled
  <2>2. UNCHANGED <<state, stopFlag, drained, completed, sessions>>
    BY <1>1 DEF WaitBegin
  <2>3. state \in {"stopping", "stopped"}
    BY <2>1 DEF CallsInv, CallsFitState, Typed, CountTypes
  <2>4. CASE ioOwned
    <3>1. Moves(t, "waitBegin", {"waitExec"}) /\ waiting' = TRUE /\ ioOwned' = FALSE
      BY <1>1, <2>4, CallMoves DEF WaitBegin
    <3>2. state = "stopping"
      BY <2>3, <2>4 DEF CallsInv, CallsFitState
    <3>3. CallsFitState'
      BY <2>2, <3>1, <3>2 DEF Moves, CallsInv, CallsFitState
    <3>4. PosterIsFirst'
      BY <2>1, <3>1 DEF Moves, CallsInv, PosterIsFirst
    <3> QED BY <2>2, <3>3, <3>4 DEF CallsInv
  <2>5. CASE ~ioOwned
    <3>1. Moves(t, "waitBegin", {"idle"}) /\ UNCHANGED <<waiting, ioOwned>>
      BY <1>1, <2>5, CallMoves DEF WaitBegin
    <3>2. CallsFitState'
      BY <2>2, <2>3, <3>1 DEF Moves, CallsInv, CallsFitState
    <3>3. PosterIsFirst'
      BY <2>1, <3>1 DEF Moves, CallsInv, PosterIsFirst
    <3> QED BY <2>2, <3>2, <3>3 DEF CallsInv
  <2> QED BY <2>4, <2>5
<1>2. ASSUME NEW from \in WaitPcs, NEW to, to \subseteq WaitPcs, Moves(t, from, to),
             UNCHANGED <<state, stopFlag, ioOwned, waiting, completed>>,
             sessions' \subseteq sessions
      PROVE  CallsInv'
  <2>1. InWait(t)
    BY <1>2 DEF InWait, Moves
  <2>2. \A u \in Thread : ~pc'[u].post /\ pc'[u].at \notin {"stopPost", "startFails"}
    BY <1>2, <2>1, InWaitFacts DEF Moves, WaitPcs
  <2>3. CallsFitState'
    BY <1>2, <2>1, <2>2, InWaitFacts DEF CallsInv, CallsFitState
  <2>4. PosterIsFirst'
    BY <2>2 DEF PosterIsFirst
  <2> QED BY <1>2, <2>3, <2>4 DEF CallsInv
<1>3. CASE WaitExec(t)
  BY <1>2, <1>3, CallMoves DEF WaitExec, WaitPcs
<1>4. CASE WaitDrain(t)
  BY <1>2, <1>4, CallMoves DEF WaitDrain, WaitPcs
<1>5. CASE WaitPost(t)
  BY <1>2, <1>5, CallMoves DEF WaitPost, WaitPcs
<1>6. CASE WaitIo(t)
  BY <1>2, <1>6, CallMoves DEF WaitIo, WaitPcs
<1>7. CASE WaitEnd(t)
  <2>1. Moves(t, "waitEnd", {"idle"}) /\ InWait(t)
    BY <1>7, CallMoves DEF Moves, InWait, WaitPcs
  <2>2. state' = "stopped" /\ waiting' = FALSE /\ UNCHANGED <<ioOwned, completed, sessions>>
    BY <1>7 DEF WaitEnd
  <2>3. \A u \in Thread : pc'[u].at \in {"idle", "stopExec", "waitBegin"} /\ ~pc'[u].post
    BY <2>1, InWaitFacts DEF Moves
  <2>4. ~ioOwned'
    BY <2>1, <2>2, InWaitFacts
  <2>5. CallsFitState'
    BY <2>2, <2>3, <2>4 DEF CallsFitState
  <2>6. PosterIsFirst'
    BY <2>3 DEF PosterIsFirst
  <2> QED BY <2>2, <2>5, <2>6 DEF CallsInv
<1> QED BY <1>1, <1>3, <1>4, <1>5, <1>6, <1>7

\* While the I/O threads run, the server runs or stops.
LEMMA UpMeansRunning ==
    ASSUME Typed, ServerInv, CallsInv, ioUp
    PROVE  state = "running" \/ (state = "stopping" /\ stopFlag)
  BY DEF Typed, CountTypes, ServerInv, OneJoins, CallsInv, CallsFitState

LEMMA StepKeepsCalls ==
    ASSUME ~CallsOverlap, Typed, ServerInv, CallsInv, [Next]_vars
    PROVE  CallsInv'
<1> USE DEF lifeVars, ioVars
<1>1. ASSUME UNCHANGED <<state, stopFlag, ioOwned, waiting, drained, pc>>,
             completed' => sessions' = {}
      PROVE  CallsInv'
  <2>1. CallsFitState'
    BY <1>1 DEF CallsInv, CallsFitState
  <2>2. PosterIsFirst'
    BY <1>1 DEF CallsInv, PosterIsFirst
  <2> QED BY <1>1, <2>1, <2>2 DEF CallsInv
<1>2. CASE UNCHANGED vars
  BY <1>1, <1>2 DEF vars, CallsInv
<1>3. ASSUME NEW t \in Thread, CallStep(t) PROVE CallsInv'
  BY <1>3, StartKeepsCalls, StopKeepsCalls, WaitKeepsCalls DEF CallStep, ThreadStep
<1>4. CASE IoThrows
  <2>1. ioUp /\ UNCHANGED <<ioOwned, waiting, drained, completed, pc, sessions>>
    BY <1>4 DEF IoThrows, Runs
  <2>2. state' = "stopping" /\ stopFlag' = TRUE
    BY <1>4, <2>1, UpMeansRunning DEF IoThrows
  <2>3. CallsFitState'
    BY <2>1, <2>2, UpMeansRunning DEF CallsInv, CallsFitState
  <2>4. PosterIsFirst'
    BY <2>1, <2>2 DEF CallsInv, PosterIsFirst
  <2> QED BY <2>1, <2>3, <2>4 DEF CallsInv
<1>5. CASE IoExit \/ ClientConnects \/ AcceptFails \/ GraceEnds \/ WorkerCounts
  BY <1>1, <1>5
     DEF IoExit, ClientConnects, AcceptFails, GraceEnds, WorkerCounts, otherVars, CallsInv
<1>6. ASSUME NEW s \in Session, RegisterSession(s) PROVE CallsInv'
  <2>1. UNCHANGED <<state, stopFlag, ioOwned, waiting, drained, completed, pc>> /\ ioUp
    BY <1>6 DEF RegisterSession, At
  <2>2. MayRegister => ~completed
    BY <2>1, UpMeansRunning DEF MayRegister, CallsInv, CallsFitState, ServerInv, DrainedStays
  <2>3. ~MayRegister => sessions' = sessions
    BY <1>6 DEF RegisterSession
  <2> QED BY <1>1, <2>1, <2>2, <2>3 DEF CallsInv
<1>7. CASE TryCompleteStop
  BY <1>1, <1>7 DEF TryCompleteStop, MayComplete, CallsInv
<1>8. CASE \/ HandleAccept \/ HandleAcceptError \/ Rearm \/ StopOnIoContext \/ DrainSessions
           \/ HandleShutdownDeadline \/ HandleTry
  <2>1. UNCHANGED <<state, stopFlag, ioOwned, waiting, drained, completed, pc>>
    BY <1>8 DEF HandleAccept, HandleAcceptError, Rearm, StopOnIoContext, DrainSessions,
       HandleShutdownDeadline, HandleTry
  <2>2. UNCHANGED sessions
    BY <1>8 DEF HandleAccept, HandleAcceptError, Rearm, StopOnIoContext, DrainSessions,
       HandleShutdownDeadline, HandleTry
  <2> QED BY <1>1, <2>1, <2>2 DEF CallsInv
<1>9. ASSUME NEW s \in Session, ConnectionStep(s) PROVE CallsInv'
  BY <1>1, <1>9, SessionStepEffect DEF ConnectionStep, SessionEffect, otherVars, CallsInv
<1> QED BY <1>2, <1>3, <1>4, <1>5, <1>6, <1>7, <1>8, <1>9, NextSteps DEF IoStep, StrandStep

\* As long as callers do not overtake one another, a stop that has completed stays complete, even
\* if a handler throws: nobody is left to answer, and no session or request comes any more.
THEOREM CompletionIsKept ==
    ASSUME ~CallsOverlap
    PROVE  Spec => []CompletionIsFinal
<1> DEFINE Inv == Typed /\ ServerInv /\ CallsInv
<1>1. Init => Inv
  BY InitIsTyped, InitIsJoined, InitCalls
<1>2. Inv /\ [Next]_vars => Inv'
  BY StepKeepsTypes, StepKeepsServer, StepKeepsCalls
<1>3. Inv => CompletionIsFinal
  <2> SUFFICES ASSUME Inv, completed PROVE sessions = {} /\ InFlight = 0 /\ ~open
    BY DEF CompletionIsFinal
  <2>1. accepted = {} /\ uncounted = 0 /\ ~open /\ sessions = {}
    BY DEF ServerInv, DrainedStays, CallsInv
  <2>2. InFlight = 0
    BY <2>1, FS_EmptySet DEF InFlight
  <2> QED BY <2>1, <2>2
<1> QED BY <1>1, <1>2, <1>3, PTL DEF Spec

-----------------------------------------------------------------------------
(* The accept on its way through the strand *)

AcceptResults == {"accepted", "acceptError"}
ResultsIn(q) == {i \in DOMAIN q : q[i] \in AcceptResults}
Rearming == IF strandAt = <<"rearm">> \/ strandAt \in {"register"} \X Session THEN 1 ELSE 0

\* A posted handler is one more result of an accept, or none.
LEMMA ResultsAppend ==
    ASSUME NEW q \in Seq(StrandHandlers), NEW h \in StrandHandlers
    PROVE  /\ Cardinality(ResultsIn(q)) \in Nat
           /\ h \in AcceptResults =>
                 Cardinality(ResultsIn(Append(q, h))) = Cardinality(ResultsIn(q)) + 1
           /\ h \notin AcceptResults => ResultsIn(Append(q, h)) = ResultsIn(q)
<1> DEFINE r == Append(q, h)
<1>1. r \in Seq(StrandHandlers) /\ Len(r) = Len(q) + 1 /\ Len(q) \in Nat
  OBVIOUS
<1>2. DOMAIN q = 1 .. Len(q) /\ DOMAIN r = 1 .. Len(q) + 1
  BY <1>1
<1>3. (\A i \in 1 .. Len(q) : r[i] = q[i]) /\ r[Len(q) + 1] = h
  OBVIOUS
<1> HIDE DEF r
<1>4. IsFiniteSet(ResultsIn(q))
  <2>1. IsFiniteSet(1 .. Len(q))
    BY <1>1, FS_Interval
  <2> QED BY <1>2, <2>1, FS_Subset DEF ResultsIn
<1>5. Len(q) + 1 \notin ResultsIn(q)
  BY <1>1, <1>2 DEF ResultsIn
<1>6. h \in AcceptResults => ResultsIn(r) = ResultsIn(q) \cup {Len(q) + 1}
  BY <1>1, <1>2, <1>3 DEF ResultsIn
<1>7. h \notin AcceptResults => ResultsIn(r) = ResultsIn(q)
  BY <1>1, <1>2, <1>3 DEF ResultsIn
<1>8. Cardinality(ResultsIn(q) \cup {Len(q) + 1}) = Cardinality(ResultsIn(q)) + 1
  BY <1>4, <1>5, FS_AddElement
<1>9. Cardinality(ResultsIn(q)) \in Nat
  BY <1>4, FS_CardinalityType
<1> QED BY <1>6, <1>7, <1>8, <1>9 DEF r

\* The handler that runs is one result less, or none.
LEMMA ResultsTail ==
    ASSUME NEW q \in Seq(StrandHandlers), q # <<>>
    PROVE  /\ Cardinality(ResultsIn(Tail(q))) \in Nat
           /\ Cardinality(ResultsIn(q)) = Cardinality(ResultsIn(Tail(q)))
                                             + (IF Head(q) \in AcceptResults THEN 1 ELSE 0)
<1> DEFINE r == Tail(q)
           f == [i \in ResultsIn(r) |-> i + 1]
<1>1. Len(q) \in Nat /\ Len(q) > 0 /\ r \in Seq(StrandHandlers) /\ Len(r) = Len(q) - 1
  OBVIOUS
<1>2. DOMAIN q = 1 .. Len(q) /\ DOMAIN r = 1 .. Len(q) - 1
  BY <1>1
<1>3. (\A i \in 1 .. Len(q) - 1 : r[i] = q[i + 1]) /\ Head(q) = q[1]
  BY <1>1
<1> HIDE DEF r
<1>4. ASSUME NEW i \in ResultsIn(r) PROVE i \in Nat /\ i # 0 /\ i + 1 \in ResultsIn(q) \ {1}
  BY <1>1, <1>2, <1>3 DEF ResultsIn
<1>5. ASSUME NEW j \in ResultsIn(q) \ {1}
      PROVE  j \in Nat /\ j - 1 \in ResultsIn(r) /\ (j - 1) + 1 = j
  <2>1. j - 1 \in 1 .. Len(q) - 1 /\ (j - 1) + 1 = j /\ q[j] \in AcceptResults
    BY <1>1, <1>2 DEF ResultsIn
  <2>2. r[j - 1] = q[j]
    BY <1>3, <2>1
  <2> QED BY <1>1, <1>2, <2>1, <2>2 DEF ResultsIn
<1>6. f \in Bijection(ResultsIn(r), ResultsIn(q) \ {1})
  <2>1. f \in [ResultsIn(r) -> ResultsIn(q) \ {1}]
    BY <1>4
  <2>2. \A i, j \in ResultsIn(r) : f[i] = f[j] => i = j
    BY <1>4
  <2>3. \A j \in ResultsIn(q) \ {1} : \E i \in ResultsIn(r) : f[i] = j
    BY <1>5
  <2> QED BY <2>1, <2>2, <2>3, Fun_IsBij
<1>7. IsFiniteSet(ResultsIn(r)) /\ IsFiniteSet(ResultsIn(q))
  <2>1. IsFiniteSet(1 .. Len(q)) /\ IsFiniteSet(1 .. Len(q) - 1)
    BY <1>1, FS_Interval
  <2> QED BY <1>2, <2>1, FS_Subset DEF ResultsIn
<1>8. Cardinality(ResultsIn(q) \ {1}) = Cardinality(ResultsIn(r))
  BY <1>6, <1>7, FS_Bijection DEF ExistsBijection
<1>9. 1 \in ResultsIn(q) <=> Head(q) \in AcceptResults
  BY <1>1, <1>2, <1>3 DEF ResultsIn
<1>10. Cardinality(ResultsIn(q) \ {1}) = IF 1 \in ResultsIn(q) THEN Cardinality(ResultsIn(q)) - 1
                                                            ELSE Cardinality(ResultsIn(q))
  BY <1>7, FS_RemoveElement
<1>11. Cardinality(ResultsIn(q)) \in Nat /\ Cardinality(ResultsIn(r)) \in Nat
  BY <1>7, FS_CardinalityType
<1> QED BY <1>8, <1>9, <1>10, <1>11 DEF r

-----------------------------------------------------------------------------
(* Both: a stop reaches the acceptor, and leaves nothing behind *)

FullInv == Typed /\ ServerInv /\ IoInv /\ CallsInv /\ StopInv

LEMMA PostFacts ==
    ASSUME Typed, NEW h \in StrandHandlers, Post(h)
    PROVE  ToSet(strand') = ToSet(strand) \cup {h}
  BY AppendFacts DEF Typed, StrandTypes, Post

LEMMA TakeFacts ==
    ASSUME Typed, NEW h, Take(h)
    PROVE  /\ strand \in Seq(StrandHandlers) /\ strand # <<>> /\ Head(strand) = h
           /\ Tail(strand) \in Seq(StrandHandlers)
           /\ ToSet(strand) = {h} \cup ToSet(Tail(strand))
           /\ ioUp /\ strandAt = <<"free">>
  BY TailFacts DEF Typed, StrandTypes, Take, Runs

LEMMA InitStop == Init => StopInv
<1> SUFFICES ASSUME Init PROVE StopInv
  OBVIOUS
<1>1. ToSet(strand) = {}
  BY EmptyFacts DEF Init
<1> QED BY <1>1 DEF Init, StopInv, DownIsQuiet, StopArrives

\* A server that runs or stops, before the stop is complete, has its I/O threads.
LEMMA PosterFindsIo ==
    ASSUME FullInv, NEW t \in Thread, pc[t].post
    PROVE  state = "stopping" /\ ioUp /\ ioOwned
<1>1. state = "stopping" /\ ioOwned
  BY DEF FullInv, CallsInv, PosterIsFirst
<1>2. ~completed
  BY <1>1 DEF FullInv, CallsInv, CallsFitState, ServerInv, OneJoins, DrainedStays
<1> QED BY <1>1, <1>2 DEF FullInv, StopInv, StopArrives

\* Closing the acceptor of a server whose I/O threads are gone posts nothing.
LEMMA CloseWhenDown ==
    ASSUME Typed, IoInv, ~ioUp, CloseAcceptor
    PROVE  strand' = strand /\ acceptor' = "closed"
<1>1. accepts = 0
  BY DEF IoInv, IoIsDone
<1>2. strand' = strand \o [i \in 1 .. 0 |-> "acceptError"]
  BY <1>1 DEF CloseAcceptor
<1> QED BY <1>2, NoAbortedAccepts DEF CloseAcceptor, Typed, StrandTypes

LEMMA StartKeepsStop ==
    ASSUME ~CallsOverlap, FullInv, CallsInv', NEW t \in Thread,
           Start(t) \/ StartFails(t) \/ StartFailEnd(t) \/ WaitEnd(t)
    PROVE  StopInv'
<1>1. ~ioUp
  <2>1. CASE Start(t) \/ StartFails(t)
    BY <2>1 DEF Start, StartFails, MayStart, FullInv, ServerInv, OneJoins
  <2>2. CASE StartFailEnd(t)
    BY <2>2 DEF StartFailEnd, FullInv, CallsInv, CallsFitState, ServerInv, OneJoins
  <2>3. CASE WaitEnd(t)
    BY <2>3 DEF WaitEnd, FullInv, ServerInv, OneJoins
  <2> QED BY <2>1, <2>2, <2>3
<1>2. /\ acceptor = "closed" /\ sessions = {} /\ uncounted = 0
      /\ ToSet(strand) \subseteq {"try"}
  BY <1>1 DEF FullInv, StopInv, DownIsQuiet
<1>3. strand' = strand /\ sessions' = sessions
  <2>1. CASE Start(t) \/ StartFails(t)
    BY <2>1 DEF Start, StartFails
  <2>2. CASE StartFailEnd(t) \/ WaitEnd(t)
    BY <1>1, <2>2, CloseWhenDown DEF StartFailEnd, WaitEnd, FullInv
  <2> QED BY <2>1, <2>2
<1>4. "stop" \notin ToSet(strand')
  BY <1>2, <1>3
<1>5. CASE Start(t)
  <2>1. ioUp' /\ acceptor' = "open" /\ state' = "running"
    BY <1>5 DEF Start
  <2> QED BY <1>4, <2>1 DEF StopInv, DownIsQuiet, StopArrives
<1>6. CASE StartFails(t)
  <2>1. state' = "starting" /\ acceptor' = acceptor /\ uncounted' = 0
    BY <1>6 DEF StartFails
  <2> QED BY <1>2, <1>3, <1>4, <2>1 DEF StopInv, DownIsQuiet, StopArrives
<1>7. CASE StartFailEnd(t) \/ WaitEnd(t)
  <2>1. state' = "stopped" /\ acceptor' = "closed" /\ UNCHANGED uncounted
    BY <1>7 DEF StartFailEnd, WaitEnd, CloseAcceptor, execVars
  <2> QED BY <1>2, <1>3, <1>4, <2>1 DEF StopInv, DownIsQuiet, StopArrives
<1> QED BY <1>5, <1>6, <1>7

LEMMA StopKeepsStop ==
    ASSUME ~CallsOverlap, FullInv, NEW t \in Thread,
           \/ StopIdle(t) \/ StopExec(t) \/ StopPost(t)
           \/ \E wait \in BOOLEAN : StopBegin(t, wait)
    PROVE  StopInv'
<1> USE DEF lifeVars, ioVars, execVars
<1>1. CASE StopIdle(t)
  <2>1. state = "stopped"
        /\ UNCHANGED <<state, acceptor, ioUp, strand, sessions, uncounted>>
    BY <1>1 DEF StopIdle
  <2> QED BY <2>1 DEF FullInv, StopInv, DownIsQuiet, StopArrives
<1>2. ASSUME NEW wait \in BOOLEAN, StopBegin(t, wait) PROVE StopInv'
  <2>1. state' = "stopping" /\ state \in {"running", "stopping"}
        /\ UNCHANGED <<acceptor, ioUp, strand, sessions, uncounted, completed>>
    BY <1>2 DEF StopBegin, FullInv, Typed, CountTypes
  <2>2. /\ pc[t].at = "idle" /\ (pc'[t].post <=> state # "stopping")
        /\ \A u \in Thread : u # t => pc'[u] = pc[u]
    BY <1>2, StopBeginMoves DEF FullInv
  <2>3. ~pc[t].post
    BY <2>2 DEF FullInv, CallsInv, PosterIsFirst
  <2>4. CASE state = "running"
    <3>1. pc'[t].post /\ ioUp
      BY <2>2, <2>4 DEF FullInv, StopInv, StopArrives
    <3> QED BY <2>1, <3>1 DEF FullInv, StopInv, DownIsQuiet, StopArrives
  <2>5. CASE state = "stopping"
    <3>1. \A u \in Thread : pc[u].post => pc'[u].post
      BY <2>2, <2>3
    <3> QED BY <2>1, <2>5, <3>1 DEF FullInv, StopInv, DownIsQuiet, StopArrives
  <2> QED BY <2>1, <2>4, <2>5
<1>3. CASE StopExec(t)
  <2>1. UNCHANGED <<state, acceptor, ioUp, strand, sessions, uncounted, completed>>
    BY <1>3 DEF StopExec
  <2>2. \A u \in Thread : pc[u].post => pc'[u].post
    <3>1. CASE pc[t].post
      <4>1. pc' = [pc EXCEPT ![t] = [pc[t] EXCEPT !.at = "stopPost"]]
        BY <1>3, <3>1 DEF StopExec, Goto
      <4> QED BY <4>1 DEF FullInv, Typed, CallTypes, CallRecords
    <3>2. CASE ~pc[t].post
      BY <1>3, <3>2, CallMoves DEF Moves, FullInv
    <3> QED BY <3>1, <3>2
  <2> QED BY <2>1, <2>2 DEF FullInv, StopInv, DownIsQuiet, StopArrives
<1>4. CASE StopPost(t)
  <2>1. UNCHANGED <<state, acceptor, ioUp, sessions, uncounted, completed>> /\ Post("stop")
    BY <1>4 DEF StopPost
  <2>2. "stop" \in ToSet(strand')
    BY <2>1, PostFacts DEF FullInv, StrandHandlers
  <2>3. pc[t].post
    BY <1>4 DEF StopPost, FullInv, CallsInv, PosterIsFirst
  <2> QED BY <2>1, <2>2, <2>3, PosterFindsIo DEF StopInv, DownIsQuiet, StopArrives
<1> QED BY <1>1, <1>2, <1>3, <1>4

LEMMA WaitKeepsStop ==
    ASSUME ~CallsOverlap, FullInv, NEW t \in Thread,
           WaitBegin(t) \/ WaitExec(t) \/ WaitDrain(t) \/ WaitPost(t) \/ WaitIo(t)
    PROVE  StopInv'
<1> USE DEF lifeVars, ioVars, execVars
<1>1. UNCHANGED <<state, acceptor, ioUp, uncounted, completed>> /\ sessions' \subseteq sessions
  BY DEF WaitBegin, WaitExec, WaitDrain, WaitPost, WaitIo
<1>2. /\ ToSet(strand) \subseteq ToSet(strand')
      /\ ToSet(strand') \subseteq ToSet(strand) \cup {"try"}
  <2>1. CASE WaitPost(t)
    BY <2>1, PostFacts DEF WaitPost, FullInv, StrandHandlers
  <2>2. CASE WaitBegin(t) \/ WaitExec(t) \/ WaitDrain(t) \/ WaitIo(t)
    BY <2>2 DEF WaitBegin, WaitExec, WaitDrain, WaitIo
  <2> QED BY <2>1, <2>2
<1>3. \A u \in Thread : pc[u].post => u # t
  <2>1. pc[t].at \notin {"stopExec", "stopPost"}
    BY DEF WaitBegin, WaitExec, WaitDrain, WaitPost, WaitIo
  <2> QED BY <2>1 DEF FullInv, CallsInv, PosterIsFirst
<1>4. \A u \in Thread : u # t => pc'[u] = pc[u]
  BY CallMoves DEF Moves, FullInv
<1>5. \A u \in Thread : pc[u].post => pc'[u].post
  BY <1>3, <1>4
<1>6. "stop" \in ToSet(strand') <=> "stop" \in ToSet(strand)
  BY <1>2
<1>7. DownIsQuiet'
  BY <1>1, <1>2 DEF FullInv, StopInv, DownIsQuiet
<1>8. StopArrives'
  BY <1>1, <1>5, <1>6 DEF FullInv, StopInv, StopArrives
<1> QED BY <1>7, <1>8 DEF StopInv

\* The I/O threads leave only when the stop is complete: with the acceptor closed, no session,
\* and nothing queued.
LEMMA ExitIsQuiet ==
    ASSUME FullInv, IoExit
    PROVE  StopInv'
<1> USE DEF FullInv
<1>1. ~HasWork /\ ioUp
  BY DEF IoExit, IoInv
<1>2. strand = <<>> /\ completed
  BY <1>1 DEF HasWork, IoInv
<1>3. ToSet(strand) = {}
  BY <1>2, EmptyFacts
<1>4. sessions = {} /\ drained /\ uncounted = 0
  BY <1>2 DEF CallsInv, ServerInv, DrainedStays
<1>5. state = "stopping"
  BY <1>1, <1>4, UpMeansRunning DEF CallsInv, CallsFitState
<1>6. \A t \in Thread : ~pc[t].post
  BY <1>4, <1>5 DEF CallsInv, CallsFitState, PosterIsFirst, ServerInv, OneJoins
<1>7. acceptor = "closed"
  BY <1>3, <1>5, <1>6 DEF StopInv, StopArrives
<1>8. UNCHANGED <<state, acceptor, sessions, uncounted, strand, completed>>
  BY DEF IoExit, lifeVars, execVars
<1> QED BY <1>2, <1>3, <1>4, <1>5, <1>7, <1>8 DEF StopInv, DownIsQuiet, StopArrives

\* A step of the I/O threads while they run, which neither takes nor posts StopOnIoContext.
LEMMA RunningKeepsStop ==
    ASSUME FullInv, ioUp, UNCHANGED <<ioUp, state, acceptor, pc>>,
           "stop" \in ToSet(strand') <=> "stop" \in ToSet(strand)
    PROVE  StopInv'
  BY DEF FullInv, StopInv, DownIsQuiet, StopArrives

LEMMA StrandKeepsStop ==
    ASSUME FullInv, StrandStep
    PROVE  StopInv'
<1> USE DEF lifeVars, ioVars
<1>1. ASSUME NEW h \in {"accepted", "acceptError", "deadline", "try"}, Take(h), Took,
             UNCHANGED <<ioUp, state, acceptor, pc>>
      PROVE  StopInv'
  <2>1. ToSet(strand) = {h} \cup ToSet(strand') /\ ioUp
    BY <1>1, TakeFacts DEF FullInv, Took
  <2> QED BY <1>1, <2>1, RunningKeepsStop
<1>2. CASE HandleAccept
  BY <1>1, <1>2 DEF HandleAccept
<1>3. CASE HandleAcceptError
  BY <1>1, <1>3 DEF HandleAcceptError
<1>4. CASE HandleShutdownDeadline
  BY <1>1, <1>4 DEF HandleShutdownDeadline
<1>5. CASE HandleTry
  BY <1>1, <1>5 DEF HandleTry
<1>6. CASE Rearm \/ DrainSessions \/ TryCompleteStop \/ \E s \in Session : RegisterSession(s)
  <2>1. ioUp /\ UNCHANGED <<ioUp, state, acceptor, pc, strand>>
    BY <1>6 DEF Rearm, DrainSessions, TryCompleteStop, RegisterSession, At
  <2> QED BY <2>1, RunningKeepsStop
<1>7. CASE StopOnIoContext
  <2>1. ioUp /\ Tail(strand) \in Seq(StrandHandlers)
        /\ ToSet(strand) = {"stop"} \cup ToSet(Tail(strand))
    BY <1>7, TakeFacts DEF StopOnIoContext, FullInv
  <2>2. state = "stopping"
    BY <2>1 DEF FullInv, StopInv, StopArrives
  <2>3. ioUp' = ioUp /\ state' = state /\ acceptor' = "closed"
    BY <1>7 DEF StopOnIoContext
  <2> QED BY <2>1, <2>2, <2>3 DEF StopInv, DownIsQuiet, StopArrives
<1> QED BY <1>2, <1>3, <1>4, <1>5, <1>6, <1>7 DEF StrandStep

LEMMA StepKeepsStop ==
    ASSUME ~CallsOverlap, ~IoMayThrow, FullInv, CallsInv', [Next]_vars
    PROVE  StopInv'
<1> USE DEF lifeVars, ioVars, execVars
<1>1. CASE UNCHANGED vars
  BY <1>1 DEF vars, FullInv, StopInv, DownIsQuiet, StopArrives
<1>2. ASSUME NEW t \in Thread, CallStep(t) PROVE StopInv'
  BY <1>2, StartKeepsStop, StopKeepsStop, WaitKeepsStop DEF CallStep, ThreadStep
<1>3. CASE IoExit
  BY <1>3, ExitIsQuiet
<1>4. ASSUME NEW h \in {"accepted", "acceptError", "deadline"}, Post(h), ioUp,
             UNCHANGED <<ioUp, state, acceptor, pc>>
      PROVE  StopInv'
  BY <1>4, PostFacts, RunningKeepsStop DEF FullInv, StrandHandlers
<1>5. CASE ClientConnects \/ AcceptFails \/ GraceEnds
  BY <1>4, <1>5 DEF ClientConnects, AcceptFails, GraceEnds, Runs
<1>6. CASE StrandStep
  BY <1>6, StrandKeepsStop
<1>7. ASSUME NEW s \in Session, ConnectionStep(s) PROVE StopInv'
  <2>1. SessionEffect
    BY <1>7, SessionStepEffect DEF ConnectionStep, FullInv
  <2>2. ioUp
    BY <1>7, RunsWhileUp DEF FullInv
  <2>3. UNCHANGED <<ioUp, state, acceptor, pc>>
    BY <2>1 DEF SessionEffect, otherVars
  <2>4. "stop" \in ToSet(strand') <=> "stop" \in ToSet(strand)
    <3>1. CASE strand' = strand
      BY <3>1
    <3>2. CASE strand' = Append(strand, "try")
      BY <3>2, PostFacts DEF Post, FullInv, StrandHandlers
    <3> QED BY <2>1, <3>1, <3>2 DEF SessionEffect
  <2> QED BY <2>2, <2>3, <2>4, RunningKeepsStop
<1>8. CASE WorkerCounts
  <2>1. uncounted > 0 /\ uncounted' = uncounted - 1
        /\ UNCHANGED <<ioUp, state, acceptor, pc, strand, sessions, completed>>
    BY <1>8 DEF WorkerCounts, otherVars
  <2>2. ioUp
    BY <2>1 DEF FullInv, StopInv, DownIsQuiet
  <2> QED BY <2>1, <2>2, RunningKeepsStop
<1>9. ~IoThrows
  BY DEF IoThrows
<1> QED BY <1>1, <1>2, <1>3, <1>5, <1>6, <1>7, <1>8, <1>9, NextSteps DEF IoStep

LEMMA InitFull == Init => FullInv
  BY InitIsTyped, InitIsJoined, InitIsDone, InitCalls, InitStop DEF FullInv

LEMMA StepKeepsFull ==
    ASSUME ~CallsOverlap, ~IoMayThrow
    PROVE  FullInv /\ [Next]_vars => FullInv'
  BY StepKeepsTypes, StepKeepsServer, StepKeepsIo, StepKeepsCalls, StepKeepsStop DEF FullInv

\* After Wait nothing of the server is left but a completion posted too late, as long as callers
\* do not overtake one another and no handler throws.
THEOREM StoppedServerIsQuiet ==
    ASSUME ~CallsOverlap, ~IoMayThrow
    PROVE  Spec => []StoppedIsQuiet
<1>1. FullInv => StoppedIsQuiet
  <2> SUFFICES ASSUME FullInv, state = "stopped"
               PROVE  /\ ~ioUp /\ sessions = {} /\ acceptor = "closed" /\ InFlight = 0 /\ ~timer
                      /\ ToSet(strand) \subseteq {"try"}
                      /\ \A s \in Session : inbox[s] = <<>> /\ op[s] = "none"
    BY DEF StoppedIsQuiet
  <2>1. ~ioUp
    BY DEF FullInv, CallsInv, CallsFitState, ServerInv, OneJoins
  <2>2. sessions = {} /\ acceptor = "closed" /\ uncounted = 0 /\ ToSet(strand) \subseteq {"try"}
    BY <2>1 DEF FullInv, StopInv, DownIsQuiet
  <2>3. accepted = {} /\ ~timer /\ \A s \in Session : inbox[s] = <<>> /\ op[s] = "none"
    BY <2>1 DEF FullInv, IoInv, IoIsDone
  <2>4. InFlight = 0
    BY <2>2, <2>3, FS_EmptySet DEF InFlight
  <2> QED BY <2>1, <2>2, <2>3, <2>4
<1> QED BY <1>1, InitFull, StepKeepsFull, PTL DEF Spec

-----------------------------------------------------------------------------
(* No session registers behind the drain *)

LEMMA StepKeepsDrain ==
    ASSUME ~CallsOverlap, ~IoMayThrow, FullInv, FullInv', DrainReachesAll, [Next]_vars
    PROVE  DrainReachesAll'
<1> USE DEF lifeVars, ioVars
<1>1. ASSUME UNCHANGED drainReq, sessions' \subseteq sessions, strandAt = <<"drain">> => ~ioUp',
             stopFlag' /\ ioUp' /\ acceptor' = "closed" => stopFlag /\ ioUp /\ acceptor = "closed"
      PROVE  DrainReachesAll'
  BY <1>1 DEF DrainReachesAll
<1>2. ASSUME UNCHANGED <<drainReq, strandAt>>, sessions' \subseteq sessions,
             stopFlag' /\ ioUp' /\ acceptor' = "closed" => stopFlag /\ ioUp /\ acceptor = "closed"
      PROVE  DrainReachesAll'
  BY <1>2 DEF DrainReachesAll
<1>3. CASE UNCHANGED vars
  BY <1>2, <1>3 DEF vars, sessionVars
<1>4. ASSUME NEW t \in Thread, CallStep(t) PROVE DrainReachesAll'
  <2>1. UNCHANGED <<drainReq, strandAt>> /\ sessions' \subseteq sessions
    BY <1>4, CallLeavesSessions DEF sessionVars
  <2>2. CASE Start(t) \/ StartFails(t)
    <3>1. stopFlag' = FALSE \/ ~ioUp'
      BY <2>2 DEF Start, StartFails, MayStart, FullInv, ServerInv, OneJoins
    <3> QED BY <1>2, <2>1, <3>1
  <2>3. CASE StartFailEnd(t) \/ WaitEnd(t)
    <3>1. ~ioUp'
      BY <2>3 DEF StartFailEnd, WaitEnd, FullInv, CallsInv, CallsFitState, ServerInv, OneJoins
    <3> QED BY <1>2, <2>1, <3>1
  <2>4. ASSUME NEW wait \in BOOLEAN, StopBegin(t, wait) PROVE DrainReachesAll'
    <3>1. UNCHANGED <<ioUp, acceptor>> /\ state \in {"running", "stopping"}
      BY <2>4 DEF StopBegin, FullInv, Typed, CountTypes
    <3>2. acceptor = "closed" => stopFlag
      BY <3>1 DEF FullInv, StopInv, StopArrives, CallsInv, CallsFitState
    <3> QED BY <1>2, <2>1, <3>1, <3>2
  <2>5. CASE \/ StopIdle(t) \/ StopExec(t) \/ StopPost(t) \/ WaitBegin(t) \/ WaitExec(t)
             \/ WaitDrain(t) \/ WaitPost(t) \/ WaitIo(t)
    <3>1. UNCHANGED <<stopFlag, ioUp, acceptor>>
      BY <2>5 DEF StopIdle, StopExec, StopPost, WaitBegin, WaitExec, WaitDrain, WaitPost, WaitIo
    <3> QED BY <1>2, <2>1, <3>1
  <2> QED BY <1>4, <2>2, <2>3, <2>4, <2>5 DEF CallStep, ThreadStep
<1>5. CASE IoExit \/ ClientConnects \/ AcceptFails \/ GraceEnds
  <2>1. UNCHANGED <<sessionVars, strandAt, sessions>>
    BY <1>5, IoLeavesSessions DEF IoStep
  <2>2. UNCHANGED <<stopFlag, acceptor>> /\ (ioUp' => ioUp)
    BY <1>5 DEF IoExit, ClientConnects, AcceptFails, GraceEnds
  <2> QED BY <1>2, <2>1, <2>2 DEF sessionVars
<1>6. CASE HandleAccept
  <2>1. UNCHANGED <<stopFlag, acceptor, ioUp, sessions>> /\ strandAt = <<"free">>
    BY <1>6, TakeFacts DEF HandleAccept, FullInv
  <2>2. CASE stopFlag
    BY <1>1, <1>6, <2>1, <2>2 DEF HandleAccept, sessionVars
  <2>3. CASE ~stopFlag
    BY <2>1, <2>3 DEF DrainReachesAll
  <2> QED BY <2>2, <2>3
<1>7. CASE HandleAcceptError \/ Rearm \/ HandleShutdownDeadline \/ HandleTry \/ TryCompleteStop
  <2>1. UNCHANGED <<stopFlag, acceptor, ioUp, sessions, drainReq>>
    BY <1>7 DEF HandleAcceptError, Rearm, HandleShutdownDeadline, HandleTry, TryCompleteStop,
       sessionVars
  <2>2. strandAt # <<"drain">>
    BY <1>7, TakeFacts DEF HandleAcceptError, Rearm, HandleShutdownDeadline, HandleTry,
       TryCompleteStop, At, FullInv
  <2> QED BY <1>1, <2>1, <2>2
<1>8. CASE StopOnIoContext
  <2>1. strandAt' = <<"drain">>
    BY <1>8 DEF StopOnIoContext
  <2> QED BY <2>1 DEF DrainReachesAll
<1>9. CASE DrainSessions
  <2>1. drainReq' = [s \in Session |-> drainReq[s] \/ s \in sessions] /\ sessions' = sessions
    BY <1>9 DEF DrainSessions
  <2>2. sessions \subseteq Session
    BY DEF FullInv, Typed, SessionTypes
  <2> QED BY <2>1, <2>2 DEF DrainReachesAll
<1>10. ASSUME NEW s \in Session, RegisterSession(s) PROVE DrainReachesAll'
  <2>1. UNCHANGED <<stopFlag, acceptor, ioUp, drainReq>> /\ strandAt # <<"drain">>
    BY <1>10 DEF RegisterSession, At
  <2>2. CASE MayRegister
    BY <2>1, <2>2 DEF MayRegister, DrainReachesAll
  <2>3. CASE ~MayRegister
    BY <1>1, <1>10, <2>1, <2>3 DEF RegisterSession
  <2> QED BY <2>2, <2>3
<1>11. ASSUME NEW s \in Session, ConnectionStep(s) PROVE DrainReachesAll'
  <2>1. SessionEffect
    BY <1>11, SessionStepEffect DEF ConnectionStep, FullInv
  <2> QED BY <1>2, <2>1 DEF SessionEffect, otherVars
<1>12. CASE WorkerCounts
  BY <1>2, <1>12 DEF WorkerCounts, otherVars, sessionVars
<1>13. ~IoThrows
  BY DEF IoThrows
<1> QED BY <1>3, <1>4, <1>5, <1>6, <1>7, <1>8, <1>9, <1>10, <1>11, <1>12, <1>13, NextSteps
        DEF IoStep, StrandStep

\* Once the stop has passed over the sessions, every session left knows of it and none can
\* register any more, as long as callers do not overtake one another and no handler throws.
THEOREM DrainReachesEverySession ==
    ASSUME ~CallsOverlap, ~IoMayThrow
    PROVE  Spec => []DrainReachesAll
<1>1. Init => DrainReachesAll
  BY DEF Init, DrainReachesAll
<1>2. FullInv /\ DrainReachesAll /\ [Next]_vars => DrainReachesAll'
  BY StepKeepsFull, StepKeepsDrain
<1> QED BY <1>1, <1>2, InitFull, StepKeepsFull, PTL DEF Spec

-----------------------------------------------------------------------------
(* A running server has exactly one accept under way *)

OneAccept == accepts + Cardinality(ResultsIn(strand)) + Rearming = 1

LEMMA RunningAcceptsIs ==
    RunningAccepts <=> (state = "running" => acceptor = "open" /\ OneAccept)
  BY DEF RunningAccepts, OneAccept, ResultsIn, AcceptResults, Rearming

\* Where the strand's own handler is when it owes no new accept.
LEMMA NotRearming ==
    strandAt \in {<<"free">>, <<"drain">>, <<"try">>} => Rearming = 0
  BY DEF Rearming

LEMMA StrandKeepsAccept ==
    ASSUME FullInv, OneAccept, state = "running", StrandStep
    PROVE  OneAccept'
<1> USE DEF FullInv, Typed
<1>1. strand \in Seq(StrandHandlers) /\ accepts \in Nat /\ Cardinality(ResultsIn(strand)) \in Nat
  BY ResultsAppend DEF StrandTypes, CountTypes, StrandHandlers
<1>2. ~stopFlag /\ acceptor = "open" /\ "stop" \notin ToSet(strand)
  BY DEF CallsInv, CallsFitState, StopInv, StopArrives
<1>3. ASSUME NEW h \in AcceptResults, Take(h), Took, Rearming' = 1, UNCHANGED accepts
      PROVE  OneAccept'
  <2>1. strand # <<>> /\ Head(strand) \in AcceptResults /\ strandAt = <<"free">>
    BY <1>3, TakeFacts
  <2>2. Rearming = 0
    BY <2>1, NotRearming
  <2>3. Cardinality(ResultsIn(strand)) = Cardinality(ResultsIn(Tail(strand))) + 1
        /\ Cardinality(ResultsIn(Tail(strand))) \in Nat
    BY <1>1, <2>1, ResultsTail
  <2>4. strand' = Tail(strand)
    BY <1>3 DEF Took
  <2> QED BY <1>1, <1>3, <2>2, <2>3, <2>4 DEF OneAccept
<1>4. CASE HandleAccept
  <2>1. \E s \in Session : strandAt' = <<"register", s>>
    BY <1>2, <1>4 DEF HandleAccept
  <2>2. Rearming' = 1
    BY <2>1 DEF Rearming
  <2> QED BY <1>3, <1>4, <2>2 DEF HandleAccept, AcceptResults
<1>5. CASE HandleAcceptError
  <2>1. Rearming' = 1
    BY <1>5 DEF HandleAcceptError, Rearming
  <2> QED BY <1>3, <1>5, <2>1 DEF HandleAcceptError, AcceptResults
<1>6. ASSUME NEW h \in {"deadline", "try"}, Take(h), Took, strandAt' = <<"try">>, UNCHANGED accepts
      PROVE  OneAccept'
  <2>1. strand # <<>> /\ Head(strand) \notin AcceptResults /\ strandAt = <<"free">>
    BY <1>6, TakeFacts DEF AcceptResults
  <2>2. Rearming = 0 /\ Rearming' = 0
    BY <1>6, <2>1, NotRearming DEF Rearming
  <2>3. Cardinality(ResultsIn(strand)) = Cardinality(ResultsIn(Tail(strand)))
    BY <1>1, <2>1, ResultsTail
  <2>4. strand' = Tail(strand)
    BY <1>6 DEF Took
  <2> QED BY <1>1, <1>6, <2>2, <2>3, <2>4 DEF OneAccept
<1>7. CASE HandleShutdownDeadline
  BY <1>6, <1>7 DEF HandleShutdownDeadline
<1>8. CASE HandleTry
  BY <1>6, <1>8 DEF HandleTry
<1>9. CASE Rearm
  <2>1. strandAt = <<"rearm">> /\ strandAt' = <<"free">> /\ strand' = strand
        /\ accepts' = accepts + 1
    BY <1>2, <1>9 DEF Rearm, At
  <2>2. Rearming = 1 /\ Rearming' = 0
    BY <2>1 DEF Rearming
  <2> QED BY <1>1, <2>1, <2>2 DEF OneAccept
<1>10. CASE DrainSessions \/ TryCompleteStop
  <2>1. strandAt \in {<<"drain">>, <<"try">>} /\ strandAt' \in {<<"try">>, <<"free">>}
        /\ UNCHANGED <<strand, accepts>>
    BY <1>10 DEF DrainSessions, TryCompleteStop, At
  <2>2. Rearming = 0 /\ Rearming' = 0
    BY <2>1 DEF Rearming
  <2> QED BY <2>1, <2>2 DEF OneAccept
<1>11. ASSUME NEW s \in Session, RegisterSession(s) PROVE OneAccept'
  <2>1. strandAt = <<"register", s>> /\ strandAt' = <<"rearm">> /\ UNCHANGED <<strand, accepts>>
    BY <1>11 DEF RegisterSession, At
  <2>2. Rearming = 1 /\ Rearming' = 1
    BY <2>1 DEF Rearming
  <2> QED BY <2>1, <2>2 DEF OneAccept
<1>12. ~StopOnIoContext
  BY <1>2, TakeFacts DEF StopOnIoContext
<1> QED BY <1>4, <1>5, <1>7, <1>8, <1>9, <1>10, <1>11, <1>12 DEF StrandStep

LEMMA StepKeepsAccept ==
    ASSUME ~CallsOverlap, ~IoMayThrow, FullInv, FullInv', RunningAccepts, [Next]_vars
    PROVE  RunningAccepts'
<1> USE DEF lifeVars, ioVars
<1>1. state' = "running" => acceptor' = "open"
  BY DEF FullInv, StopInv, StopArrives
<1> SUFFICES ASSUME state' = "running" PROVE OneAccept'
  BY <1>1 DEF RunningAccepts, OneAccept, ResultsIn, AcceptResults, Rearming
<1>2. state = "running" => OneAccept /\ \A t \in Thread : pc[t].at = "idle"
  BY RunningAcceptsIs DEF FullInv, CallsInv, CallsFitState
<1>3. strand \in Seq(StrandHandlers) /\ accepts \in Nat /\ Cardinality(ResultsIn(strand)) \in Nat
  BY ResultsAppend DEF FullInv, Typed, StrandTypes, CountTypes, StrandHandlers
<1>4. ASSUME state = "running", UNCHANGED <<accepts, strand, strandAt>> PROVE OneAccept'
  <2>1. Rearming' = Rearming
    BY <1>4 DEF Rearming
  <2> QED BY <1>2, <1>4, <2>1 DEF OneAccept
<1>5. ASSUME NEW h \in StrandHandlers, state = "running", Post(h), UNCHANGED strandAt,
             \/ h \in AcceptResults /\ accepts > 0 /\ accepts' = accepts - 1
             \/ h \notin AcceptResults /\ accepts' = accepts
      PROVE  OneAccept'
  <2>1. Rearming' = Rearming /\ Rearming \in Nat
    BY <1>5 DEF Rearming
  <2>2. CASE h \in AcceptResults
    <3>1. Cardinality(ResultsIn(strand')) = Cardinality(ResultsIn(strand)) + 1
      BY <1>3, <1>5, <2>2, ResultsAppend DEF Post
    <3> QED BY <1>2, <1>3, <1>5, <2>1, <2>2, <3>1 DEF OneAccept
  <2>3. CASE h \notin AcceptResults
    <3>1. ResultsIn(strand') = ResultsIn(strand)
      BY <1>3, <1>5, <2>3, ResultsAppend DEF Post
    <3> QED BY <1>2, <1>3, <1>5, <2>1, <2>3, <3>1 DEF OneAccept
  <2> QED BY <2>2, <2>3
<1>6. CASE UNCHANGED vars
  <2>1. UNCHANGED <<state, accepts, strand, strandAt>>
    BY <1>6 DEF vars
  <2> QED BY <1>4, <2>1
<1>7. ASSUME NEW t \in Thread, CallStep(t) PROVE OneAccept'
  <2>1. CASE Start(t)
    <3>1. ~ioUp
      BY <2>1 DEF Start, MayStart, FullInv, ServerInv, OneJoins
    <3>2. accepts = 0 /\ strandAt = <<"free">>
      BY <3>1 DEF FullInv, IoInv, IoIsDone
    <3>3. accepts' = 1 /\ UNCHANGED <<strand, strandAt>>
      BY <2>1, <3>2 DEF Start
    <3>4. ResultsIn(strand) = {}
      <4>1. ToSet(strand) \subseteq {"try"}
        BY <3>1 DEF FullInv, StopInv, DownIsQuiet
      <4> QED BY <4>1 DEF ResultsIn, AcceptResults, ToSet
    <3>5. Rearming' = 0
      BY <3>2, <3>3 DEF Rearming
    <3> QED BY <3>3, <3>4, <3>5, FS_EmptySet DEF OneAccept
  <2>2. CASE ~Start(t)
    <3>1. state' # "running" \/ (state' = state /\ pc[t].at # "idle")
          \/ (state = "stopped" /\ state' = state)
      BY <1>7, <2>2
         DEF CallStep, ThreadStep, StartFails, StartFailEnd, StopIdle, StopBegin, StopExec,
         StopPost, WaitBegin, WaitExec, WaitDrain, WaitPost, WaitIo, WaitEnd
    <3> QED BY <1>2, <3>1
  <2> QED BY <2>1, <2>2
<1>8. CASE IoExit
  <2>1. state = "running" /\ ~guard /\ ioUp
    BY <1>8 DEF IoExit, FullInv, IoInv, HasWork
  <2>2. FALSE
    BY <2>1 DEF FullInv, IoInv, ServerInv, DrainedStays, CallsInv, CallsFitState
  <2> QED BY <2>2
<1>9. CASE ClientConnects
  <2>1. Post("accepted") /\ accepts > 0 /\ accepts' = accepts - 1 /\ UNCHANGED <<state, strandAt>>
    BY <1>9 DEF ClientConnects
  <2> QED BY <1>5, <2>1 DEF StrandHandlers, AcceptResults
<1>10. CASE AcceptFails
  <2>1. Post("acceptError") /\ accepts > 0 /\ accepts' = accepts - 1
        /\ UNCHANGED <<state, strandAt>>
    BY <1>10 DEF AcceptFails
  <2> QED BY <1>5, <2>1 DEF StrandHandlers, AcceptResults
<1>11. CASE GraceEnds
  <2>1. Post("deadline") /\ UNCHANGED accepts /\ UNCHANGED <<state, strandAt>>
    BY <1>11 DEF GraceEnds
  <2> QED BY <1>5, <2>1 DEF StrandHandlers, AcceptResults
<1>12. CASE StrandStep
  <2>1. state' = state
    BY <1>12 DEF StrandStep, HandleAccept, HandleAcceptError, Rearm, StopOnIoContext, DrainSessions,
       HandleShutdownDeadline, HandleTry, TryCompleteStop, RegisterSession
  <2>2. state = "running" /\ OneAccept
    BY <1>2, <2>1
  <2> QED BY <1>12, <2>2, StrandKeepsAccept
<1>13. ASSUME NEW s \in Session, ConnectionStep(s) PROVE OneAccept'
  <2>1. SessionEffect
    BY <1>13, SessionStepEffect DEF ConnectionStep, FullInv
  <2>2. UNCHANGED <<state, accepts, strandAt>>
    BY <2>1 DEF SessionEffect, otherVars
  <2>3. CASE strand' = strand
    BY <1>4, <2>2, <2>3
  <2>4. CASE strand' = Append(strand, "try")
    BY <1>5, <2>2, <2>4 DEF Post, StrandHandlers, AcceptResults
  <2> QED BY <2>1, <2>3, <2>4 DEF SessionEffect
<1>14. CASE WorkerCounts
  <2>1. UNCHANGED <<state, accepts, strand, strandAt>>
    BY <1>14 DEF WorkerCounts, otherVars
  <2> QED BY <1>4, <2>1
<1>15. ~IoThrows
  BY DEF IoThrows
<1> QED BY <1>6, <1>7, <1>8, <1>9, <1>10, <1>11, <1>12, <1>13, <1>14, <1>15, NextSteps DEF IoStep

\* A running server listens, with exactly one accept outstanding or on its way through the
\* strand, as long as callers do not overtake one another and no handler throws.
THEOREM RunningServerAccepts ==
    ASSUME ~CallsOverlap, ~IoMayThrow
    PROVE  Spec => []RunningAccepts
<1>1. Init => RunningAccepts
  BY DEF Init, RunningAccepts
<1>2. FullInv /\ RunningAccepts /\ [Next]_vars => RunningAccepts'
  BY StepKeepsFull, StepKeepsAccept
<1> QED BY <1>1, <1>2, InitFull, StepKeepsFull, PTL DEF Spec

=============================================================================
