------------------------- MODULE AlertPipelineProofs -------------------------
(***************************************************************************)
(* Proofs about AlertPipeline and MetricsCollector for every set of rules, *)
(* every capacity, and every way the clock is read and set back.           *)
(***************************************************************************)
EXTENDS AlertPipeline, TLAPS

-----------------------------------------------------------------------------
(* A bounded history keeps its newest part, in order. *)

\* Appending to a sequence, and dropping its first element when it is too long.
LEMMA AppendTail ==
    ASSUME NEW S, NEW s \in Seq(S), NEW x \in S
    PROVE  /\ Append(s, x) \in Seq(S) /\ Len(Append(s, x)) = Len(s) + 1
           /\ \A i \in 1 .. Len(s) + 1 : Append(s, x)[i] = IF i = Len(s) + 1 THEN x ELSE s[i]
           /\ Tail(Append(s, x)) \in Seq(S) /\ Len(Tail(Append(s, x))) = Len(s)
           /\ \A i \in 1 .. Len(s) : Tail(Append(s, x))[i] = Append(s, x)[i + 1]
<1> DEFINE t == Append(s, x)
<1>1. t \in Seq(S) /\ Len(t) = Len(s) + 1 /\ t # <<>>
  OBVIOUS
<1>2. \A i \in 1 .. Len(s) + 1 : t[i] = IF i = Len(s) + 1 THEN x ELSE s[i]
  OBVIOUS
<1> HIDE DEF t
<1>3. /\ Tail(t) \in Seq(S) /\ Len(Tail(t)) = Len(s)
      /\ \A i \in 1 .. Len(s) : Tail(t)[i] = t[i + 1]
  BY <1>1
<1> QED BY <1>1, <1>2, <1>3 DEF t

\* The sampler's history.
LEMMA RecordFacts ==
    ASSUME NEW s \in Seq(Samples), NEW x \in Samples, Len(s) <= HistoryCapacity
    PROVE  /\ Record(s, x) \in Seq(Samples)
           /\ Len(Record(s, x)) \in 1 .. HistoryCapacity
           /\ Record(s, x)[Len(Record(s, x))] = x
           /\ \A i \in 2 .. Len(Record(s, x)) - 1 : \E j \in 2 .. Len(s) :
                 Record(s, x)[i] = s[j] /\ Record(s, x)[i - 1] = s[j - 1]
           /\ Len(Record(s, x)) > 1 =>
                 Len(s) > 0 /\ Record(s, x)[Len(Record(s, x)) - 1] = s[Len(s)]
<1> USE CollectorAssumption
<1> DEFINE t == Append(s, x)
<1>1. /\ t \in Seq(Samples) /\ Len(t) = Len(s) + 1
      /\ \A i \in 1 .. Len(s) + 1 : t[i] = IF i = Len(s) + 1 THEN x ELSE s[i]
      /\ Tail(t) \in Seq(Samples) /\ Len(Tail(t)) = Len(s)
      /\ \A i \in 1 .. Len(s) : Tail(t)[i] = t[i + 1]
  BY AppendTail
<1>2. Record(s, x) = IF Len(t) > HistoryCapacity THEN Tail(t) ELSE t
  BY DEF Record
<1>3. Len(s) \in Nat
  OBVIOUS
<1> HIDE DEF t
<1>4. CASE Len(t) > HistoryCapacity
  <2>1. Record(s, x) = Tail(t) /\ Len(s) = HistoryCapacity
    BY <1>1, <1>2, <1>3, <1>4
  <2>2. \A i \in 2 .. Len(s) - 1 :
           i + 1 \in 2 .. Len(s) /\ Tail(t)[i] = s[i + 1] /\ Tail(t)[i - 1] = s[(i + 1) - 1]
    BY <1>1, <1>3
  <2>3. Tail(t)[Len(s)] = x /\ (Len(s) > 1 => Tail(t)[Len(s) - 1] = s[Len(s)])
    BY <1>1, <1>3, <2>1
  <2> QED BY <1>1, <1>3, <2>1, <2>2, <2>3
<1>5. CASE ~(Len(t) > HistoryCapacity)
  <2>1. Record(s, x) = t
    BY <1>2, <1>5
  <2>2. \A i \in 2 .. Len(s) : t[i] = s[i] /\ t[i - 1] = s[i - 1]
    <3> TAKE i \in 2 .. Len(s)
    <3>1. /\ i \in 1 .. Len(s) + 1 /\ i # Len(s) + 1
          /\ i - 1 \in 1 .. Len(s) + 1 /\ i - 1 # Len(s) + 1
      BY <1>3
    <3> QED BY <1>1, <3>1
  <2>3. t[Len(s) + 1] = x /\ (Len(s) > 0 => t[(Len(s) + 1) - 1] = s[Len(s)])
    BY <1>1, <1>3
  <2> QED BY <1>1, <1>3, <1>5, <2>1, <2>2, <2>3
<1> QED BY <1>4, <1>5

\* The manager's resolved alerts.
LEMMA PushFacts ==
    ASSUME NEW s \in Seq(Resolved), NEW e \in Resolved,
           Len(s) <= (IF ResolvedCapacity = 0 THEN 1 ELSE ResolvedCapacity)
    PROVE  /\ PushResolved(s, e) \in Seq(Resolved)
           /\ Len(PushResolved(s, e)) \in
                 1 .. (IF ResolvedCapacity = 0 THEN 1 ELSE ResolvedCapacity)
           /\ PushResolved(s, e)[Len(PushResolved(s, e))] = e
           /\ \A i \in 1 .. Len(PushResolved(s, e)) - 1 :
                 \E j \in 1 .. Len(s) : PushResolved(s, e)[i] = s[j]
<1> USE AlertAssumption
<1> DEFINE t == Append(s, e)
           c == IF ResolvedCapacity = 0 THEN 1 ELSE ResolvedCapacity
<1>1. /\ t \in Seq(Resolved) /\ Len(t) = Len(s) + 1
      /\ \A i \in 1 .. Len(s) + 1 : t[i] = IF i = Len(s) + 1 THEN e ELSE s[i]
      /\ Tail(t) \in Seq(Resolved) /\ Len(Tail(t)) = Len(s)
      /\ \A i \in 1 .. Len(s) : Tail(t)[i] = t[i + 1]
  BY AppendTail
<1>2. PushResolved(s, e) = IF Len(t) > c THEN Tail(t) ELSE t
  BY DEF PushResolved
<1>3. Len(s) \in Nat /\ c \in Nat \ {0} /\ Len(s) <= c
  OBVIOUS
<1> HIDE DEF t, c
<1>4. CASE Len(t) > c
  <2>1. PushResolved(s, e) = Tail(t) /\ Len(s) = c
    BY <1>1, <1>2, <1>3, <1>4
  <2>2. \A i \in 1 .. Len(s) - 1 : i + 1 \in 1 .. Len(s) /\ Tail(t)[i] = s[i + 1]
    BY <1>1, <1>3
  <2>3. Tail(t)[Len(s)] = e
    BY <1>1, <1>3, <2>1
  <2> QED BY <1>1, <1>3, <2>1, <2>2, <2>3 DEF c
<1>5. CASE ~(Len(t) > c)
  <2>1. PushResolved(s, e) = t
    BY <1>2, <1>5
  <2>2. \A i \in 1 .. Len(t) - 1 : i \in 1 .. Len(s) /\ t[i] = s[i]
    BY <1>1, <1>3
  <2>3. t \in Seq(Resolved) /\ Len(t) \in 1 .. c /\ t[Len(t)] = e
    BY <1>1, <1>3, <1>5
  <2> QED BY <2>1, <2>2, <2>3 DEF c
<1> QED BY <1>4, <1>5

-----------------------------------------------------------------------------
(* The collector. *)

CollectorInv == CollectorTypeOK /\ BaselineIsLatest /\ LoadIsOfOneProcess

\* A published sample keeps the history in order if a load in it is measured
\* against the baseline, and the baseline is the sample's process or none.
LEMMA PublishKeeps ==
    ASSUME CollectorInv, NEW x \in Samples, Publish(x),
           baseline' = NoProcess \/ (x.available /\ baseline' = x.who /\ x.who \in Processes),
           x.cpu # "none" => baseline # NoProcess /\ baseline = x.who
    PROVE  CollectorInv'
<1> USE CollectorAssumption DEF CollectorInv
<1>1. samples \in Seq(Samples) /\ Len(samples) <= HistoryCapacity
  BY DEF CollectorTypeOK
<1>2. samples' = Record(samples, x)
  BY DEF Publish
<1>3. /\ samples' \in Seq(Samples)
      /\ Len(samples') \in 1 .. HistoryCapacity
      /\ samples'[Len(samples')] = x
      /\ \A i \in 2 .. Len(samples') - 1 : \E j \in 2 .. Len(samples) :
            samples'[i] = samples[j] /\ samples'[i - 1] = samples[j - 1]
      /\ Len(samples') > 1 =>
            Len(samples) > 0 /\ samples'[Len(samples') - 1] = samples[Len(samples)]
  <2> DEFINE r == Record(samples, x)
  <2>1. /\ r \in Seq(Samples)
        /\ Len(r) \in 1 .. HistoryCapacity
        /\ r[Len(r)] = x
        /\ \A i \in 2 .. Len(r) - 1 : \E j \in 2 .. Len(samples) :
              r[i] = samples[j] /\ r[i - 1] = samples[j - 1]
        /\ Len(r) > 1 => Len(samples) > 0 /\ r[Len(r) - 1] = samples[Len(samples)]
    BY <1>1, RecordFacts
  <2> QED BY <1>2, <2>1
<1>4. CollectorTypeOK'
  <2>1. baseline' \in Processes \cup {NoProcess}
    OBVIOUS
  <2> QED BY <1>3, <2>1 DEF CollectorTypeOK, Publish
<1>5. BaselineIsLatest'
  <2>1. samples' # <<>> /\ Latest' = x
    BY <1>3 DEF Latest
  <2> QED BY <2>1 DEF BaselineIsLatest
<1>6. LoadIsOfOneProcess'
  <2>1. SUFFICES ASSUME NEW i \in 1 .. Len(samples'), samples'[i].cpu # "none", i > 1
                 PROVE  samples'[i - 1].available /\ samples'[i - 1].who = samples'[i].who
    BY <1>3 DEF LoadIsOfOneProcess
  <2>2. CASE i = Len(samples')
    <3>1. samples'[i] = x /\ samples'[i - 1] = samples[Len(samples)] /\ Len(samples) > 0
      BY <1>3, <2>1, <2>2
    <3>2. samples # <<>> /\ Latest.available /\ Latest.who = x.who
      BY <2>1, <3>1 DEF BaselineIsLatest
    <3> QED BY <3>1, <3>2 DEF Latest
  <2>3. CASE i # Len(samples')
    <3>1. i \in 2 .. Len(samples') - 1
      BY <1>3, <2>1, <2>3
    <3>2. PICK j \in 2 .. Len(samples) :
             samples'[i] = samples[j] /\ samples'[i - 1] = samples[j - 1]
      BY <1>3, <3>1
    <3>3. j \in DOMAIN samples /\ j > 1
      BY <1>1
    <3> QED BY <2>1, <3>2, <3>3 DEF LoadIsOfOneProcess
  <2> QED BY <2>2, <2>3
<1> QED BY <1>4, <1>5, <1>6

\* Only processes answer.
LEMMA AnsweringType ==
    ASSUME CollectorTypeOK, listed # NoProcess
    PROVE  Answering \subseteq Processes
BY CollectorAssumption DEF CollectorTypeOK, Answering, Processes, Foreign

LEMMA CollectorKeeps ==
    ASSUME CollectorInv, Collector \/ Service
    PROVE  CollectorInv'
<1> USE CollectorAssumption
<1>1. CASE ListServices
  BY <1>1 DEF ListServices, CollectorInv, CollectorTypeOK, BaselineIsLatest,
              LoadIsOfOneProcess, Latest
<1>2. CASE CollectNothing
  <2>1. Unavailable \in Samples /\ Unavailable.cpu = "none"
    BY DEF Unavailable, Samples
  <2> QED BY <1>2, <2>1, PublishKeeps DEF CollectNothing
<1>3. CASE CollectProcess
  <2>1. PICK p \in Answering, cpu \in {"none", "hot", "cool"} : Sample(p, cpu)
    BY <1>3 DEF CollectProcess
  <2>2. p \in Processes
    BY <1>3, <2>1, AnsweringType DEF CollectorInv, CollectProcess
  <2> DEFINE x == [available |-> TRUE, cpu |-> cpu, who |-> p]
  <2>3. x \in Samples /\ x.available /\ x.who = p /\ x.cpu = cpu
    BY <2>1, <2>2 DEF Samples
  <2>4. cpu # "none" => baseline # NoProcess /\ baseline = p
    <3>1. baseline # NoProcess => baseline \in Processes
      BY DEF CollectorInv, CollectorTypeOK
    <3> QED BY <2>1, <2>2, <3>1 DEF Sample, SameProcess, Processes
  <2>5. Publish(x) /\ baseline' = p
    BY <2>1 DEF Sample
  <2> HIDE DEF x
  <2> QED BY <2>2, <2>3, <2>4, <2>5, PublishKeeps
<1>4. CASE Launch
  <2>1. PICK p \in Pids : process' = [pid |-> p, id |-> started + 1]
    BY <1>4 DEF Launch
  <2>2. process' \in Processes
    BY <1>4, <2>1 DEF Launch, Processes, CollectorInv, CollectorTypeOK
  <2> QED BY <1>4, <2>2 DEF Launch, CollectorInv, CollectorTypeOK, BaselineIsLatest,
                            LoadIsOfOneProcess, Latest
<1>5. CASE Die
  BY <1>5 DEF Die, CollectorInv, CollectorTypeOK, BaselineIsLatest, LoadIsOfOneProcess, Latest
<1>6. CASE LeaveRunning
  BY <1>6 DEF LeaveRunning, CollectorInv, CollectorTypeOK, BaselineIsLatest,
              LoadIsOfOneProcess, Latest
<1> QED BY <1>1, <1>2, <1>3, <1>4, <1>5, <1>6 DEF Collector, Service

LEMMA CollectorStutters ==
    ASSUME CollectorInv, UNCHANGED collectorVars
    PROVE  CollectorInv'
BY DEF collectorVars, CollectorInv, CollectorTypeOK, BaselineIsLatest, LoadIsOfOneProcess, Latest

-----------------------------------------------------------------------------
(* The clock and the monitor's cycle. *)

TimerInv == AlertTypeOK /\ CheckIsPast /\ TimersAreHonest /\ FiresAfterDuration

LEMMA ClockKeepsTimers ==
    ASSUME TimerInv, Tick \/ SetClockBack
    PROVE  TimerInv'
<1> USE AlertAssumption DEF TimerInv, AlertTypeOK, CheckIsPast, TimersAreHonest,
                            FiresAfterDuration, Times, cycleVars, alertVars
<1>1. CASE Tick
  BY <1>1 DEF Tick
<1>2. CASE SetClockBack
  BY <1>2 DEF SetClockBack
<1> QED BY <1>1, <1>2

LEMMA BeginCheckKeepsTimers ==
    ASSUME TimerInv, BeginCheck
    PROVE  TimerInv'
BY AlertAssumption DEF TimerInv, AlertTypeOK, CheckIsPast, TimersAreHonest, FiresAfterDuration,
                       Times, BeginCheck, clockVars, alertVars

\* What a cycle does with one rule.
LEMMA EvaluatedRule ==
    ASSUME TimerInv, Evaluate, NEW r \in Rules
    PROVE  /\ since'[r] \in Times \cup {NoTime} /\ metSince'[r] \in Nat \cup {NoTime}
           /\ since'[r] = NoTime <=> metSince'[r] = NoTime
           /\ since'[r] # NoTime => /\ metSince'[r] <= checkedFor
                                     /\ metSince'[r] - since'[r] <= checkedFor - checkedAt
           /\ Met <=> since'[r] # NoTime
<1> USE AlertAssumption DEF Times
<1>1. /\ since'[r] = Since(r)
      /\ metSince'[r] = IF ~Met THEN NoTime
                        ELSE IF metSince[r] = NoTime THEN checkedFor ELSE metSince[r]
      /\ phase = "evaluate"
  BY DEF Evaluate
<1>2. /\ checkedAt \in Times /\ checkedFor \in Nat
      /\ since[r] \in Times \cup {NoTime} /\ metSince[r] \in Nat \cup {NoTime}
  BY DEF TimerInv, AlertTypeOK
<1>3. /\ since[r] = NoTime <=> metSince[r] = NoTime
      /\ since[r] # NoTime => /\ metSince[r] <= checkedFor
                              /\ metSince[r] - since[r] <= checkedFor - checkedAt
  BY <1>1 DEF TimerInv, TimersAreHonest
<1>4. CASE ~Met
  BY <1>1, <1>4 DEF Since
<1>5. CASE Met
  <2>1. since'[r] = IF since[r] = NoTime \/ since[r] > checkedAt THEN checkedAt ELSE since[r]
    BY <1>1, <1>5 DEF Since
  <2>2. metSince'[r] = IF metSince[r] = NoTime THEN checkedFor ELSE metSince[r]
    BY <1>1, <1>5
  <2>3. checkedAt # NoTime /\ checkedFor # NoTime
    BY <1>2
  <2> QED BY <1>2, <1>3, <1>5, <2>1, <2>2, <2>3
<1> QED BY <1>4, <1>5

LEMMA EvaluateKeepsTimers ==
    ASSUME TimerInv, Evaluate
    PROVE  TimerInv'
<1> USE AlertAssumption DEF TimerInv
<1>1. /\ phase' = "apply" /\ todo' = Len(RuleOrder)
      /\ firing' = {r \in Rules : Met /\ checkedAt - since'[r] >= Duration[r]}
      /\ UNCHANGED <<clockVars, alertVars, checkedAt, checkedFor>>
  BY DEF Evaluate
<1>2. AlertTypeOK'
  <2>1. since' = [r \in Rules |-> since'[r]] /\ metSince' = [r \in Rules |-> metSince'[r]]
    BY DEF Evaluate
  <2>2. since' \in [Rules -> Times \cup {NoTime}] /\ metSince' \in [Rules -> Nat \cup {NoTime}]
    BY <2>1, EvaluatedRule
  <2>3. todo' \in 0 .. Len(RuleOrder) /\ firing' \subseteq Rules
    BY <1>1
  <2> QED BY <1>1, <2>2, <2>3 DEF AlertTypeOK, clockVars, alertVars
<1>3. CheckIsPast'
  BY <1>1 DEF CheckIsPast, clockVars
<1>4. TimersAreHonest'
  <2>1. /\ checkedFor - checkedAt <= setBack /\ checkedFor <= now + setBack
        /\ checkedFor \in Nat /\ checkedAt \in Nat /\ now \in Nat /\ setBack \in Nat
    BY DEF CheckIsPast, AlertTypeOK, Times
  <2>2. SUFFICES ASSUME NEW r \in Rules
                 PROVE  /\ since'[r] = NoTime <=> metSince'[r] = NoTime
                        /\ since'[r] # NoTime => /\ metSince'[r] <= now + setBack
                                                 /\ metSince'[r] - since'[r] <= setBack
    BY <1>1 DEF TimersAreHonest, clockVars
  <2>3. since'[r] # NoTime => since'[r] \in Nat /\ metSince'[r] \in Nat
    BY EvaluatedRule DEF Times
  <2> QED BY <2>1, <2>3, EvaluatedRule
<1>5. FiresAfterDuration'
  <2>1. SUFFICES ASSUME NEW r \in firing'
                 PROVE  metSince'[r] # NoTime /\ checkedFor - metSince'[r] >= Duration[r]
    BY <1>1 DEF FiresAfterDuration
  <2>2. r \in Rules /\ Met /\ checkedAt - since'[r] >= Duration[r]
    BY <1>1, <2>1
  <2>3. /\ since'[r] # NoTime /\ metSince'[r] # NoTime
        /\ metSince'[r] - since'[r] <= checkedFor - checkedAt
        /\ since'[r] \in Nat /\ metSince'[r] \in Nat
    BY <2>2, EvaluatedRule DEF Times
  <2>4. checkedFor \in Nat /\ checkedAt \in Nat /\ Duration[r] \in Nat
    BY <2>2 DEF AlertTypeOK, Times
  <2> QED BY <2>2, <2>3, <2>4
<1> QED BY <1>2, <1>3, <1>4, <1>5

-----------------------------------------------------------------------------
(* The alerts. *)

AlertsInv ==
    /\ active \in [Rules -> Alerts \cup {NoAlert}]
    /\ \A r \in Rules : active[r] # NoAlert =>
           active[r].rule = r /\ active[r].first <= active[r].last
    /\ resolved \in Seq(Resolved)
    /\ Len(resolved) <= (IF ResolvedCapacity = 0 THEN 1 ELSE ResolvedCapacity)
    /\ AcknowledgedAsAsked

\* One alert changes, and the resolved ones stay.
LEMMA OneAlertChanges ==
    ASSUME AlertsInv, NEW r \in Rules, NEW e \in Alerts \cup {NoAlert},
           active' = [active EXCEPT ![r] = e], UNCHANGED resolved,
           e # NoAlert => e.rule = r /\ e.first <= e.last /\ e.acknowledged = e.asked
    PROVE  AlertsInv'
<1>1. active' \in [Rules -> Alerts \cup {NoAlert}]
  BY DEF AlertsInv
<1>2. \A q \in Rules : active'[q] = IF q = r THEN e ELSE active[q]
  BY DEF AlertsInv
<1>3. \A q \in Rules : active'[q] # NoAlert =>
         /\ active'[q].rule = q /\ active'[q].first <= active'[q].last
         /\ active'[q].acknowledged = active'[q].asked
  BY <1>2 DEF AlertsInv, AcknowledgedAsAsked
<1> QED BY <1>1, <1>3 DEF AlertsInv, AcknowledgedAsAsked

LEMMA ResolveKeeps ==
    ASSUME AlertsInv, NEW r \in Rules, Resolve(r)
    PROVE  AlertsInv'
<1> DEFINE e == Kept(active[r])
<1>1. active[r] # NoAlert /\ active[r] \in Alerts /\ active[r].acknowledged = active[r].asked
  BY DEF Resolve, AlertsInv, AcknowledgedAsAsked
<1>2. e \in Resolved /\ e.acknowledged = e.asked
  BY <1>1 DEF Kept, Alerts, Resolved
<1>3. resolved' = resolved \/ resolved' = PushResolved(resolved, e)
  BY DEF Resolve
<1>4. /\ resolved \in Seq(Resolved)
      /\ Len(resolved) <= (IF ResolvedCapacity = 0 THEN 1 ELSE ResolvedCapacity)
      /\ \A i \in 1 .. Len(resolved) : resolved[i].acknowledged = resolved[i].asked
  BY DEF AlertsInv, AcknowledgedAsAsked
<1> HIDE DEF e
<1>5. /\ resolved' \in Seq(Resolved)
      /\ Len(resolved') <= (IF ResolvedCapacity = 0 THEN 1 ELSE ResolvedCapacity)
      /\ \A i \in 1 .. Len(resolved') : resolved'[i].acknowledged = resolved'[i].asked
  <2>1. CASE resolved' = resolved
    BY <1>4, <2>1
  <2>2. CASE resolved' = PushResolved(resolved, e)
    <3> DEFINE n == Len(resolved')
    <3>1. /\ resolved' \in Seq(Resolved)
          /\ n \in 1 .. (IF ResolvedCapacity = 0 THEN 1 ELSE ResolvedCapacity)
          /\ resolved'[n] = e
          /\ \A i \in 1 .. n - 1 : \E j \in 1 .. Len(resolved) : resolved'[i] = resolved[j]
      BY <1>2, <1>4, <2>2, PushFacts
    <3>2. \A i \in 1 .. n : i = n \/ i \in 1 .. n - 1
      BY <3>1, AlertAssumption
    <3>3. n <= (IF ResolvedCapacity = 0 THEN 1 ELSE ResolvedCapacity)
      BY <3>1, AlertAssumption
    <3> QED BY <1>2, <1>4, <3>1, <3>2, <3>3
  <2> QED BY <1>3, <2>1, <2>2
<1>6. /\ active' \in [Rules -> Alerts \cup {NoAlert}]
      /\ \A q \in Rules : active'[q] = IF q = r THEN NoAlert ELSE active[q]
  BY DEF Resolve, AlertsInv
<1>7. \A q \in Rules : active'[q] # NoAlert =>
         /\ active'[q].rule = q /\ active'[q].first <= active'[q].last
         /\ active'[q].acknowledged = active'[q].asked
  BY <1>6 DEF AlertsInv, AcknowledgedAsAsked
<1>8. DOMAIN resolved' = 1 .. Len(resolved')
  BY <1>5
<1> QED BY <1>5, <1>6, <1>7, <1>8 DEF AlertsInv, AcknowledgedAsAsked

LEMMA ApplyKeeps ==
    ASSUME AlertsInv, AlertTypeOK, CheckIsPast, NEW r \in Rules,
           Create(r) \/ Update(r) \/ Resolve(r) \/ Idle(r)
    PROVE  AlertsInv'
<1> USE AlertAssumption
<1>1. /\ checkedAt \in Times /\ setBack \in 0 .. MaxSetBack /\ checkedFor \in Nat
      /\ checkedFor - checkedAt \in 0 .. MaxSetBack
  BY DEF AlertTypeOK, CheckIsPast, Times
<1>2. CASE Create(r)
  <2> DEFINE e == [rule |-> r, first |-> checkedAt, last |-> checkedAt,
                   acknowledged |-> FALSE, asked |-> FALSE, setBack |-> checkedFor - checkedAt]
  <2>1. e \in Alerts /\ e.rule = r /\ e.first <= e.last /\ e.acknowledged = e.asked
    BY <1>1 DEF Alerts, Times
  <2>2. active' = [active EXCEPT ![r] = e] /\ UNCHANGED resolved
    BY <1>2 DEF Create
  <2> HIDE DEF e
  <2> QED BY <2>1, <2>2, OneAlertChanges
<1>3. CASE Update(r)
  <2> DEFINE u == [active[r] EXCEPT !.last = checkedAt, !.setBack = checkedFor - checkedAt]
             e == IF checkedAt < active[r].first THEN NoAlert ELSE u
  <2>1. /\ active[r] \in Alerts /\ active[r].rule = r
        /\ active[r].acknowledged = active[r].asked
    BY <1>3 DEF Update, AlertsInv, AcknowledgedAsAsked
  <2>a. u \in Alerts
    BY <1>1, <2>1 DEF Alerts, Times
  <2>b. u.rule = r /\ u.acknowledged = u.asked /\ u.first = active[r].first /\ u.last = checkedAt
    <3>1. /\ u.rule = active[r].rule /\ u.first = active[r].first /\ u.last = checkedAt
          /\ u.acknowledged = active[r].acknowledged /\ u.asked = active[r].asked
      BY <2>1 DEF Alerts
    <3> QED BY <2>1, <3>1
  <2>c. active[r].first \in Nat /\ checkedAt \in Nat
    BY <1>1, <2>1 DEF Alerts, Times
  <2> HIDE DEF u
  <2>2. /\ e \in Alerts \cup {NoAlert}
        /\ e # NoAlert => e.rule = r /\ e.first <= e.last /\ e.acknowledged = e.asked
    <3>1. CASE checkedAt < active[r].first
      BY <3>1
    <3>2. CASE ~(checkedAt < active[r].first)
      BY <2>a, <2>b, <2>c, <3>2
    <3> QED BY <3>1, <3>2
  <2>3. active' = [active EXCEPT ![r] = e] /\ UNCHANGED resolved
    BY <1>3 DEF Update, AlertsInv, u
  <2> HIDE DEF e
  <2> QED BY <2>2, <2>3, OneAlertChanges
<1>4. CASE Resolve(r)
  BY <1>4, ResolveKeeps
<1>5. CASE Idle(r)
  BY <1>5 DEF Idle, alertVars, AlertsInv, AcknowledgedAsAsked
<1> QED BY <1>2, <1>3, <1>4, <1>5

LEMMA AcknowledgeKeeps ==
    ASSUME AlertsInv, Acknowledge
    PROVE  AlertsInv'
<1>1. PICK r \in Rules : AcknowledgeActive(r) \/ AcknowledgeResolved(r)
  BY DEF Acknowledge
<1>2. CASE AcknowledgeActive(r)
  <2> DEFINE e == Marked(active[r])
  <2>1. active[r] \in Alerts /\ active[r].rule = r /\ active[r].first <= active[r].last
    BY <1>2 DEF AcknowledgeActive, AlertsInv
  <2>2. e \in Alerts /\ e.rule = r /\ e.first <= e.last /\ e.acknowledged = e.asked
    BY <2>1 DEF Marked, Alerts
  <2>3. active' = [active EXCEPT ![r] = e] /\ UNCHANGED resolved
    BY <1>2 DEF AcknowledgeActive, AlertsInv
  <2> HIDE DEF e
  <2> QED BY <2>2, <2>3, OneAlertChanges
<1>3. CASE AcknowledgeResolved(r)
  <2>1. PICK i \in DOMAIN resolved : resolved' = [resolved EXCEPT ![i] = Marked(resolved[i])]
    BY <1>3 DEF AcknowledgeResolved
  <2> DEFINE e == Marked(resolved[i])
  <2>2. /\ resolved \in Seq(Resolved) /\ i \in 1 .. Len(resolved)
        /\ resolved[i] \in Resolved
    BY <2>1 DEF AlertsInv
  <2>3. e \in Resolved /\ e.acknowledged = e.asked
    BY <2>2 DEF Marked, Resolved
  <2>4. resolved' = [resolved EXCEPT ![i] = e]
    BY <2>1
  <2> HIDE DEF e
  <2>5. /\ resolved' \in Seq(Resolved) /\ Len(resolved') = Len(resolved)
        /\ \A j \in 1 .. Len(resolved) : resolved'[j] = IF j = i THEN e ELSE resolved[j]
    BY <2>2, <2>3, <2>4
  <2>6. \A j \in 1 .. Len(resolved) : resolved[j].acknowledged = resolved[j].asked
    BY <2>2 DEF AlertsInv, AcknowledgedAsAsked
  <2>7. \A j \in DOMAIN resolved' : resolved'[j].acknowledged = resolved'[j].asked
    BY <2>3, <2>5, <2>6
  <2>8. UNCHANGED active
    BY <1>3 DEF AcknowledgeResolved
  <2> QED BY <2>5, <2>7, <2>8 DEF AlertsInv, AcknowledgedAsAsked
<1> QED BY <1>1, <1>2, <1>3

-----------------------------------------------------------------------------
(* The specification. *)

\* What an apply step, the end of a cycle and an acknowledgement leave alone.
LEMMA TimersStay ==
    ASSUME TimerInv, AlertsInv', UNCHANGED <<clockVars, since, metSince>>,
           \/ UNCHANGED <<checkedAt, checkedFor, phase>>
           \/ phase = "apply" /\ phase' = "wait" /\ checkedAt' = 0 /\ checkedFor' = 0,
           firing' \subseteq firing, todo' \in 0 .. Len(RuleOrder)
    PROVE  TimerInv'
BY AlertAssumption DEF TimerInv, AlertsInv, AlertTypeOK, CheckIsPast, TimersAreHonest,
                       FiresAfterDuration, Times, clockVars

LEMMA PipelineInit == Init => PipelineInv
<1> USE CollectorAssumption, AlertAssumption
<1> SUFFICES ASSUME Init PROVE PipelineInv
  OBVIOUS
<1>1. CollectorInv
  BY DEF Init, CollectorInit, CollectorInv, CollectorTypeOK, BaselineIsLatest, LoadIsOfOneProcess
<1>2. AlertTypeOK /\ CheckIsPast /\ TimersAreHonest /\ FiresAfterDuration /\ AcknowledgedAsAsked
  BY DEF Init, AlertTypeOK, CheckIsPast, TimersAreHonest, FiresAfterDuration,
         AcknowledgedAsAsked, Times, Rules
<1> QED BY <1>1, <1>2 DEF PipelineInv, TypeOK, CollectorInv

LEMMA PipelineStep == PipelineInv /\ [Next]_vars => PipelineInv'
<1> USE AlertAssumption
<1> SUFFICES ASSUME PipelineInv, [Next]_vars PROVE PipelineInv'
  OBVIOUS
<1>1. CollectorInv /\ TimerInv /\ AlertsInv
  BY DEF PipelineInv, TypeOK, CollectorInv, TimerInv, AlertTypeOK, AlertsInv
<1>2. CollectorInv'
  <2>1. \/ Collector \/ Service
        \/ UNCHANGED collectorVars
    BY DEF Next, CollectorStep, ServiceStep, Monitor, BeginCheck, Evaluate, ApplyNext, EndCheck,
           Acknowledge, Tick, SetClockBack, vars
  <2> QED BY <1>1, <2>1, CollectorKeeps, CollectorStutters
<1>3. TimerInv' /\ AlertsInv'
  <2>1. CASE UNCHANGED <<clockVars, cycleVars, alertVars>>
    BY <1>1, <2>1 DEF clockVars, cycleVars, alertVars, TimerInv, AlertTypeOK, CheckIsPast,
       TimersAreHonest, FiresAfterDuration, AlertsInv, AcknowledgedAsAsked
  <2>2. ASSUME UNCHANGED alertVars PROVE AlertsInv'
    BY <1>1, <2>2 DEF alertVars, AlertsInv, AcknowledgedAsAsked
  <2>3. CASE Tick \/ SetClockBack
    BY <1>1, <2>2, <2>3, ClockKeepsTimers DEF Tick, SetClockBack
  <2>4. CASE BeginCheck
    BY <1>1, <2>2, <2>4, BeginCheckKeepsTimers DEF BeginCheck
  <2>5. CASE Evaluate
    BY <1>1, <2>2, <2>5, EvaluateKeepsTimers DEF Evaluate
  <2>6. CASE ApplyNext
    <3> DEFINE r == RuleOrder[Len(RuleOrder) - todo + 1]
    <3>1. todo \in 1 .. Len(RuleOrder)
      BY <1>1, <2>6 DEF ApplyNext, TimerInv, AlertTypeOK
    <3>2. r \in Rules
      BY <3>1 DEF Rules
    <3>3. /\ Create(r) \/ Update(r) \/ Resolve(r) \/ Idle(r)
          /\ firing' = firing \ {r} /\ todo' = todo - 1
          /\ UNCHANGED <<clockVars, checkedAt, since, phase, checkedFor, metSince>>
      BY <2>6 DEF ApplyNext
    <3>4. AlertsInv'
      BY <1>1, <3>2, <3>3, ApplyKeeps DEF TimerInv
    <3>5. todo' \in 0 .. Len(RuleOrder) /\ firing' \subseteq firing
      BY <3>1, <3>3
    <3> QED BY <1>1, <3>3, <3>4, <3>5, TimersStay
  <2>7. CASE EndCheck
    <3>1. AlertsInv'
      BY <2>2, <2>7 DEF EndCheck
    <3>2. todo \in 0 .. Len(RuleOrder)
      BY <1>1 DEF TimerInv, AlertTypeOK
    <3> QED BY <1>1, <2>7, <3>1, <3>2, TimersStay DEF EndCheck
  <2>8. CASE Acknowledge
    <3>1. AlertsInv'
      BY <1>1, <2>8, AcknowledgeKeeps
    <3>2. todo \in 0 .. Len(RuleOrder)
      BY <1>1 DEF TimerInv, AlertTypeOK
    <3> QED BY <1>1, <2>8, <3>1, <3>2, TimersStay DEF Acknowledge, cycleVars
  <2> QED BY <2>1, <2>3, <2>4, <2>5, <2>6, <2>7, <2>8
       DEF Next, CollectorStep, ServiceStep, Monitor, vars
<1> QED BY <1>2, <1>3 DEF PipelineInv, TypeOK, CollectorInv, TimerInv, AlertsInv

LEMMA PipelineCorrect == Spec => []PipelineInv
BY PipelineInit, PipelineStep, PTL DEF Spec

(* Every variable of the pipeline keeps its type; an alert's times are in   *)
(* order, and both bounded histories stay within their capacities.          *)
THEOREM PipelineTypes == Spec => []TypeOK
<1>1. PipelineInv => TypeOK
  BY DEF PipelineInv
<1> QED BY <1>1, PipelineCorrect, PTL

(* No processor load is ever measured across two processes, whatever pids   *)
(* the kernel reuses.                                                       *)
THEOREM LoadsAreOfOneProcess == Spec => []LoadIsOfOneProcess
<1>1. PipelineInv => LoadIsOfOneProcess
  BY DEF PipelineInv
<1> QED BY <1>1, PipelineCorrect, PTL

(* No rule fires before its duration, however often the clock is set back.  *)
THEOREM RulesFireAfterDuration == Spec => []FiresAfterDuration
<1>1. PipelineInv => FiresAfterDuration
  BY DEF PipelineInv
<1> QED BY <1>1, PipelineCorrect, PTL

(* An alert is acknowledged exactly when a request reached it.              *)
THEOREM AcknowledgementsAreExact == Spec => []AcknowledgedAsAsked
<1>1. PipelineInv => AcknowledgedAsAsked
  BY DEF PipelineInv
<1> QED BY <1>1, PipelineCorrect, PTL

-----------------------------------------------------------------------------
(* What becomes of an alert that goes. *)

\* Nothing but a step of ApplyEvaluations changes when an alert was triggered last.
LEMMA TriggersStay ==
    ASSUME AlertsInv, UNCHANGED alertVars \/ Acknowledge, NEW r \in Rules
    PROVE  /\ active'[r] = NoAlert <=> active[r] = NoAlert
           /\ active[r] # NoAlert => /\ active'[r].last = active[r].last
                                     /\ active'[r].setBack = active[r].setBack
<1>1. CASE UNCHANGED alertVars
  BY <1>1 DEF alertVars
<1>2. CASE Acknowledge
  <2>1. PICK q \in Rules : AcknowledgeActive(q) \/ AcknowledgeResolved(q)
    BY <1>2 DEF Acknowledge
  <2>2. CASE AcknowledgeResolved(q)
    BY <2>2 DEF AcknowledgeResolved
  <2>3. CASE AcknowledgeActive(q)
    <3> DEFINE e == Marked(active[q])
    <3>1. active[q] \in Alerts /\ active[q] # NoAlert
      BY <2>3 DEF AcknowledgeActive, AlertsInv
    <3>2. e \in Alerts /\ e.last = active[q].last /\ e.setBack = active[q].setBack
      BY <3>1 DEF Marked, Alerts
    <3>3. active' = [active EXCEPT ![q] = e]
      BY <2>3 DEF AcknowledgeActive, AlertsInv
    <3>4. active'[r] = IF r = q THEN e ELSE active[r]
      BY <3>3 DEF AlertsInv
    <3> HIDE DEF e
    <3> QED BY <3>1, <3>2, <3>4, NoAlertAssumption
  <2> QED BY <2>1, <2>2, <2>3
<1> QED BY <1>1, <1>2

\* What a step of ApplyEvaluations does to one alert.
LEMMA AppliedAlert ==
    ASSUME AlertsInv, AlertTypeOK, CheckIsPast, AlertsArePast, phase = "apply",
           NEW q \in Rules, Create(q) \/ Update(q) \/ Resolve(q) \/ Idle(q),
           NEW r \in Rules
    PROVE  /\ active'[r] # NoAlert =>
                 active'[r].last + active'[r].setBack <= checkedFor
           /\ active[r] # NoAlert /\ active'[r] = NoAlert =>
                 \/ resolved' # <<>> /\ resolved'[Len(resolved')] = Kept(active[r])
                 \/ checkedFor - checkedAt > active[r].setBack
<1> USE AlertAssumption, NoAlertAssumption
<1>1. /\ checkedAt \in Nat /\ checkedFor \in Nat
      /\ active[r] # NoAlert =>
            /\ active[r].first \in Nat /\ active[r].last \in Nat /\ active[r].setBack \in Nat
            /\ active[r].first <= active[r].last
            /\ active[r].last + active[r].setBack <= checkedFor
            /\ active[r] \in Alerts
  BY DEF AlertTypeOK, AlertsInv, AlertsArePast, Times, Alerts
<1>2. CASE r # q
  <2>1. active'[r] = active[r]
    BY <1>2 DEF Create, Update, Resolve, Idle, alertVars, AlertsInv
  <2> QED BY <1>1, <2>1
<1>3. CASE Create(r)
  <2> DEFINE e == [rule |-> r, first |-> checkedAt, last |-> checkedAt,
                   acknowledged |-> FALSE, asked |-> FALSE, setBack |-> checkedFor - checkedAt]
  <2>1. active'[r] = e /\ active[r] = NoAlert
    BY <1>3 DEF Create, AlertsInv
  <2>2. e.last = checkedAt /\ e.setBack = checkedFor - checkedAt
    OBVIOUS
  <2> HIDE DEF e
  <2> QED BY <1>1, <2>1, <2>2
<1>4. CASE Update(r)
  <2> DEFINE u == [active[r] EXCEPT !.last = checkedAt, !.setBack = checkedFor - checkedAt]
  <2>1. active[r] # NoAlert
    BY <1>4 DEF Update
  <2>2. active'[r] = IF checkedAt < active[r].first THEN NoAlert ELSE u
    BY <1>4 DEF Update, AlertsInv
  <2>3. u.last = checkedAt /\ u.setBack = checkedFor - checkedAt
    BY <1>1, <2>1 DEF Alerts
  <2>4. u \in Alerts
    <3>1. checkedAt \in Times /\ checkedFor - checkedAt \in 0 .. MaxSetBack
      BY DEF AlertTypeOK, CheckIsPast
    <3> QED BY <1>1, <2>1, <3>1 DEF Alerts
  <2> HIDE DEF u
  <2> QED BY <1>1, <2>1, <2>2, <2>3, <2>4
<1>5. CASE Resolve(r)
  <2>1. active[r] # NoAlert /\ active'[r] = NoAlert
    BY <1>5 DEF Resolve, AlertsInv
  <2>2. CASE checkedAt >= active[r].last
    <3> DEFINE e == Kept(active[r])
    <3>1. resolved' = PushResolved(resolved, e)
      BY <1>5, <2>2 DEF Resolve
    <3>2. e \in Resolved
      BY <1>1, <2>1 DEF Kept, Alerts, Resolved
    <3>3. /\ resolved \in Seq(Resolved)
          /\ Len(resolved) <= (IF ResolvedCapacity = 0 THEN 1 ELSE ResolvedCapacity)
      BY DEF AlertsInv
    <3> HIDE DEF e
    <3>4. Len(resolved') >= 1 /\ resolved'[Len(resolved')] = e
      BY <3>1, <3>2, <3>3, PushFacts
    <3>5. resolved' # <<>>
      BY <3>4
    <3> QED BY <2>1, <3>4, <3>5 DEF e
  <2>3. CASE ~(checkedAt >= active[r].last)
    BY <1>1, <2>1, <2>3
  <2> QED BY <2>2, <2>3
<1>6. CASE Idle(r)
  BY <1>6 DEF Idle, alertVars
<1> QED BY <1>2, <1>3, <1>4, <1>5, <1>6

LEMMA AlertsPastStep ==
    PipelineInv /\ AlertsArePast /\ [Next]_vars
        => /\ AlertsArePast'
           /\ [\A r \in Rules :
                  active[r] # NoAlert /\ active'[r] = NoAlert =>
                      \/ resolved' # <<>> /\ resolved'[Len(resolved')] = Kept(active[r])
                      \/ checkedFor - checkedAt > active[r].setBack]_vars
<1> USE AlertAssumption
<1> DEFINE Sound == \A r \in Rules :
                        active[r] # NoAlert /\ active'[r] = NoAlert =>
                            \/ resolved' # <<>> /\ resolved'[Len(resolved')] = Kept(active[r])
                            \/ checkedFor - checkedAt > active[r].setBack
<1> SUFFICES ASSUME PipelineInv, AlertsArePast, [Next]_vars PROVE AlertsArePast' /\ Sound
  OBVIOUS
<1>1. AlertTypeOK /\ CheckIsPast /\ AlertsInv
  BY DEF PipelineInv, TypeOK, AlertTypeOK, AlertsInv
<1>2. CASE ApplyNext
  <2> DEFINE q == RuleOrder[Len(RuleOrder) - todo + 1]
  <2>1. q \in Rules
    BY <1>1, <1>2 DEF ApplyNext, AlertTypeOK, Rules
  <2>2. /\ Create(q) \/ Update(q) \/ Resolve(q) \/ Idle(q)
        /\ phase = "apply" /\ phase' = "apply" /\ checkedFor' = checkedFor
    BY <1>2 DEF ApplyNext
  <2> HIDE DEF q
  <2> QED BY <1>1, <2>1, <2>2, AppliedAlert DEF AlertsArePast
<1>3. CASE UNCHANGED alertVars \/ Acknowledge
  <2>1. Sound
    BY <1>1, <1>3, TriggersStay
  <2>2. ASSUME NEW r \in Rules, active[r] # NoAlert
        PROVE  active[r].last + active[r].setBack \in Nat
    BY <1>1, <2>2 DEF AlertsInv, Alerts, Times
  <2>3. LET t  == IF phase = "wait" THEN now + setBack ELSE checkedFor
        IN  t \in Nat /\ t' \in Nat /\ t <= t'
    <3>1. /\ now \in Nat /\ setBack \in Nat /\ checkedFor \in Nat
          /\ checkedFor <= now + setBack
      BY <1>1 DEF AlertTypeOK, CheckIsPast, Times
    <3>2. CASE Tick \/ SetClockBack
      BY <3>1, <3>2 DEF Tick, SetClockBack, cycleVars
    <3>3. CASE BeginCheck \/ EndCheck \/ Evaluate
      BY <3>1, <3>3 DEF BeginCheck, EndCheck, Evaluate, clockVars
    <3>4. CASE UNCHANGED <<clockVars, cycleVars>>
      BY <3>1, <3>4 DEF clockVars, cycleVars
    <3>5. \/ Tick \/ SetClockBack \/ BeginCheck \/ EndCheck \/ Evaluate \/ ApplyNext
          \/ UNCHANGED <<clockVars, cycleVars>>
      BY DEF Next, CollectorStep, ServiceStep, Monitor, Acknowledge, vars
    <3>6. CASE ApplyNext
      BY <3>1, <3>6 DEF ApplyNext, clockVars
    <3> QED BY <3>2, <3>3, <3>4, <3>5, <3>6
  <2> QED BY <1>1, <1>3, <2>1, <2>2, <2>3, TriggersStay DEF AlertsArePast
<1>4. ApplyNext \/ Acknowledge \/ UNCHANGED alertVars
  BY DEF Next, CollectorStep, ServiceStep, Monitor, BeginCheck, Evaluate, EndCheck, Tick,
         SetClockBack, vars
<1> QED BY <1>2, <1>3, <1>4

(* An alert that goes is the newest resolved one, unless the clock was set  *)
(* back since it was last triggered.                                        *)
THEOREM LossesNeedClockBack == Spec => LossNeedsClockBack
<1>1. Init => AlertsArePast
  BY DEF Init, AlertsArePast
<1> QED BY <1>1, AlertsPastStep, PipelineCorrect, PTL DEF Spec, LossNeedsClockBack

=============================================================================
