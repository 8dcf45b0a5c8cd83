------------------------ MODULE RecoveryManagerProofs ------------------------
(***************************************************************************)
(* Proofs about RecoveryManager for every policy, every set of services    *)
(* and every way the clock may read.                                       *)
(***************************************************************************)
EXTENDS RecoveryManagerInv, SequenceTheorems, FiniteSetTheorems, WellFoundedInduction,
        TLAPS

-----------------------------------------------------------------------------
(* What HasRestartBudgetLocked's loop pops. *)

\* A non-empty set of naturals has a least element.
LEMMA NatHasMin ==
    ASSUME NEW T, T \subseteq Nat, T # {}
    PROVE  \E x \in T : \A y \in T : x <= y
<1> DEFINE R == OpToRel(<, Nat)
<1>1. IsWellFoundedOn(R, Nat)
  BY NatLessThanWellFounded
<1>2. \A x, y \in Nat : <<y, x>> \in R <=> y < x
  BY DEF OpToRel
<1> HIDE DEF R
<1>3. PICK x \in T : \A y \in T : ~(<<y, x>> \in R)
  BY <1>1, WFMin
<1>4. \A y \in T : ~(y < x)
  BY <1>2, <1>3, Zenon
<1> QED BY <1>4

\* The loop pops expired attempts only, and stops at one that still counts.
LEMMA PoppedFacts ==
    ASSUME NEW seq \in Seq(Nat), NEW t \in Nat
    PROVE  /\ Popped(seq, t) \in 0 .. Len(seq)
           /\ \A i \in 1 .. Popped(seq, t) : Expired(seq[i], t)
           /\ Popped(seq, t) < Len(seq) => ~Expired(seq[Popped(seq, t) + 1], t)
<1> DEFINE Stops(n) == /\ \A i \in 1 .. n : Expired(seq[i], t)
                       /\ n < Len(seq) => ~Expired(seq[n + 1], t)
           Live == {i \in 1 .. Len(seq) : ~Expired(seq[i], t)}
<1>1. \E n \in 0 .. Len(seq) : Stops(n)
  <2>1. CASE Live = {}
    <3>1. Stops(Len(seq))
      BY <2>1
    <3> QED BY <3>1
  <2>2. CASE Live # {}
    <3>1. Live \subseteq Nat
      OBVIOUS
    <3>2. PICK m \in Live : \A y \in Live : m <= y
      BY <2>2, <3>1, NatHasMin
    <3>3. m \in 1 .. Len(seq) /\ ~Expired(seq[m], t)
      BY <3>2
    <3>4. \A i \in 1 .. m - 1 : Expired(seq[i], t)
      <4> TAKE i \in 1 .. m - 1
      <4>1. i \in 1 .. Len(seq) /\ ~(m <= i)
        BY <3>3
      <4>2. i \notin Live
        BY <3>2, <4>1, Zenon
      <4> QED BY <4>1, <4>2
    <3>5. m - 1 \in 0 .. Len(seq) /\ (m - 1) + 1 = m
      BY <3>3
    <3>6. Stops(m - 1)
      BY <3>3, <3>4, <3>5
    <3> QED BY <3>5, <3>6
  <2> QED BY <2>1, <2>2
<1>2. Popped(seq, t) = CHOOSE n \in 0 .. Len(seq) : Stops(n)
  BY DEF Popped
<1> HIDE DEF Stops
<1>3. Popped(seq, t) \in 0 .. Len(seq) /\ Stops(Popped(seq, t))
  BY <1>1, <1>2, Zenon
<1> QED BY <1>3 DEF Stops

\* What is left is the newest part of the attempts.
LEMMA InWindowFacts ==
    ASSUME NEW seq \in Seq(Nat), NEW t \in Nat
    PROVE  /\ InWindow(seq, t) \in Seq(Nat)
           /\ Len(InWindow(seq, t)) = Len(seq) - Popped(seq, t)
           /\ \A i \in 1 .. Len(InWindow(seq, t)) :
                 InWindow(seq, t)[i] = seq[Popped(seq, t) + i]
<1> DEFINE n == Popped(seq, t)
<1>1. n \in 0 .. Len(seq)
  BY PoppedFacts
<1>2. InWindow(seq, t) = SubSeq(seq, n + 1, Len(seq))
  BY DEF InWindow
<1>3. \A i \in n + 1 .. Len(seq) : seq[i] \in Nat
  BY <1>1
<1> HIDE DEF n
<1>4. /\ SubSeq(seq, n + 1, Len(seq)) \in Seq(Nat)
      /\ Len(SubSeq(seq, n + 1, Len(seq)))
           = IF n + 1 <= Len(seq) THEN Len(seq) - (n + 1) + 1 ELSE 0
      /\ \A i \in 1 .. Len(seq) - (n + 1) + 1 :
            SubSeq(seq, n + 1, Len(seq))[i] = seq[(n + 1) + i - 1]
  BY <1>1, <1>3, SubSeqProperties
<1>5. /\ InWindow(seq, t) \in Seq(Nat)
      /\ Len(InWindow(seq, t)) = Len(seq) - n
      /\ \A i \in 1 .. Len(InWindow(seq, t)) : InWindow(seq, t)[i] = seq[n + i]
  BY <1>1, <1>2, <1>4
<1> QED BY <1>5 DEF n

\* An attempt over the limit stays where it is: a pop always leaves budget.
LEMMA NothingPopped ==
    ASSUME NEW seq \in Seq(Nat), NEW t \in Nat,
           Len(seq) <= MaxRestarts, ~(Len(InWindow(seq, t)) < MaxRestarts)
    PROVE  InWindow(seq, t) = seq
<1> USE PolicyAssumption
<1>1. Popped(seq, t) = 0
  <2>1. /\ Popped(seq, t) \in 0 .. Len(seq)
        /\ Len(InWindow(seq, t)) = Len(seq) - Popped(seq, t)
    BY PoppedFacts, InWindowFacts
  <2> QED BY <2>1
<1>2. InWindow(seq, t) = SubSeq(seq, 1, Len(seq))
  BY <1>1 DEF InWindow
<1> QED BY <1>2, SubSeqFull

-----------------------------------------------------------------------------
(* Types *)

\* The state of the policy has its types.
THEOREM PolicyTypeCorrect == PolicySpec => []PolicyTypeOK
<1> USE PolicyAssumption, ClockAssumption, NoTimeAssumption, NoServiceAssumption
<1>1. PolicyInit => PolicyTypeOK
  BY DEF PolicyInit, PolicyTypeOK, Times
<1>2. PolicyTypeOK /\ [PolicyNext]_policyVars => PolicyTypeOK'
  <2> SUFFICES ASSUME PolicyTypeOK, [PolicyNext]_policyVars PROVE PolicyTypeOK'
    OBVIOUS
  <2> USE DEF PolicyTypeOK
  <2>1. ASSUME NEW s \in Services, NEW health \in Healths, NEW critical \in BOOLEAN,
               NEW desired \in {"stopped", "running"}, NEW t \in Clock,
               Evaluate(s, health, critical, desired, t)
        PROVE  PolicyTypeOK'
    <3>2. InWindow(attempts[s], t) \in Seq(Nat)
      BY InWindowFacts
    <3>3. CASE EvaluateIdle(s, health, critical, desired)
      BY <3>3 DEF EvaluateIdle, Note
    <3>4. CASE EvaluateSuppressed(s, health, critical, desired, t)
      BY <3>2, <3>4 DEF EvaluateSuppressed, Note, Trim, Times
    <3>5. CASE EvaluateRestart(s, health, critical, desired, t)
      BY <3>2, <3>5 DEF EvaluateRestart, Note, Trim
    <3> QED BY <2>1, <3>3, <3>4, <3>5 DEF Evaluate
  <2>2. ASSUME NEW ok \in BOOLEAN, RecordRestartAttempt(ok) PROVE PolicyTypeOK'
    BY <2>2 DEF RecordRestartAttempt, Times
  <2>3. ASSUME NEW s \in Services, ForgetService(s) PROVE PolicyTypeOK'
    BY <2>3 DEF ForgetService, Times
  <2>4. CASE Clear
    BY <2>4 DEF Clear, Times
  <2>5. CASE UNCHANGED policyVars
    BY <2>5 DEF policyVars
  <2> QED BY <2>1, <2>2, <2>3, <2>4, <2>5 DEF PolicyNext
<1> QED BY <1>1, <1>2, PTL DEF PolicySpec

-----------------------------------------------------------------------------
(* The limits *)

\* What the provers need to know of a sequence of times.
LEMMA TimesFacts ==
    ASSUME NEW q \in Seq(Nat)
    PROVE  /\ Len(q) \in Nat /\ DOMAIN q = 1 .. Len(q)
           /\ q = <<>> <=> Len(q) = 0
           /\ \A i \in 1 .. Len(q) : q[i] \in Nat
<1>1. q = <<>> <=> Len(q) = 0
  BY EmptySeq
<1> QED BY <1>1

\* A service without attempts satisfies its part of the invariant.
LEMMA NoAttempts ==
    ASSUME NEW s \in Services, history[s] = <<>>, attempts[s] = <<>>, acting # s
    PROVE  ServiceInv(s)
<1> USE PolicyAssumption
<1>1. Len(history[s]) = 0 /\ Len(attempts[s]) = 0 /\ Gone(s) = 0
  BY DEF Gone
<1> QED BY <1>1 DEF ServiceInv, AttemptsAreRecent, DeadlinesFollow, DecisionIsSound,
                    GoneHaveExpired, NewestCounts

\* The policy's part of a step on one service leaves the others alone.
LEMMA OtherServices ==
    ASSUME PolicyIInv, PolicyTypeOK', NEW s \in Services,
           history'[s] = history[s], attempts'[s] = attempts[s],
           nextAllowed'[s] = nextAllowed[s], graceUntil'[s] = graceUntil[s],
           acting # s, acting' # s
    PROVE  ServiceInv(s)'
BY DEF PolicyIInv, ServiceInv, AttemptsAreRecent, DeadlinesFollow, DecisionIsSound,
       GoneHaveExpired, NewestCounts, Gone

\* A decision to restart s at t keeps what the popped attempts have in common.
LEMMA DecisionKeepsInv ==
    ASSUME PolicyIInv, NEW s \in Services, NEW t \in Nat,
           acting = NoService, acting' = s, actingAt' = t, PolicyTypeOK',
           ~IsInStartupGrace(s, t), ~IsInBackoff(s, t), HasRestartBudget(s, t),
           attempts'[s] = InWindow(attempts[s], t),
           UNCHANGED <<nextAllowed, graceUntil, history>>
    PROVE  ServiceInv(s)'
<1> USE PolicyAssumption, NoTimeAssumption, NoServiceAssumption
<1> DEFINE a == attempts[s]
           h == history[s]
           n == Popped(a, t)
<1>1. a \in Seq(Nat) /\ h \in Seq(Nat) /\ nextAllowed[s] \in Times /\ graceUntil[s] \in Times
  BY DEF PolicyIInv, PolicyTypeOK
<1>2. /\ n \in 0 .. Len(a)
      /\ \A i \in 1 .. n : a[i] + Window < t
  BY <1>1, PoppedFacts DEF Expired
<1>3. /\ attempts'[s] \in Seq(Nat)
      /\ Len(attempts'[s]) = Len(a) - n
      /\ \A i \in 1 .. Len(a) - n : attempts'[s][i] = a[n + i]
  BY <1>1, InWindowFacts
<1>4. /\ Len(a) \in 0 .. MaxRestarts /\ Len(a) <= Len(h)
      /\ \A i \in 1 .. Len(a) : a[i] = h[Len(h) - Len(a) + i]
      /\ \A i \in 1 .. Len(h) - Len(a) : h[i] + Window < h[Len(h)]
      /\ h # <<>> => /\ nextAllowed[s] = h[Len(h)] + Backoff
                     /\ graceUntil[s] = h[Len(h)] + Grace
  BY DEF PolicyIInv, ServiceInv, AttemptsAreRecent, GoneHaveExpired, DeadlinesFollow, Gone
<1>5. Len(a) - n < MaxRestarts
  BY <1>1, InWindowFacts DEF HasRestartBudget
<1>6. h # <<>> => nextAllowed[s] <= t /\ graceUntil[s] <= t
  BY <1>1, <1>4 DEF IsInStartupGrace, IsInBackoff, Times
<1>11. /\ Len(a) \in Nat /\ Len(h) \in Nat /\ (h = <<>> <=> Len(h) = 0)
       /\ \A i \in 1 .. Len(h) : h[i] \in Nat
       /\ \A i \in 1 .. Len(a) : a[i] \in Nat
  BY <1>1, TimesFacts
<1>0. /\ history'[s] = h /\ history[s] = h /\ attempts[s] = a
      /\ nextAllowed'[s] = nextAllowed[s] /\ graceUntil'[s] = graceUntil[s]
  OBVIOUS
<1> HIDE DEF n, a, h
<1>7. \A i \in 1 .. Len(h) - (Len(a) - n) : h[i] + Window < t
  <2> TAKE i \in 1 .. Len(h) - (Len(a) - n)
  <2>1. CASE i <= Len(h) - Len(a)
    <3>1. h # <<>> /\ h[i] + Window < h[Len(h)] /\ h[Len(h)] \in Nat /\ h[i] \in Nat
      BY <1>11, <1>2, <1>4, <2>1
    <3>2. h[Len(h)] <= t
      BY <1>4, <1>6, <3>1
    <3> QED BY <1>1, <3>1, <3>2
  <2>2. CASE i > Len(h) - Len(a)
    <3>1. i - (Len(h) - Len(a)) \in 1 .. n
      BY <1>1, <1>2, <1>4, <2>2
    <3>2. h[i] = a[i - (Len(h) - Len(a))]
      BY <1>1, <1>2, <1>4, <3>1
    <3> QED BY <1>2, <3>1, <3>2
  <2> QED BY <1>1, <1>2, <1>4, <2>1, <2>2
<1>8. AttemptsAreRecent(s)'
  <2>1. \A i \in 1 .. Len(a) - n : attempts'[s][i] = h[Len(h) - (Len(a) - n) + i]
    <3> TAKE i \in 1 .. Len(a) - n
    <3>1. n + i \in 1 .. Len(a) /\ Len(h) - Len(a) + (n + i) = Len(h) - (Len(a) - n) + i
      BY <1>11, <1>2
    <3>2. attempts'[s][i] = a[n + i]
      BY <1>3
    <3>3. a[n + i] = h[Len(h) - Len(a) + (n + i)]
      BY <1>4, <3>1
    <3> QED BY <3>1, <3>2, <3>3
  <2>2. /\ Len(attempts'[s]) \in 0 .. MaxRestarts
        /\ Len(attempts'[s]) <= Len(h)
    BY <1>11, <1>2, <1>3, <1>4
  <2>3. Gone(s)' = Len(h) - (Len(a) - n)
    BY <1>0, <1>3 DEF Gone
  <2>4. \A i \in 1 .. Len(attempts'[s]) : attempts'[s][i] = history'[s][Gone(s)' + i]
    BY <1>0, <1>3, <2>1, <2>3
  <2> QED BY <1>0, <2>2, <2>4 DEF AttemptsAreRecent
<1>9. DecisionIsSound(s)' /\ DeadlinesFollow(s)' /\ NewestCounts(s)'
  BY <1>0, <1>1, <1>2, <1>3, <1>4, <1>5, <1>6 DEF DecisionIsSound, DeadlinesFollow, NewestCounts
<1>10. GoneHaveExpired(s)'
  BY <1>0, <1>1, <1>2, <1>3, <1>4, <1>7 DEF GoneHaveExpired, Gone
<1> QED BY <1>8, <1>9, <1>10 DEF ServiceInv

\* Recording the attempt keeps the limits, and starts the next period.
LEMMA RecordKeepsInv ==
    ASSUME PolicyIInv, PolicyTypeOK', NEW ok \in BOOLEAN, RecordRestartAttempt(ok),
           NEW s \in Services, s = acting
    PROVE  /\ ServiceInv(s)'
           /\ AttemptsSpaced'
           /\ BudgetHolds'
<1> USE PolicyAssumption, NoTimeAssumption, NoServiceAssumption
<1> DEFINE a == attempts[s]
           h == history[s]
           t == actingAt
           L == Len(h)
<1>1. /\ s \in Services /\ a \in Seq(Nat) /\ h \in Seq(Nat) /\ t \in Nat
      /\ attempts \in [Services -> Seq(Nat)] /\ history \in [Services -> Seq(Nat)]
      /\ nextAllowed \in [Services -> Times] /\ graceUntil \in [Services -> Times]
  BY DEF PolicyIInv, PolicyTypeOK, RecordRestartAttempt
<1>2. /\ Len(a) \in 0 .. MaxRestarts - 1 /\ Len(a) <= L
      /\ \A i \in 1 .. Len(a) : a[i] = h[L - Len(a) + i]
      /\ \A i \in 1 .. L - Len(a) : h[i] + Window < t
      /\ h # <<>> => h[L] + Backoff <= t /\ h[L] + Grace <= t
  BY <1>1 DEF PolicyIInv, ServiceInv, AttemptsAreRecent, GoneHaveExpired, DeadlinesFollow,
              DecisionIsSound, Gone
<1>3. /\ attempts'[s] = Append(a, t) /\ history'[s] = Append(h, t)
      /\ nextAllowed'[s] = t + Backoff /\ graceUntil'[s] = t + Grace
      /\ acting' = NoService
      /\ \A r \in Services \ {s} : history'[r] = history[r]
  BY <1>1 DEF RecordRestartAttempt
<1>4. /\ Len(attempts'[s]) = Len(a) + 1 /\ Len(history'[s]) = L + 1
      /\ \A i \in 1 .. Len(a) : attempts'[s][i] = a[i]
      /\ attempts'[s][Len(a) + 1] = t
      /\ \A i \in 1 .. L : history'[s][i] = h[i]
      /\ history'[s][L + 1] = t
      /\ DOMAIN history'[s] = 1 .. L + 1
  BY <1>1, <1>3
<1>6. \A i, j \in 1 .. L : i < j => h[i] + Backoff <= h[j] /\ h[i] + Grace <= h[j]
  BY <1>1 DEF PolicyIInv, AttemptsSpaced
<1>10. /\ L \in Nat /\ L = Len(h) /\ Len(a) \in Nat /\ (h = <<>> <=> L = 0)
       /\ \A i \in 1 .. L : h[i] \in Nat
       /\ DOMAIN h = 1 .. L
       /\ s \in Services /\ t \in Nat /\ history[s] = h /\ acting' # s
       /\ history'[s] # <<>> /\ attempts'[s] # <<>>
  <2>1. h \in Seq(Nat) /\ a \in Seq(Nat) /\ t \in Nat
    BY <1>1
  <2>2. Append(h, t) # <<>> /\ Append(a, t) # <<>>
    <3> HIDE DEF a, h, t
    <3> QED BY <2>1, AppendProperties
  <2> QED BY <1>1, <1>3, <2>2, TimesFacts
<1>11. \A i \in 1 .. L : i + MaxRestarts \in 1 .. L => h[i] + Window < h[i + MaxRestarts]
  <2>1. \A i \in DOMAIN h : i + MaxRestarts \in DOMAIN h => h[i] + Window < h[i + MaxRestarts]
    BY <1>1 DEF PolicyIInv, BudgetHolds
  <2> QED BY <1>10, <2>1
<1> HIDE DEF a, h, t, L
<1>5. ServiceInv(s)'
  <2>1. AttemptsAreRecent(s)'
    <3>1. (L + 1) - (Len(a) + 1) = L - Len(a)
      BY <1>10
    <3>2. \A i \in 1 .. Len(a) : attempts'[s][i] = history'[s][L - Len(a) + i]
      <4> TAKE i \in 1 .. Len(a)
      <4>1. L - Len(a) + i \in 1 .. L
        BY <1>2, <1>10
      <4>2. history'[s][L - Len(a) + i] = h[L - Len(a) + i]
        BY <1>4, <4>1
      <4>3. attempts'[s][i] = a[i] /\ a[i] = h[L - Len(a) + i]
        BY <1>2, <1>4
      <4> QED BY <4>2, <4>3
    <3>3. attempts'[s][Len(a) + 1] = history'[s][L - Len(a) + (Len(a) + 1)]
      BY <1>4, <1>10
    <3>4. \A i \in 1 .. Len(a) + 1 : attempts'[s][i] = history'[s][L - Len(a) + i]
      <4> TAKE i \in 1 .. Len(a) + 1
      <4>1. i \in 1 .. Len(a) \/ i = Len(a) + 1
        BY <1>10
      <4> QED BY <3>2, <3>3, <4>1
    <3>5. Len(a) + 1 \in 0 .. MaxRestarts /\ Len(a) + 1 <= L + 1
      BY <1>2, <1>10
    <3>6. Gone(s)' = L - Len(a)
      BY <1>4, <3>1 DEF Gone
    <3>7. \A i \in 1 .. Len(attempts'[s]) : attempts'[s][i] = history'[s][Gone(s)' + i]
      BY <1>4, <3>4, <3>6
    <3> QED BY <1>4, <3>5, <3>7 DEF AttemptsAreRecent
  <2>2. DeadlinesFollow(s)' /\ DecisionIsSound(s)' /\ NewestCounts(s)'
    BY <1>3, <1>4, <1>10 DEF DeadlinesFollow, DecisionIsSound, NewestCounts
  <2>3. GoneHaveExpired(s)'
    <3>1. Gone(s)' = L - Len(a)
      BY <1>4, <1>10 DEF Gone
    <3>2. \A i \in 1 .. L - Len(a) : history'[s][i] = h[i] /\ h[i] + Window < t
      BY <1>2, <1>4, <1>10
    <3>3. history'[s][Len(history'[s])] = t
      BY <1>4
    <3> QED BY <1>10, <3>1, <3>2, <3>3 DEF GoneHaveExpired
  <2> QED BY <2>1, <2>2, <2>3 DEF ServiceInv
<1>7. \A i \in 1 .. L : h[i] + Backoff <= t /\ h[i] + Grace <= t
  <2> TAKE i \in 1 .. L
  <2>1. h[i] \in Nat /\ h[L] \in Nat /\ h # <<>>
    BY <1>1, <1>10
  <2>2. i # L => h[i] + Backoff <= h[L] /\ h[i] + Grace <= h[L]
    BY <1>6, <1>10
  <2> QED BY <1>10, <1>2, <2>1, <2>2
<1>8. AttemptsSpaced'
  <2>1. \A i, j \in 1 .. L + 1 : i < j =>
           /\ history'[s][i] + Backoff <= history'[s][j]
           /\ history'[s][i] + Grace <= history'[s][j]
    <3> TAKE i, j \in 1 .. L + 1
    <3> HAVE i < j
    <3>1. i \in 1 .. L /\ (j \in 1 .. L \/ j = L + 1)
      BY <1>10
    <3> QED BY <1>4, <1>6, <1>7, <3>1
  <2> QED BY <1>1, <1>3, <1>4, <2>1 DEF PolicyIInv, AttemptsSpaced
<1>9. BudgetHolds'
  <2>2. \A i \in 1 .. L : i + MaxRestarts = L + 1 => h[i] + Window < t
    BY <1>1, <1>2, <1>10
  <2>3. \A i \in 1 .. L + 1 : i + MaxRestarts \in 1 .. L + 1 =>
           history'[s][i] + Window < history'[s][i + MaxRestarts]
    BY <1>4, <1>10, <1>11, <2>2
  <2> QED BY <1>1, <1>3, <1>4, <2>3 DEF PolicyIInv, BudgetHolds
<1> QED BY <1>5, <1>8, <1>9

\* PolicyIInv is an invariant of the policy.
THEOREM PolicyInvariant == PolicySpec => []PolicyIInv
<1> USE PolicyAssumption, ClockAssumption, NoTimeAssumption, NoServiceAssumption
<1>1. PolicyInit => PolicyIInv
  <2> SUFFICES ASSUME PolicyInit PROVE PolicyIInv
    OBVIOUS
  <2>1. PolicyTypeOK
    BY DEF PolicyInit, PolicyTypeOK, Times
  <2>2. \A s \in Services : history[s] = <<>> /\ attempts[s] = <<>> /\ acting # s
    BY DEF PolicyInit
  <2>3. AttemptsSpaced /\ BudgetHolds
    BY <2>2 DEF AttemptsSpaced, BudgetHolds
  <2>4. \A s \in Services : ServiceInv(s)
    BY <2>2, NoAttempts
  <2> QED BY <2>1, <2>3, <2>4 DEF PolicyIInv
<1>2. PolicyTypeOK' /\ PolicyIInv /\ [PolicyNext]_policyVars => PolicyIInv'
  <2> SUFFICES ASSUME PolicyTypeOK', PolicyIInv, [PolicyNext]_policyVars
               PROVE  PolicyIInv'
    OBVIOUS
  <2>0. PolicyTypeOK
    BY DEF PolicyIInv
  <2>8. ASSUME history' = history PROVE AttemptsSpaced' /\ BudgetHolds'
    BY <2>8 DEF PolicyIInv, AttemptsSpaced, BudgetHolds
  <2>1. ASSUME NEW s \in Services, NEW health \in Healths, NEW critical \in BOOLEAN,
               NEW desired \in {"stopped", "running"}, NEW t \in Clock,
               Evaluate(s, health, critical, desired, t)
        PROVE  PolicyIInv'
    <3>1. CASE EvaluateIdle(s, health, critical, desired)
      <4>1. \A r \in Services : ServiceInv(r)'
        BY <3>1, OtherServices DEF EvaluateIdle, MutexIsFree
      <4> QED BY <2>8, <3>1, <4>1 DEF EvaluateIdle, PolicyIInv
    <3>2. CASE EvaluateSuppressed(s, health, critical, desired, t)
      <4>1. attempts'[s] = attempts[s]
        <5>1. CASE AsksBudget(s, health, t)
          <6>1. ~(Len(InWindow(attempts[s], t)) < MaxRestarts)
            BY <3>2, <5>1 DEF EvaluateSuppressed, Suppressed, AsksBudget, HasRestartBudget
          <6>2. attempts[s] \in Seq(Nat) /\ Len(attempts[s]) <= MaxRestarts
            BY DEF PolicyIInv, PolicyTypeOK, ServiceInv, AttemptsAreRecent
          <6>3. InWindow(attempts[s], t) = attempts[s]
            BY <6>1, <6>2, NothingPopped
          <6> QED BY <2>0, <3>2, <5>1, <6>3 DEF EvaluateSuppressed, Trim, PolicyTypeOK
        <5>2. CASE ~AsksBudget(s, health, t)
          BY <3>2, <5>2 DEF EvaluateSuppressed, Trim
        <5> QED BY <5>1, <5>2
      <4>2. \A r \in Services : attempts'[r] = attempts[r]
        BY <2>0, <3>2, <4>1 DEF EvaluateSuppressed, Trim, PolicyTypeOK
      <4>3. \A r \in Services : ServiceInv(r)'
        BY <3>2, <4>2, OtherServices DEF EvaluateSuppressed, MutexIsFree
      <4> QED BY <2>8, <3>2, <4>3 DEF EvaluateSuppressed, PolicyIInv
    <3>3. CASE EvaluateRestart(s, health, critical, desired, t)
      <4>1. /\ AsksBudget(s, health, t) /\ HasRestartBudget(s, t)
            /\ ~IsInStartupGrace(s, t) /\ ~IsInBackoff(s, t)
        BY <3>3 DEF EvaluateRestart, Suppressed, AsksBudget
      <4>2. /\ attempts'[s] = InWindow(attempts[s], t)
            /\ \A r \in Services \ {s} : attempts'[r] = attempts[r]
        BY <2>0, <3>3, <4>1 DEF EvaluateRestart, Trim, PolicyTypeOK
      <4>3. ServiceInv(s)'
        BY <3>3, <4>1, <4>2, DecisionKeepsInv DEF EvaluateRestart, MutexIsFree
      <4>4. \A r \in Services \ {s} : ServiceInv(r)'
        BY <3>3, <4>2, OtherServices DEF EvaluateRestart, MutexIsFree
      <4> QED BY <2>8, <3>3, <4>3, <4>4 DEF EvaluateRestart, PolicyIInv
    <3> QED BY <2>1, <3>1, <3>2, <3>3 DEF Evaluate
  <2>2. ASSUME NEW ok \in BOOLEAN, RecordRestartAttempt(ok) PROVE PolicyIInv'
    <3>1. PICK s \in Services : s = acting
      BY <2>0, <2>2 DEF RecordRestartAttempt, PolicyTypeOK
    <3>4. ServiceInv(s)' /\ AttemptsSpaced' /\ BudgetHolds'
      BY <2>2, <3>1, RecordKeepsInv
    <3>2. \A r \in Services \ {s} : ServiceInv(r)'
      BY <2>0, <2>2, <3>1, OtherServices DEF RecordRestartAttempt, PolicyTypeOK
    <3> QED BY <3>2, <3>4 DEF PolicyIInv
  <2>3. ASSUME NEW s \in Services, ForgetService(s) PROVE PolicyIInv'
    <3>1. history'[s] = <<>> /\ attempts'[s] = <<>> /\ acting' # s
      BY <2>0, <2>3 DEF ForgetService, MutexIsFree, PolicyTypeOK
    <3>2. ServiceInv(s)'
      BY <3>1 DEF ServiceInv, AttemptsAreRecent, DeadlinesFollow, DecisionIsSound,
                  GoneHaveExpired, NewestCounts, Gone
    <3>3. \A r \in Services \ {s} : history'[r] = history[r] /\ ServiceInv(r)'
      BY <2>0, <2>3, OtherServices DEF ForgetService, MutexIsFree, PolicyTypeOK
    <3>4. AttemptsSpaced' /\ BudgetHolds'
      BY <3>1, <3>3 DEF PolicyIInv, AttemptsSpaced, BudgetHolds
    <3> QED BY <3>2, <3>3, <3>4 DEF PolicyIInv
  <2>4. CASE Clear
    <3>1. \A s \in Services : history'[s] = <<>> /\ attempts'[s] = <<>> /\ acting' # s
      BY <2>4 DEF Clear, MutexIsFree
    <3>2. AttemptsSpaced' /\ BudgetHolds'
      BY <3>1 DEF AttemptsSpaced, BudgetHolds
    <3>3. ASSUME NEW s \in Services PROVE ServiceInv(s)'
      <4>1. history'[s] = <<>> /\ attempts'[s] = <<>> /\ acting' # s
        BY <3>1
      <4> QED BY <4>1 DEF ServiceInv, AttemptsAreRecent, DeadlinesFollow, DecisionIsSound,
                          GoneHaveExpired, NewestCounts, Gone
    <3> QED BY <3>2, <3>3 DEF PolicyIInv
  <2>5. CASE UNCHANGED policyVars
    BY <2>5 DEF policyVars, PolicyIInv, PolicyTypeOK, AttemptsSpaced, BudgetHolds,
                ServiceInv, AttemptsAreRecent, DeadlinesFollow, DecisionIsSound,
                GoneHaveExpired, NewestCounts, Gone
  <2> QED BY <2>1, <2>2, <2>3, <2>4, <2>5 DEF PolicyNext
<1> QED BY <1>1, <1>2, PolicyTypeCorrect, PTL DEF PolicySpec

\* Never more than max_restarts attempts in window_seconds, whatever the clock does.
THEOREM BudgetIsKept == PolicySpec => []BudgetHolds
<1>1. PolicyIInv => BudgetHolds
  BY DEF PolicyIInv
<1> QED BY <1>1, PolicyInvariant, PTL

\* Attempts are a backoff and a grace period apart, whatever the clock does.
THEOREM SpacingIsKept == PolicySpec => []AttemptsSpaced
<1>1. PolicyIInv => AttemptsSpaced
  BY DEF PolicyIInv
<1> QED BY <1>1, PolicyInvariant, PTL

-----------------------------------------------------------------------------
(* The journal *)

\* What ForgetService leaves has as many entries as are kept, and each of them is
\* a kept one, standing where its rank says.
LEMMA WithoutFacts ==
    ASSUME NEW q \in Seq(Entries), NEW s
    PROVE  /\ IsFiniteSet(Kept(q, s)) /\ Cardinality(Kept(q, s)) \in 0 .. Len(q)
           /\ Without(q, s) \in Seq(Entries)
           /\ Len(Without(q, s)) = Cardinality(Kept(q, s))
           /\ \A j \in 1 .. Cardinality(Kept(q, s)) :
                 \E i \in Kept(q, s) : Rank(q, s, i) = j /\ Without(q, s)[j] = q[i]
           /\ \A i, k \in Kept(q, s) : i < k => Rank(q, s, i) < Rank(q, s, k)
           /\ \A i \in Kept(q, s) : Rank(q, s, i) \in 1 .. Cardinality(Kept(q, s))
           /\ \A i \in Kept(q, s) : i + 1 \in Kept(q, s)
                 => Rank(q, s, i + 1) = Rank(q, s, i) + 1
<1> DEFINE K == Kept(q, s)
           Upto(i) == {k \in K : k <= i}
           N == Cardinality(K)
<1>1. /\ Len(q) \in Nat /\ DOMAIN q = 1 .. Len(q)
      /\ \A i \in 1 .. Len(q) : q[i] \in Entries
  OBVIOUS
<1>2. K \subseteq 1 .. Len(q) /\ IsFiniteSet(1 .. Len(q)) /\ Cardinality(1 .. Len(q)) = Len(q)
  <2>1. /\ IsFiniteSet(1 .. Len(q))
        /\ Cardinality(1 .. Len(q)) = IF 1 > Len(q) THEN 0 ELSE Len(q) - 1 + 1
    BY <1>1, FS_Interval
  <2> QED BY <1>1, <2>1 DEF Kept
<1>3. IsFiniteSet(K) /\ N \in 0 .. Len(q)
  <2>1. IsFiniteSet(K) /\ N <= Len(q)
    BY <1>2, FS_Subset
  <2>2. N \in Nat
    BY <2>1, FS_CardinalityType
  <2> QED BY <1>1, <2>1, <2>2
<1>4. \A i : Rank(q, s, i) = Cardinality(Upto(i))
  BY DEF Rank
<1>5. \A i : IsFiniteSet(Upto(i)) /\ Cardinality(Upto(i)) \in Nat /\ Cardinality(Upto(i)) <= N
  <2> TAKE i
  <2>1. Upto(i) \in SUBSET K
    OBVIOUS
  <2>2. IsFiniteSet(Upto(i)) /\ Cardinality(Upto(i)) <= N
    BY <1>3, <2>1, FS_Subset
  <2>3. Cardinality(Upto(i)) \in Nat
    BY <2>2, FS_CardinalityType
  <2> QED BY <2>2, <2>3
<1>6. \A i, k \in K : i < k => Cardinality(Upto(i)) < Cardinality(Upto(k))
  <2> TAKE i, k \in K
  <2> HAVE i < k
  <2>1. Upto(i) \in SUBSET Upto(k) /\ k \in Upto(k) /\ k \notin Upto(i)
    BY <1>2
  <2>2. /\ Cardinality(Upto(i)) <= Cardinality(Upto(k))
        /\ Cardinality(Upto(k)) = Cardinality(Upto(i)) => Upto(k) = Upto(i)
    BY <1>5, <2>1, FS_Subset
  <2>3. Cardinality(Upto(i)) \in Nat /\ Cardinality(Upto(k)) \in Nat
    BY <1>5
  <2> QED BY <2>1, <2>2, <2>3
<1>7. \A i \in Nat : Cardinality(Upto(i + 1))
                        = Cardinality(Upto(i)) + (IF i + 1 \in K THEN 1 ELSE 0)
  <2> TAKE i \in Nat
  <2>1. CASE i + 1 \in K
    <3>1. Upto(i + 1) = Upto(i) \cup {i + 1} /\ i + 1 \notin Upto(i)
      BY <1>2, <2>1
    <3> HIDE DEF Upto
    <3> QED BY <1>5, <2>1, <3>1, FS_AddElement
  <2>2. CASE i + 1 \notin K
    <3>1. Upto(i + 1) = Upto(i)
      BY <1>2, <2>2
    <3>2. Cardinality(Upto(i)) \in Nat
      BY <1>5
    <3> HIDE DEF Upto
    <3> QED BY <2>2, <3>1, <3>2
  <2> QED BY <2>1, <2>2
<1>8. Cardinality(Upto(0)) = 0 /\ Upto(Len(q)) = K
  <2>1. Upto(0) = {} /\ Upto(Len(q)) = K
    BY <1>2
  <2> QED BY <2>1, FS_EmptySet
<1>9. ASSUME NEW i \in K PROVE Cardinality(Upto(i)) \in 1 .. N
  <2>1. i \in Upto(i)
    BY <1>2
  <2>2. Cardinality(Upto(i)) # 0
    BY <1>5, <2>1, FS_EmptySet
  <2>3. Cardinality(Upto(i)) \in Nat /\ Cardinality(Upto(i)) <= N
    BY <1>5
  <2> HIDE DEF Upto, N
  <2> QED BY <2>2, <2>3
<1>10. ASSUME NEW j \in 1 .. N PROVE \E i \in K : Cardinality(Upto(i)) = j
  <2> DEFINE T == {i \in 0 .. Len(q) : Cardinality(Upto(i)) >= j}
  <2>0. Len(q) \in 0 .. Len(q) /\ Cardinality(Upto(Len(q))) >= j
    <3>1. Cardinality(Upto(Len(q))) = N
      BY <1>8
    <3> HIDE DEF Upto, N
    <3> QED BY <1>1, <1>3, <3>1
  <2>1. T \subseteq Nat /\ Len(q) \in T
    BY <2>0
  <2>2. PICK m \in T : \A y \in T : m <= y
    BY <2>1, NatHasMin
  <2>3. m \in 0 .. Len(q) /\ Cardinality(Upto(m)) >= j /\ m # 0
    <3>1. m \in 0 .. Len(q) /\ Cardinality(Upto(m)) >= j
      OBVIOUS
    <3> HIDE DEF Upto, T
    <3> QED BY <1>8, <3>1
  <2>4. m - 1 \in 0 .. Len(q) /\ m - 1 \in Nat /\ (m - 1) + 1 = m /\ m - 1 \notin T
    BY <1>1, <2>2, <2>3
  <2>5. ~(Cardinality(Upto(m - 1)) >= j)
    BY <2>4
  <2>6. Cardinality(Upto(m)) = Cardinality(Upto(m - 1)) + (IF m \in K THEN 1 ELSE 0)
    BY <1>7, <2>4
  <2>7. Cardinality(Upto(m - 1)) \in Nat
    BY <1>5
  <2> HIDE DEF Upto, T, K
  <2>8. m \in K /\ Cardinality(Upto(m)) = j
    BY <2>3, <2>5, <2>6, <2>7
  <2> QED BY <2>8
<1>11. ASSUME NEW j \in 1 .. N
       PROVE  \E i \in K : Rank(q, s, i) = j /\ Without(q, s)[j] = q[i]
  <2>1. \E i \in K : Rank(q, s, i) = j
    BY <1>4, <1>10
  <2> DEFINE c == CHOOSE i \in K : Rank(q, s, i) = j
  <2>2. c \in K /\ Rank(q, s, c) = j
    BY <2>1
  <2>3. Without(q, s)[j] = q[c]
    BY DEF Without
  <2> QED BY <2>2, <2>3
<1>12. DOMAIN Without(q, s) = 1 .. N
  BY DEF Without
<1>13. Without(q, s) \in Seq(Entries) /\ Len(Without(q, s)) = N
  <2>1. \A j \in 1 .. N : Without(q, s)[j] \in Entries
    BY <1>1, <1>2, <1>11
  <2>2. Without(q, s) = [j \in 1 .. N |-> Without(q, s)[j]]
    BY DEF Without
  <2> HIDE DEF N
  <2>3. Without(q, s) \in [1 .. N -> Entries] /\ N \in Nat
    BY <1>3, <2>1, <2>2
  <2> QED BY <2>3
<1>14. \A i \in K : i + 1 \in K => Cardinality(Upto(i + 1)) = Cardinality(Upto(i)) + 1
  <2> TAKE i \in K
  <2>1. i \in Nat
    BY <1>2
  <2> HIDE DEF Upto, K
  <2> QED BY <1>7, <2>1
<1> HIDE DEF Upto
<1> QED BY <1>3, <1>4, <1>6, <1>9, <1>11, <1>13, <1>14

\* The journal keeps the newest entries: all of them move down by one if it was full.
LEMMA PushFacts ==
    ASSUME NEW q \in Seq(Entries), Len(q) <= EventCapacity, NEW e \in Entries
    PROVE  /\ Push(q, e) \in Seq(Entries) /\ Len(Push(q, e)) \in 1 .. EventCapacity
           /\ Push(q, e)[Len(Push(q, e))] = e
           /\ \E d \in {0, 1} : /\ Len(Push(q, e)) = Len(q) - d + 1
                                /\ \A i \in 1 .. Len(q) - d : Push(q, e)[i] = q[i + d]
<1> USE PolicyAssumption
<1>1. CASE Len(q) < EventCapacity
  <2>1. Push(q, e) = Append(q, e)
    BY <1>1 DEF Push
  <2>2. /\ Append(q, e) \in Seq(Entries) /\ Len(Append(q, e)) = Len(q) + 1
        /\ \A i \in 1 .. Len(q) : Append(q, e)[i] = q[i]
        /\ Append(q, e)[Len(q) + 1] = e
    OBVIOUS
  <2>3. /\ Len(Append(q, e)) = Len(q) - 0 + 1
        /\ \A i \in 1 .. Len(q) - 0 : Append(q, e)[i] = q[i + 0]
    BY <2>2
  <2>4. Len(Append(q, e)) \in 1 .. EventCapacity /\ Append(q, e)[Len(Append(q, e))] = e
    BY <1>1, <2>2
  <2> QED BY <2>1, <2>2, <2>3, <2>4
<1>2. CASE ~(Len(q) < EventCapacity)
  <2> DEFINE r == Tail(q)
  <2>1. Push(q, e) = Append(r, e)
    BY <1>2 DEF Push
  <2>2. Len(q) = EventCapacity /\ q # <<>>
    BY <1>2
  <2>3. r \in Seq(Entries) /\ Len(r) = Len(q) - 1 /\ \A i \in 1 .. Len(q) - 1 : r[i] = q[i + 1]
    BY <2>2, HeadTailProperties
  <2> HIDE DEF r
  <2>4. /\ Append(r, e) \in Seq(Entries) /\ Len(Append(r, e)) = Len(r) + 1
        /\ \A i \in 1 .. Len(r) : Append(r, e)[i] = r[i]
        /\ Append(r, e)[Len(r) + 1] = e
    BY <2>3
  <2>5. /\ Len(Append(r, e)) = Len(q) - 1 + 1
        /\ \A i \in 1 .. Len(q) - 1 : Append(r, e)[i] = q[i + 1]
    BY <2>3, <2>4
  <2>6. Len(Append(r, e)) \in 1 .. EventCapacity /\ Append(r, e)[Len(Append(r, e))] = e
    BY <2>2, <2>3, <2>4
  <2> QED BY <2>1, <2>4, <2>5, <2>6
<1> QED BY <1>1, <1>2

\* Entry i of a journal is the start of a restart, and the next one its outcome.
Paired(q, i) ==
    /\ i + 1 \in 1 .. Len(q)
    /\ q[i + 1].type \in {"succeeded", "failed"}
    /\ q[i + 1].service = q[i].service
    /\ q[i + 1].at = q[i].at

\* JournalPairs, said with Paired.
LEMMA PairsAre ==
    JournalPairs <=>
        /\ events \in Seq(Entries) /\ Len(events) <= EventCapacity
        /\ \A i \in 1 .. Len(events) : events[i].type = "started" =>
              \/ i = Len(events) /\ acting = events[i].service /\ actingAt = events[i].at
              \/ Paired(events, i)
<1>1. ASSUME events \in Seq(Entries)
      PROVE  /\ DOMAIN events = 1 .. Len(events) /\ Len(events) \in Nat
             /\ \A i \in 1 .. Len(events) : i # Len(events) <=> i + 1 \in 1 .. Len(events)
  BY <1>1
<1> QED BY <1>1 DEF JournalPairs, Paired

\* When no restart is in progress, the journal tells none by half.
LEMMA QuietPairs ==
    ASSUME JournalPairs, acting = NoService
    PROVE  \A i \in 1 .. Len(events) : events[i].type = "started" => Paired(events, i)
<1> TAKE i \in 1 .. Len(events)
<1>1. events[i] \in Entries
  BY PairsAre
<1>2. events[i].service # acting
  BY <1>1, NoServiceAssumption DEF Entries
<1> QED BY <1>2, PairsAre

\* An entry that is pushed is the next one after whatever the journal ended with.
LEMMA PushKeepsPairs ==
    ASSUME JournalPairs, NEW e \in Entries, events' = Push(events, e),
           e.type = "started" => acting' = e.service /\ actingAt' = e.at,
           acting # NoService => /\ e.type \in {"succeeded", "failed"}
                                 /\ e.service = acting /\ e.at = actingAt
    PROVE  JournalPairs'
<1> DEFINE q == events
           p == events'
<1>1. q \in Seq(Entries) /\ Len(q) <= EventCapacity /\ Len(q) \in Nat
  BY PairsAre
<1>2. PICK d \in {0, 1} : Len(p) = Len(q) - d + 1 /\ \A i \in 1 .. Len(q) - d : p[i] = q[i + d]
  BY <1>1, PushFacts
<1>3. p \in Seq(Entries) /\ Len(p) \in 1 .. EventCapacity /\ p[Len(p)] = e
  BY <1>1, PushFacts
<1>4. ASSUME NEW i \in 1 .. Len(p), p[i].type = "started"
      PROVE  \/ i = Len(p) /\ acting' = p[i].service /\ actingAt' = p[i].at
             \/ Paired(p, i)
  <2>1. CASE i = Len(p)
    BY <1>3, <1>4, <2>1
  <2>2. CASE i # Len(p)
    <3>1. i \in 1 .. Len(q) - d /\ i + d \in 1 .. Len(q) /\ p[i] = q[i + d]
      BY <1>1, <1>2, <1>3, <2>2
    <3>2. CASE i + d = Len(q)
      <4>1. i + 1 = Len(p) /\ p[i + 1] = e
        BY <1>1, <1>2, <1>3, <3>1, <3>2
      <4>2. ~Paired(q, i + d)
        BY <1>1, <3>2 DEF Paired
      <4>3. acting = q[i + d].service /\ actingAt = q[i + d].at /\ acting # NoService
        BY <1>4, <3>1, <4>2, PairsAre, QuietPairs
      <4> QED BY <1>3, <3>1, <4>1, <4>3 DEF Paired
    <3>3. CASE i + d # Len(q)
      <4>1. Paired(q, i + d)
        BY <1>4, <3>1, <3>3, PairsAre
      <4>2. i + 1 \in 1 .. Len(q) - d /\ (i + 1) + d = (i + d) + 1
        BY <1>1, <3>1, <3>3
      <4>3. p[i + 1] = q[(i + d) + 1] /\ i + 1 \in 1 .. Len(p)
        BY <1>1, <1>2, <4>2
      <4> QED BY <3>1, <4>1, <4>3 DEF Paired
    <3> QED BY <3>2, <3>3
  <2> QED BY <2>1, <2>2
<1>5. JournalPairs' <=>
        /\ p \in Seq(Entries) /\ Len(p) <= EventCapacity
        /\ \A i \in 1 .. Len(p) : p[i].type = "started" =>
              \/ i = Len(p) /\ acting' = p[i].service /\ actingAt' = p[i].at
              \/ Paired(p, i)
  <2>1. ASSUME p \in Seq(Entries)
        PROVE  /\ DOMAIN p = 1 .. Len(p) /\ Len(p) \in Nat
               /\ \A i \in 1 .. Len(p) : i # Len(p) <=> i + 1 \in 1 .. Len(p)
    BY <2>1
  <2> QED BY <2>1 DEF JournalPairs, Paired
<1> QED BY <1>3, <1>4, <1>5

\* To forget a service erases whole restarts: start and outcome are about the same one.
LEMMA ForgetKeepsPairs ==
    ASSUME JournalPairs, NEW s \in Services, ForgetService(s)
    PROVE  JournalPairs'
<1> DEFINE q == events
           p == Without(q, s)
           N == Cardinality(Kept(q, s))
<1>1. q \in Seq(Entries) /\ Len(q) <= EventCapacity
  BY PairsAre
<1>2. events' = p /\ acting = NoService
  BY DEF ForgetService, MutexIsFree
<1>3. /\ p \in Seq(Entries) /\ Len(p) = N /\ N \in 0 .. Len(q)
      /\ \A j \in 1 .. N : \E i \in Kept(q, s) : Rank(q, s, i) = j /\ p[j] = q[i]
      /\ \A i, k \in Kept(q, s) : i < k => Rank(q, s, i) < Rank(q, s, k)
      /\ \A i \in Kept(q, s) : Rank(q, s, i) \in 1 .. N
      /\ \A i \in Kept(q, s) : i + 1 \in Kept(q, s) => Rank(q, s, i + 1) = Rank(q, s, i) + 1
  BY <1>1, WithoutFacts
<1>4. \A i \in 1 .. Len(q) : i \in Kept(q, s) <=> q[i].service # s
  BY <1>1 DEF Kept
<1>5. Kept(q, s) \subseteq 1 .. Len(q) /\ Len(q) \in Nat
  BY <1>1 DEF Kept
<1>6. \A i \in 1 .. Len(q) : q[i].type = "started" => Paired(q, i)
  BY <1>2, QuietPairs
<1> HIDE DEF q, p, N
<1>7. ASSUME NEW j \in 1 .. N, p[j].type = "started" PROVE Paired(p, j)
  <2>1. PICK i \in Kept(q, s) : Rank(q, s, i) = j /\ p[j] = q[i]
    BY <1>3
  <2>2. Paired(q, i) /\ i \in 1 .. Len(q)
    BY <1>5, <1>6, <1>7, <2>1
  <2>3. i + 1 \in Kept(q, s)
    BY <1>4, <2>1, <2>2 DEF Paired
  <2>4. Rank(q, s, i + 1) = j + 1 /\ j + 1 \in 1 .. N
    BY <1>3, <2>1, <2>3
  <2>5. PICK k \in Kept(q, s) : Rank(q, s, k) = j + 1 /\ p[j + 1] = q[k]
    BY <1>3, <2>4
  <2>6. k = i + 1
    <3>1. ~(k < i + 1) /\ ~(i + 1 < k)
      BY <1>3, <2>3, <2>4, <2>5
    <3>2. k \in Nat /\ i + 1 \in Nat
      BY <1>5, <2>3
    <3> QED BY <3>1, <3>2
  <2> QED BY <1>3, <2>1, <2>2, <2>4, <2>5, <2>6 DEF Paired
<1>8. p \in Seq(Entries) /\ Len(p) = N /\ N \in Nat /\ N <= EventCapacity /\ DOMAIN p = 1 .. N
  <2>1. Len(q) <= EventCapacity /\ EventCapacity \in Nat
    BY <1>1, PolicyAssumption
  <2> QED BY <1>3, <1>5, <2>1
<1>9. events' = p
  BY <1>2
<1> QED BY <1>7, <1>8, <1>9 DEF JournalPairs, Paired

\* The journal never tells half a restart, for any policy, any capacity and any clock.
THEOREM JournalIsPaired == PolicySpec => []JournalPairs
<1> USE PolicyAssumption, ClockAssumption, NoServiceAssumption
<1>1. PolicyInit => JournalPairs
  <2>1. <<>> \in Seq(Entries) /\ Len(<<>>) = 0 /\ DOMAIN <<>> = {}
    BY EmptySeq
  <2> QED BY <2>1 DEF PolicyInit, JournalPairs
<1>2. PolicyTypeOK /\ JournalPairs /\ [PolicyNext]_policyVars => JournalPairs'
  <2> SUFFICES ASSUME PolicyTypeOK, JournalPairs, [PolicyNext]_policyVars
               PROVE  JournalPairs'
    OBVIOUS
  <2>1. ASSUME events' = events, acting' = acting, actingAt' = actingAt
        PROVE  JournalPairs'
    BY <2>1 DEF JournalPairs
  <2>2. ASSUME NEW s \in Services, NEW health \in Healths, NEW critical \in BOOLEAN,
               NEW desired \in {"stopped", "running"}, NEW t \in Clock,
               Evaluate(s, health, critical, desired, t)
        PROVE  JournalPairs'
    <3>1. CASE EvaluateIdle(s, health, critical, desired)
      BY <2>1, <3>1 DEF EvaluateIdle
    <3>2. CASE EvaluateSuppressed(s, health, critical, desired, t)
      <4>1. CASE MayEmitSuppressed(s, t)
        <5> DEFINE e == Event(s, "suppressed", t)
        <5>1. /\ e \in Entries /\ e.type # "started"
              /\ events' = Push(events, e) /\ acting = NoService
          BY <3>2, <4>1 DEF EvaluateSuppressed, MutexIsFree, Event, Entries, EventTypes
        <5> HIDE DEF e
        <5> QED BY <5>1, PushKeepsPairs
      <4>2. CASE ~MayEmitSuppressed(s, t)
        BY <2>1, <3>2, <4>2 DEF EvaluateSuppressed
      <4> QED BY <4>1, <4>2
    <3>3. CASE EvaluateRestart(s, health, critical, desired, t)
      <4> DEFINE e == Event(s, "started", t)
      <4>1. /\ e \in Entries /\ acting' = e.service /\ actingAt' = e.at
            /\ events' = Push(events, e) /\ acting = NoService
        BY <3>3 DEF EvaluateRestart, MutexIsFree, Event, Entries, EventTypes
      <4> HIDE DEF e
      <4> QED BY <4>1, PushKeepsPairs
    <3> QED BY <2>2, <3>1, <3>2, <3>3 DEF Evaluate
  <2>3. ASSUME NEW ok \in BOOLEAN, RecordRestartAttempt(ok) PROVE JournalPairs'
    <3> DEFINE e == Event(acting, IF ok THEN "succeeded" ELSE "failed", actingAt)
    <3>1. /\ e \in Entries /\ e.type \in {"succeeded", "failed"}
          /\ e.service = acting /\ e.at = actingAt /\ events' = Push(events, e)
      BY <2>3 DEF RecordRestartAttempt, PolicyTypeOK, Event, Entries, EventTypes
    <3>2. e.type # "started"
      BY <3>1
    <3> HIDE DEF e
    <3> QED BY <3>1, <3>2, PushKeepsPairs
  <2>4. ASSUME NEW s \in Services, ForgetService(s) PROVE JournalPairs'
    BY <2>4, ForgetKeepsPairs
  <2>5. CASE Clear
    <3>1. <<>> \in Seq(Entries) /\ Len(<<>>) = 0 /\ DOMAIN <<>> = {}
      BY EmptySeq
    <3> QED BY <2>5, <3>1 DEF Clear, JournalPairs
  <2>6. CASE UNCHANGED policyVars
    BY <2>1, <2>6 DEF policyVars
  <2> QED BY <2>2, <2>3, <2>4, <2>5, <2>6 DEF PolicyNext
<1> QED BY <1>1, <1>2, PolicyTypeCorrect, PTL DEF PolicySpec

\* The outcome of an attempt is the newest event, for a journal of any capacity.
THEOREM OutcomeIsNewest == PolicySpec => OutcomeIsJournalled
<1> DEFINE Told == \A s \in Services :
              (acting = s /\ acting' = NoService)
                  => /\ events'[Len(events')].service = s
                     /\ events'[Len(events')].type \in {"succeeded", "failed"}
<1> USE PolicyAssumption, NoServiceAssumption
<1>1. PolicyTypeOK /\ JournalPairs /\ [PolicyNext]_policyVars => [Told]_policyVars
  <2> SUFFICES ASSUME PolicyTypeOK, JournalPairs, PolicyNext,
                      NEW s \in Services, acting = s, acting' = NoService
               PROVE  /\ events'[Len(events')].service = s
                      /\ events'[Len(events')].type \in {"succeeded", "failed"}
    BY DEF policyVars
  <2>1. PICK ok \in BOOLEAN : RecordRestartAttempt(ok)
    BY DEF PolicyNext, Evaluate, EvaluateIdle, EvaluateSuppressed, EvaluateRestart,
           ForgetService, Clear, MutexIsFree
  <2> DEFINE e == Event(acting, IF ok THEN "succeeded" ELSE "failed", actingAt)
  <2>2. e \in Entries /\ events' = Push(events, e)
    BY <2>1 DEF RecordRestartAttempt, PolicyTypeOK, Event, Entries, EventTypes
  <2>3. events'[Len(events')] = e
    BY <2>2, PushFacts DEF JournalPairs
  <2>4. e.service = s /\ e.type \in {"succeeded", "failed"}
    BY DEF Event
  <2> QED BY <2>3, <2>4
<1> QED BY <1>1, PolicyTypeCorrect, JournalIsPaired, PTL DEF PolicySpec, OutcomeIsJournalled

=============================================================================
