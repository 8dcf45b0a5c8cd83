-------------------------- MODULE RecoveryManagerInv --------------------------
(***************************************************************************)
(* Why the restart policy of RecoveryManager holds: the inductive          *)
(* invariant behind BudgetHolds and AttemptsSpaced.                        *)
(***************************************************************************)
EXTENDS RecoveryManager

\* Attempts of s that HasRestartBudgetLocked has popped.
Gone(s) == Len(history[s]) - Len(attempts[s])

\* restart_attempts is the newest part of the history, and never over the limit.
AttemptsAreRecent(s) ==
    /\ Len(attempts[s]) \in 0 .. MaxRestarts
    /\ Len(attempts[s]) <= Len(history[s])
    /\ \A i \in 1 .. Len(attempts[s]) : attempts[s][i] = history[s][Gone(s) + i]

\* The two deadlines are those of the newest attempt.
DeadlinesFollow(s) ==
    history[s] # <<>> =>
        /\ nextAllowed[s] = history[s][Len(history[s])] + Backoff
        /\ graceUntil[s] = history[s][Len(history[s])] + Grace

\* A restart in progress was decided after both deadlines, with budget left.
DecisionIsSound(s) ==
    acting = s =>
        /\ Len(attempts[s]) < MaxRestarts
        /\ history[s] # <<>> => /\ nextAllowed[s] <= actingAt
                                /\ graceUntil[s] <= actingAt

\* What was popped had left the window by the newest attempt, or by the one being
\* made: only a decision to restart pops (a pop leaves budget).
GoneHaveExpired(s) ==
    \A i \in 1 .. Gone(s) :
        history[s][i] + Window < IF acting = s THEN actingAt
                                 ELSE history[s][Len(history[s])]

\* The newest attempt stays counted until the next one.
NewestCounts(s) == (acting # s /\ history[s] # <<>>) => attempts[s] # <<>>

ServiceInv(s) ==
    /\ AttemptsAreRecent(s)
    /\ DeadlinesFollow(s)
    /\ DecisionIsSound(s)
    /\ GoneHaveExpired(s)
    /\ NewestCounts(s)

\* The inductive invariant.
PolicyIInv ==
    /\ PolicyTypeOK
    /\ AttemptsSpaced
    /\ BudgetHolds
    /\ \A s \in Services : ServiceInv(s)

=============================================================================
