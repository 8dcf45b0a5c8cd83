------------------------- MODULE MCRecoveryManager -------------------------
(* Instances of RecoveryManager for TLC. *)
EXTENDS RecoveryManagerInv, TLC

MCClock == 0 .. 3

\* Without is what SelectSeq, of which no theorem is known to the provers, would leave.
ASSUME WithoutIsSelect ==
    \A n \in 0 .. 4 : \A f \in [1 .. n -> Services] : \A s \in Services :
        LET q == [i \in 1 .. n |-> Event(f[i], "started", i)]
        IN  Without(q, s) = SelectSeq(q, LAMBDA e : e.service # s)

\* The services are alike.
Symmetry == Permutations(Services)

=============================================================================
