------------------------ MODULE MCProcessSupervisor ------------------------
(* Instances of ProcessSupervisor for TLC. *)
EXTENDS ProcessSupervisorInv, TLC

\* Callers are alike, and so are the pids the system hands out.
Symmetry == Permutations(Threads) \cup Permutations(Pids)

=============================================================================
