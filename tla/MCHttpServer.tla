---------------------------- MODULE MCHttpServer ----------------------------
(* Instances of HttpServer for TLC. *)
EXTENDS HttpServerInv, TLC

\* Threads are alike, and so are session slots.
Symmetry == Permutations(Thread) \cup Permutations(Session)

=============================================================================
