---------------------------- MODULE RequestGate ----------------------------
(***************************************************************************)
(* What the request executor promises to the HTTP server                   *)
(* (docs/http-server-lifecycle.md, "max_in_flight_requests"): queued and   *)
(* running requests share one bound, a gate that is shut admits nothing,   *)
(* and it opens again only after all it had admitted has finished.         *)
(***************************************************************************)
EXTENDS FiniteSets, Naturals

CONSTANTS Task, Capacity

VARIABLES
    gate,    \* "closed", "open" or "shut": shut still works off what it admitted
    pending  \* the requests admitted and not finished

vars == <<gate, pending>>

Init == gate = "closed" /\ pending = {}

Open == gate = "closed" /\ gate' = "open" /\ UNCHANGED pending

\* Threads could not be created: the gate never opens.
OpenFails == gate = "closed" /\ gate' = "shut" /\ UNCHANGED pending

Admit(t) ==
    /\ gate = "open"
    /\ t \notin pending /\ Cardinality(pending) < Capacity
    /\ pending' = pending \cup {t}
    /\ UNCHANGED gate

Finish(t) == t \in pending /\ pending' = pending \ {t} /\ UNCHANGED gate

Shut == gate = "open" /\ gate' = "shut" /\ UNCHANGED pending

Drained == gate = "shut" /\ pending = {} /\ gate' = "closed" /\ UNCHANGED pending

Next ==
    \/ Open \/ OpenFails \/ Shut \/ Drained
    \/ \E t \in Task : Admit(t) \/ Finish(t)

Spec == Init /\ [][Next]_vars

=============================================================================
