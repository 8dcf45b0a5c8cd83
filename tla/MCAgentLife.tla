----------------------------- MODULE MCAgentLife -----------------------------
(* Instances of AgentLife for TLC: two services, b after a. *)
EXTENDS AgentLife

CONSTANTS a, b

MCClock == 0 .. Horizon

TwoServices == <<a, b>>

=============================================================================
