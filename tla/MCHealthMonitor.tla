-------------------------- MODULE MCHealthMonitor --------------------------
(* Instances of HealthMonitor for TLC. *)
EXTENDS HealthMonitor, TLC

CONSTANTS a, b

MCClock == 0 .. Horizon

OneService == <<a>>
TwoServices == <<a, b>>

=============================================================================
