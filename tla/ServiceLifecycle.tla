-------------------------- MODULE ServiceLifecycle --------------------------
(***************************************************************************)
(* What a supervised service promises to a caller of GetStatus             *)
(* (docs/state-machine.md, corrected where the code does otherwise).       *)
(*                                                                         *)
(* Start and stop phases exclude each other, a launch appears only while   *)
(* the service is Starting, only a launch that is still there becomes      *)
(* Running, an exit is Exited or Stopped by the operator's intent at that  *)
(* moment, and no call returns while the state is Starting.                *)
(***************************************************************************)

VARIABLES
    desired,  \* the operator's intent
    state,    \* ServiceState
    up,       \* a launch is recorded (pid > 0)
    busy      \* the phase of the operation in progress

vars == <<desired, state, up, busy>>

Init ==
    /\ desired \in {"stopped", "running"}
    /\ state = "stopped"
    /\ up = FALSE
    /\ busy = "none"

\* The intent changes inside a phase, or between operations.
Intend(d) == desired' = d /\ UNCHANGED <<state, up, busy>>

\* An operation takes or leaves the mutex, or Restart passes from stop to start.
Begin(phase) == busy = "none" /\ busy' = phase /\ UNCHANGED <<desired, state, up>>
StopThenStart == busy = "stop" /\ busy' = "start" /\ UNCHANGED <<desired, state, up>>
EndStop == busy = "stop" /\ busy' = "none" /\ UNCHANGED <<desired, state, up>>

\* Start of a service that is up, or whose old group lingers, is refused.
RefuseStart ==
    /\ busy = "start" /\ state # "starting"
    /\ desired' = "running"
    /\ busy' = "none"
    /\ UNCHANGED <<state, up>>

EnterStarting ==
    /\ busy = "start" /\ ~up
    /\ state \in {"stopped", "exited", "failed", "stopping"}
    /\ state' = "starting"
    /\ UNCHANGED <<desired, up, busy>>

Launch ==
    /\ busy = "start" /\ state = "starting" /\ ~up
    /\ up' = TRUE
    /\ UNCHANGED <<desired, state, busy>>

\* No launch, or one that has to be undone.
StartFails ==
    /\ busy = "start" /\ state = "starting"
    /\ state' = "failed" /\ up' = FALSE /\ busy' = "none"
    /\ UNCHANGED desired

\* Start succeeds: Running, or the launch is gone again and shows as Exited.
StartSucceeds ==
    /\ busy = "start"
    /\ IF up THEN state = "starting" /\ state' = "running"
             ELSE state = "exited" /\ UNCHANGED state
    /\ busy' = "none"
    /\ UNCHANGED <<desired, up>>

Exit ==
    /\ up /\ up' = FALSE
    /\ state' = IF desired = "stopped" \/ state = "stopping" THEN "stopped" ELSE "exited"
    /\ UNCHANGED <<desired, busy>>

\* A stop with something to stop, and one with nothing.
EnterStopping(d) ==
    /\ busy = "stop"
    /\ desired' = d /\ state' = "stopping"
    /\ UNCHANGED <<up, busy>>

NothingToStop(d) ==
    /\ busy = "stop" /\ ~up
    /\ desired' = d
    /\ state' = IF d = "stopped" THEN "stopped" ELSE state
    /\ UNCHANGED <<up, busy>>

GiveUpStop ==
    /\ busy = "stop" /\ state = "stopping"
    /\ state' = "failed" /\ busy' = "none"
    /\ UNCHANGED <<desired, up>>

Next ==
    \/ \E d \in {"stopped", "running"} :
          \/ Intend(d) /\ (busy = "none" \/ d = "running")
          \/ EnterStopping(d) \/ NothingToStop(d)
    \/ \E phase \in {"start", "stop"} : Begin(phase)
    \/ StopThenStart \/ EndStop \/ RefuseStart \/ EnterStarting \/ Launch
    \/ StartFails \/ StartSucceeds \/ Exit \/ GiveUpStop

Spec == Init /\ [][Next]_vars

=============================================================================
