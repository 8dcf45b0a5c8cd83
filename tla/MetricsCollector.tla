-------------------------- MODULE MetricsCollector --------------------------
(***************************************************************************)
(* The collector's cycle (metrics/metrics_collector.cpp, CollectOnce) and  *)
(* the sampler (metrics/metrics_sampler.cpp, Sample) for one service.      *)
(*                                                                         *)
(* CollectOnce copies the published status of the service, then reads the  *)
(* counters of the pid it found there.  By then the process may be gone,   *)
(* and its pid may belong to another one: the start time that is read with *)
(* the counters (process_identity) tells processes with one pid apart.     *)
(* Services do not disturb one another in a cycle, so one is enough.       *)
(***************************************************************************)
EXTENDS Integers, Sequences

CONSTANTS
    Pids,             \* few, so that the kernel hands them out again
    MaxProcesses,     \* bound: how many times the service is started
    HistoryCapacity,  \* options_.history_capacity
    NoProcess         \* no process; no baseline

ASSUME CollectorAssumption ==
    /\ MaxProcesses \in Nat
    /\ HistoryCapacity \in Nat \ {0}
    /\ NoProcess \notin [pid : Pids, id : 0 .. MaxProcesses]

VARIABLES
    status,    \* what the supervisor publishes: the process while Running, or none
    process,   \* the process there is
    started,   \* identity of the last process started
    stage,     \* where the collector's worker is
    listed,    \* status in the copy made by ListServices
    baseline,  \* baselines_ of the sampler: the process sampled last
    samples    \* metrics_history_; its last element is latest_metrics_

collectorVars == <<status, process, started, stage, listed, baseline, samples>>

\* Identity 0 is a process that is not the service's.
Foreign   == 0
Processes == [pid : Pids, id : 0 .. MaxProcesses]

\* A sample: cpu is absent ("none"), above the thresholds ("hot") or below.
\* who is the process the counters were read from.
Samples     == [available : BOOLEAN, cpu : {"none", "hot", "cool"}, who : Processes \cup {NoProcess}]
Unavailable == [available |-> FALSE, cpu |-> "none", who |-> NoProcess]

CollectorTypeOK ==
    /\ {status, process, listed} \subseteq Processes \cup {NoProcess}
    /\ status # NoProcess => process \in {status, NoProcess}
    /\ started \in 0 .. MaxProcesses
    /\ stage \in {"wait", "sample"}
    /\ baseline \in Processes \cup {NoProcess}
    /\ samples \in Seq(Samples) /\ Len(samples) <= HistoryCapacity

CollectorInit ==
    /\ status = NoProcess /\ process = NoProcess
    /\ listed = NoProcess /\ baseline = NoProcess
    /\ started = 0 /\ stage = "wait" /\ samples = <<>>

-----------------------------------------------------------------------------
(* The service: its process, and what its supervisor publishes of it. *)

Launch ==
    /\ status = NoProcess /\ process = NoProcess /\ started < MaxProcesses
    /\ started' = started + 1
    /\ \E p \in Pids : process' = [pid |-> p, id |-> started + 1]
    /\ status' = process'
    /\ UNCHANGED <<stage, listed, baseline, samples>>

Die ==
    /\ process # NoProcess
    /\ process' = NoProcess
    /\ UNCHANGED <<status, started, stage, listed, baseline, samples>>

\* No longer Running: a stop begins, or the exit is published, some time
\* after the process ended.
LeaveRunning ==
    /\ status # NoProcess
    /\ status' = NoProcess
    /\ UNCHANGED <<process, started, stage, listed, baseline, samples>>

-----------------------------------------------------------------------------
(* The collector. *)

ListServices ==
    /\ stage = "wait"
    /\ listed' = status
    /\ stage' = "sample"
    /\ UNCHANGED <<status, process, started, baseline, samples>>

\* push_back, and pop_front while the history is over its capacity.
Record(s, x) ==
    LET t == Append(s, x) IN IF Len(t) > HistoryCapacity THEN Tail(t) ELSE t

\* The results are published together, at the end of the cycle.
Publish(x) ==
    /\ stage = "sample"
    /\ samples' = Record(samples, x)
    /\ stage' = "wait" /\ listed' = NoProcess
    /\ UNCHANGED <<status, process, started>>

CollectNothing_notRecorded ==
    /\ stage = "sample" /\ stage' = "wait"
    /\ baseline' = NoProcess /\ listed' = NoProcess
    /\ UNCHANGED <<status, process, started, samples>>

\* The service was not running, or what was to be read could not be read.
CollectNothing ==
    /\ Publish(Unavailable)
    /\ baseline' = NoProcess

\* Who may answer to the listed pid: the process that has it now, or else one
\* that ended and is not reaped yet, or another process of the system.
Answering ==
    IF process # NoProcess /\ process.pid = listed.pid
    THEN {process}
    ELSE {[pid |-> listed.pid, id |-> Foreign]} \cup ({status} \cap {listed})

\* The processor time between two samples says something only when both were
\* taken of one process.
SameProcess_pidOnly(p) == baseline # NoProcess /\ baseline.pid = p.pid
SameProcess(p) == baseline # NoProcess /\ baseline.pid = p.pid /\ baseline.id = p.id

\* Even then it may have to be dropped: another number of processors, a
\* counter or a clock that did not advance, more than the machine can do.
Sample(p, cpu) ==
    /\ cpu # "none" => SameProcess(p)
    /\ baseline' = p
    /\ Publish([available |-> TRUE, cpu |-> cpu, who |-> p])

CollectProcess ==
    /\ stage = "sample" /\ listed # NoProcess
    /\ \E p \in Answering, cpu \in {"none", "hot", "cool"} : Sample(p, cpu)

Collector == ListServices \/ CollectNothing \/ CollectProcess
Service   == Launch \/ Die \/ LeaveRunning

\* latest_metrics_: what GetLatest returns.
Latest == IF samples = <<>> THEN Unavailable ELSE samples[Len(samples)]

-----------------------------------------------------------------------------
(* A processor load in the history is measured between two consecutive      *)
(* samples of one process: never across a restart, a reuse of its pid, or a *)
(* time in which the service could not be sampled (metrics_sampler.cpp:71,  *)
(* metrics_collector.cpp:175).                                              *)
LoadIsOfOneProcess ==
    \A i \in DOMAIN samples :
        samples[i].cpu # "none" /\ i > 1 =>
            samples[i - 1].available /\ samples[i - 1].who = samples[i].who

=============================================================================
