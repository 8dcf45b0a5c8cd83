--------------------------- MODULE AgentProtocol ---------------------------
(***************************************************************************)
(* One request of the desktop, from end to end: what the agent may answer  *)
(* to it (api/agent_api.cpp) and what the desktop's client makes of the    *)
(* answer (api/agent_client.cpp).  Both keep nothing between requests, so  *)
(* these are operators; Desktop sends the requests and applies the answers.*)
(*                                                                         *)
(* The fields of an answer are abstracted to those that decide something:  *)
(* its error, the service it names, the states it reports and whether the  *)
(* times of a metrics history ascend.                                      *)
(***************************************************************************)
CONSTANTS Service, NoService

ASSUME NoServiceAssumption == NoService \notin Service

\* A state as UpdateActionButtons of the desktop tells them apart: "down" is
\* Stopped, Exited or Failed, and "busy" is Starting or Stopping.
State == {"down", "running", "busy"}

-----------------------------------------------------------------------------
(* The agent.  A response is a body or an error; each operator gives the   *)
(* set of those that may be returned.                                      *)

Body(s, statuses, ascending) ==
    [error |-> "none", of |-> s, statuses |-> statuses, ascending |-> ascending]

Error(code) == [Body(NoService, <<>>, TRUE) EXCEPT !.error = code]

Plain(s) == Body(s, <<>>, TRUE)

\* listed is the registry's services, status what each one's GetStatus returns.
MakeServiceListResponse(listed, status) ==
    {Body(NoService, [s \in listed |-> status[s]], TRUE)}

MakeStatusResponse(s, status) == {Body(s, [x \in {s} |-> status[s]], TRUE)}

\* Whether the supervisor succeeded or not, status is what it left behind.
MakeActionResponse(s, status) ==
    {Error("service_action_failed")} \cup MakeStatusResponse(s, status)

MakeLogsResponse(s)    == {Error("log_read_failed"), Plain(s)}

\* The caches are checked again before they are sent.
MakeMetricsResponse(s) ==
    {Error("metrics_not_ready"), Error("invalid_metrics_cache"), Plain(s)}

\* The collector stamps its points with the wall clock, which may be set back.
MakeMetricsHistoryResponse(s) ==
    {Error("metrics_not_ready"), Error("invalid_metrics_cache"), Plain(s), Body(s, <<>>, FALSE)}

MakeHealthResponse(s) ==
    {Error("health_not_ready"), Error("invalid_health_cache"), Plain(s)}

MakeServiceAlertsResponse(s)         == {Plain(s)}
MakeServiceRecoveryEventsResponse(s) == {Plain(s)}

\* The route of an acknowledgement names an alert; s is the service it is of.
MakeAcknowledgeAlertResponse(s) == {Error("alert_not_found"), Plain(s)}

Handle(channel, s, listed, status) ==
    CASE channel = "services" -> MakeServiceListResponse(listed, status)
      [] channel = "ack"      -> MakeAcknowledgeAlertResponse(s)
      [] OTHER ->
            IF s \notin listed THEN {Error("service_not_found")}
            ELSE CASE channel = "status"   -> MakeStatusResponse(s, status)
                   [] channel = "action"   -> MakeActionResponse(s, status)
                   [] channel = "logs"     -> MakeLogsResponse(s)
                   [] channel = "metrics"  -> MakeMetricsResponse(s)
                   [] channel = "history"  -> MakeMetricsHistoryResponse(s)
                   [] channel = "health"   -> MakeHealthResponse(s)
                   [] channel = "alerts"   -> MakeServiceAlertsResponse(s)
                   [] channel = "recovery" -> MakeServiceRecoveryEventsResponse(s)

-----------------------------------------------------------------------------
(* The client.  Its callback gets an answer: a value, or an error's code.  *)

Answer(kind, statuses) == [kind |-> kind, statuses |-> statuses]

\* Of the errors the desktop tells only metrics_not_ready from the others.
Failed == Answer("error", <<>>)

\* SendJsonRequest passes an error on and parses a body; no answer at all, or
\* one that cannot be read, is an error of its own making.
SendJsonRequest(response, parsed) ==
    CASE response.error = "none"              -> parsed
      [] response.error = "metrics_not_ready" -> Answer("metrics_not_ready", <<>>)
      [] OTHER                                -> Failed

\* What GetServices, RequestStatus, GetLogs and AcknowledgeAlert return is not
\* compared with the request.
GetServices(response)      == Answer("ok", response.statuses)
RequestStatus(response)    == Answer("ok", response.statuses)
GetLogs(response)          == Answer("ok", <<>>)
AcknowledgeAlert(response) == Answer("ok", <<>>)

\* GetMetrics, GetHealth, GetServiceAlerts and GetServiceRecoveryEvents refuse
\* an answer about another service, GetMetricsHistory also one whose times
\* descend.
GetMetrics(s, response) == IF response.of = s THEN Answer("ok", <<>>) ELSE Failed

GetMetricsHistory(s, response) ==
    IF response.of = s /\ response.ascending THEN Answer("ok", <<>>) ELSE Failed

GetHealth(s, response)        == IF response.of = s THEN Answer("ok", <<>>) ELSE Failed
GetServiceAlerts(s, response) == IF response.of = s THEN Answer("ok", <<>>) ELSE Failed
GetServiceRecoveryEvents(s, response) ==
    IF response.of = s THEN Answer("ok", <<>>) ELSE Failed

Parse(channel, s, response) ==
    CASE channel = "services"             -> GetServices(response)
      [] channel \in {"status", "action"} -> RequestStatus(response)
      [] channel = "logs"                 -> GetLogs(response)
      [] channel = "metrics"              -> GetMetrics(s, response)
      [] channel = "history"              -> GetMetricsHistory(s, response)
      [] channel = "health"               -> GetHealth(s, response)
      [] channel = "alerts"               -> GetServiceAlerts(s, response)
      [] channel = "recovery"             -> GetServiceRecoveryEvents(s, response)
      [] channel = "ack"                  -> AcknowledgeAlert(response)

\* All the answers a request may get from the agent.
Answers(channel, s, listed, status) ==
    {SendJsonRequest(response, Parse(channel, s, response)) :
        response \in Handle(channel, s, listed, status)}
=============================================================================
