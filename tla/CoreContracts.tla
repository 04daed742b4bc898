----------------------------- MODULE CoreContracts -----------------------------
(***************************************************************************)
(* The shapes of Yasin-Core's shared contracts, as compat/core_contracts.py *)
(* builds and validates them.  A free-form token is one of a few that the   *)
(* code tells apart (spelling and case are normalised by both coercions);   *)
(* a pid is a number, or None, or something that is no int.                 *)
(***************************************************************************)
EXTENDS Integers, ErrorContract

CoreHealthState == {"HEALTHY", "DEGRADED", "UNHEALTHY", "UNKNOWN"}
CoreStatusValue == {"RUNNING", "STOPPED", "FAILED", "UNKNOWN", "IDLE", "SUCCESS", "STALE"}
CoreErrorCode   == {"UNKNOWN", "INVALID", "NOT_FOUND", "UNAVAILABLE", "TIMEOUT",
                    "REFUSED", "CONFLICT"}

HealthyToken   == {"healthy", "ok", "up"}
UnhealthyToken == {"unhealthy", "failed", "failure", "error", "down"}

\* The canonical value a token spells, for the tokens that spell one.
Canonical == [running |-> "RUNNING", stopped |-> "STOPPED", failed |-> "FAILED",
              unknown |-> "UNKNOWN", idle |-> "IDLE", success |-> "SUCCESS",
              stale |-> "STALE"]

\* coerce_health_state_compatible
CoreHealth(token) ==
  CASE token \in HealthyToken   -> "HEALTHY"
    [] token = "degraded"       -> "DEGRADED"
    [] token \in UnhealthyToken -> "UNHEALTHY"
    [] OTHER                    -> "UNKNOWN"

\* coerce_status_value_compatible
CoreStatus(token) == IF token \in DOMAIN Canonical THEN Canonical[token] ELSE "UNKNOWN"

\* _ERROR_CODE_MAP
CoreError(class) ==
  CASE class = "validation" -> "INVALID"
    [] class = "not_found"  -> "NOT_FOUND"
    [] class \in {"unauthenticated", "unauthorized", "policy_denied"} -> "REFUSED"
    [] class = "rate_limited" -> "CONFLICT"
    [] class = "timeout"      -> "TIMEOUT"
    [] class \in {"unavailable", "upstream"} -> "UNAVAILABLE"
    [] OTHER -> "UNKNOWN"

\* What a caller may pass as a pid: None, a bool, text, a number of any sign.
Pid == {[type |-> "none", value |-> 0], [type |-> "text", value |-> 0]}
         \cup [type : {"bool"}, value : {0, 1}] \cup [type : {"int"}, value : {-1, 0, 1}]
NoPid == [type |-> "none", value |-> 0]

\* _coerce_pid: a bool is an int to Python.
CoercePid(p) == IF p.type = "int" /\ p.value > 0 THEN p ELSE NoPid

\* operations_result_to_core_status and validate_core_service_status, for a name
\* that is not empty.
StatusRecord(token, pid) == [status |-> CoreStatus(token), pid |-> CoercePid(pid)]
ValidStatus(s) ==
  /\ s.status \in CoreStatusValue
  /\ s.pid.type = "none" \/ (s.pid.type = "int" /\ s.pid.value > 0)

\* mcp_health_to_core_report and validate_core_health_report.
HealthRecord(token) == [state |-> CoreHealth(token)]
ValidHealth(h) == h.state \in CoreHealthState

\* mcp_error_to_core_info and validate_core_error_info.
ErrorInfo(class) == [code |-> CoreError(class)]
ValidErrorInfo(e) == e.code \in CoreErrorCode
================================================================================
