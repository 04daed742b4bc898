---------------------------- MODULE ErrorContract ----------------------------
(***************************************************************************)
(* What a governed tool call may raise, and the stable code the client     *)
(* reads for it (errors/errors.py, errors/client_contract.py).             *)
(*                                                                         *)
(* An error is abstracted to its class and to the one datum _code_for      *)
(* looks at: the decision of a PolicyDeniedError, the status of an         *)
(* UnauthenticatedError, the reason of a ValidationError or, when it has    *)
(* none, whether its message has the word "conflicts" in it.               *)
(***************************************************************************)

\* The subclasses of McpError, by category.
McpClass == {"policy_denied", "unauthenticated", "unauthorized", "validation",
             "rate_limited", "not_found", "timeout", "unavailable", "upstream",
             "internal"}

\* "raw" is any other Exception, "exit" a BaseException that is not an
\* Exception, "none" the absence of an error.
ErrorClass == McpClass \cup {"raw", "exit", "none"}

Detail == {"", "approval_required", "deny_unknown", "deny", "missing_credential",
           "invalid_credential", "malformed", "transport_unavailable",
           "context_mismatch", "conflicts", "approval_rejected", "approval_no_store",
           "over_limit"}

ErrorRecord == [class : ErrorClass, detail : Detail]
Error(c, d) == [class |-> c, detail |-> d]
NoError     == Error("none", "")

\* Categories whose code does not depend on the details of the error.
CategoryCode ==
  [unauthorized |-> "AUTHORIZATION_DENIED", upstream    |-> "UPSTREAM_FAILURE",
   unavailable  |-> "UPSTREAM_FAILURE",     timeout     |-> "UPSTREAM_FAILURE",
   internal     |-> "INTERNAL_ERROR",       not_found   |-> "VALIDATION_ERROR",
   rate_limited |-> "CONCURRENCY_LIMIT"]

CredentialRejected_Default(d) == d # "missing_credential"  \* seeded fault: unknown status counts as rejected
CredentialRejected(d) == d \in {"invalid_credential", "malformed"}

\* _code_for
CodeFor(e) ==
  CASE e.class = "policy_denied" ->
         CASE e.detail = "approval_required" -> "APPROVAL_REQUIRED"
           [] e.detail = "deny_unknown"      -> "UNKNOWN_TOOL"
           [] OTHER                          -> "AUTHORIZATION_DENIED"
    [] e.class = "unauthenticated" ->
         IF CredentialRejected(e.detail)
         THEN "AUTHENTICATION_FAILED" ELSE "AUTHENTICATION_REQUIRED"
    [] e.class = "validation" ->
         IF e.detail \in {"context_mismatch", "conflicts"} THEN "INVALID_CONTEXT" ELSE "VALIDATION_ERROR"
    [] OTHER -> CategoryCode[e.class]

\* What reaches the caller of wrap_tool: the result, a ToolError carrying a
\* code, or an exception that is no McpError, which is not translated.
AnswerTo(e) ==
  CASE e.class = "none"         -> "OK"
    [] e.class \in {"raw", "exit"} -> "UNSTRUCTURED"
    [] OTHER                    -> CodeFor(e)

Answer == {"OK", "UNSTRUCTURED", "APPROVAL_REQUIRED", "UNKNOWN_TOOL",
           "AUTHORIZATION_DENIED", "AUTHENTICATION_FAILED", "AUTHENTICATION_REQUIRED",
           "INVALID_CONTEXT", "VALIDATION_ERROR", "CONCURRENCY_LIMIT",
           "UPSTREAM_FAILURE", "INTERNAL_ERROR"}
==============================================================================
