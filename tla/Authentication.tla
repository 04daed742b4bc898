---------------------------- MODULE Authentication ----------------------------
(***************************************************************************)
(* Authentication of one call and the binding of the context it asserts    *)
(* (auth/*.py): pure functions of the process configuration and of what    *)
(* the call presents.  Nothing here keeps state between calls.             *)
(***************************************************************************)
EXTENDS GovernanceTypes, ErrorContract

CONSTANTS
  Attached,     \* a ServerConfig is attached to the gate
  SecretSet,    \* ServerConfig.auth_token is set
  RequireAuth,  \* ServerConfig.require_authentication
  SubjectId     \* ServerConfig.auth_subject_id

\* ServerConfig.__post_init__ refuses to require authentication without a
\* secret, and an empty subject id.
AuthAssumption ==
  /\ Attached \in BOOLEAN /\ SecretSet \in BOOLEAN /\ RequireAuth \in BOOLEAN
  /\ RequireAuth => SecretSet
  /\ SubjectId \in Subject
ASSUME AuthAssumption

\* A presented secret, compared with the configured one: empty, equal,
\* different, or not comparable (hmac.compare_digest takes ASCII only).
Secret == {"empty", "right", "wrong", "nonascii"}

\* extract_credential, get_presented_secret: the tool keyword wins, then the
\* request scope, then the environment, where an empty value counts as unset.
PresentedSecret(keyword, scope, environment) ==
  CASE keyword # None                          -> keyword
    [] keyword = None /\ scope # None          -> scope
    [] OTHER -> IF environment = "empty" THEN None ELSE environment

\* authenticate_shared_secret
SharedSecretStatus(s) ==
  CASE ~SecretSet                            -> "transport_unavailable"
    [] SecretSet /\ s \in {None, "empty"}    -> "missing_credential"
    [] SecretSet /\ s = "nonascii"           -> "malformed"
    [] SecretSet /\ s = "wrong"              -> "invalid_credential"
    [] SecretSet /\ s = "right"              -> "authenticated"

\* resolve_authentication, up to the binding.
AuthStatus(s) ==
  IF SharedSecretStatus(s) = "authenticated" \/ s \notin {None, "empty"}
  THEN SharedSecretStatus(s)
  ELSE IF RequireAuth THEN "missing_credential" ELSE "unauthenticated"

\* _enforce_no_impersonation
Impersonates(asserted) ==
  \/ asserted.agent  \notin {None, SubjectId}
  \/ asserted.client \notin {None, SubjectId}

AssertedOrEmpty(asserted) == IF asserted = None THEN EmptyContext ELSE asserted

BindError_Optional(asserted, s) ==  \* seeded fault: require_authentication is not enforced
  IF AuthStatus(s) = "authenticated" /\ Impersonates(asserted)
  THEN Error("validation", "context_mismatch") ELSE NoError

\* bind_context: the error it raises, or NoError.
BindError(asserted, s) ==
  LET st == AuthStatus(s) IN
  CASE RequireAuth /\ st # "authenticated" -> Error("unauthenticated", st)
    [] st = "authenticated" /\ Impersonates(asserted)
                                           -> Error("validation", "context_mismatch")
    [] OTHER                               -> NoError

\* resolve_execution_auth: without a configuration the call is not
\* authenticated, and wrap_tool passes it no context.
AuthError(asserted, s) ==
  IF Attached THEN BindError(AssertedOrEmpty(asserted), s) ELSE NoError
BoundContext(asserted) ==
  IF Attached THEN AssertedOrEmpty(asserted) ELSE EmptyContext
==============================================================================
