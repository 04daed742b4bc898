---------------------------- MODULE RemoteTransport ----------------------------
(***************************************************************************)
(* RequireBearerAuthMiddleware (transport/remote.py) and the identity scope *)
(* it opens around a request (auth/request_state.py): asyncio tasks that    *)
(* each serve one HTTP request after another, and the tool calls those      *)
(* requests start.                                                          *)
(*                                                                          *)
(*   task:     idle -> called -> inside -> idle        (or called -> idle)  *)
(*   tool call: free -> started -> resolved -> finished -> free             *)
(*                                                                          *)
(* A context variable has one value per task.  A tool call runs on a copy   *)
(* of the variables of the task that sent it, and may outlive the request:  *)
(* the client may hang up while the tool runs.                              *)
(***************************************************************************)
EXTENDS GovernanceTypes

CONSTANTS
  Task,       \* asyncio tasks that run the ASGI application
  Handler,    \* tool calls under way at one time
  Request,    \* the HTTP requests that arrive
  EnvSecrets, \* what YASIN_MCP_PRESENT_AUTH_TOKEN may hold
  SubjectId   \* ServerConfig.auth_subject_id

VARIABLES
  config,   \* what the deployment chose: fixed while the server runs
  pc,       \* where each task is
  req,      \* the request it serves, or served last
  cell,     \* its context variables: the presented secret and asserted context
  saved,    \* the values auth_request_scope will restore, or None
  answer,   \* what the client received for req, or None
  hpc,      \* where each tool call is
  hreq,     \* history: the request that started it
  owner,    \* the task that waits for it, or None
  hcell,    \* its copy of the context variables
  gate      \* the status the gate gave its credential, or None

tasks    == <<pc, req, cell, saved, answer>>
handlers == <<hpc, hreq, owner, hcell, gate>>
vars     == <<config, pc, req, cell, saved, answer, hpc, hreq, owner, hcell, gate>>

-------------------------------------------------------------------------------
(***************************************************************************)
(* What arrives.                                                            *)
(***************************************************************************)

\* Authorization: absent, not a bearer, or a bearer token and how it compares.
Bearer == {None, "no_bearer", "right", "wrong", "nonascii"}

\* X-Yasin-Context: its first defect, and the fields it asserts.
UnreadableHeader == {"oversized", "not_json", "not_object"}
InvalidMapping   == {"unknown_field", "bad_id", "bad_extra", "bad_trust", "claims_trusted"}
Header == [defect : {"none"} \cup UnreadableHeader \cup InvalidMapping, context : Context]

RequestType == [kind : {"lifespan", "probe", "mcp"}, bearer : Bearer, header : Opt(Header)]

\* What a task's context variables hold.
Identity == [secret : Opt({"right", "wrong", "nonascii"}), asserted : Opt(Context)]
Nobody   == [secret |-> None, asserted |-> None]

\* What a client receives; "OK" is whatever the application answers.
Response == {"OK", "DROPPED", "INVALID_CONTEXT", "AUTHENTICATION_REQUIRED",
             "AUTHENTICATION_FAILED", "SERVER_ERROR"}

\* What a deployment may set; ServerConfig refuses to require authentication
\* without a secret.
Config == {c \in [required : BOOLEAN, secretSet : BOOLEAN, env : EnvSecrets] :
             c.required => c.secretSet}

TransportAssumption ==
  /\ Request \subseteq RequestType
  /\ SubjectId \in Subject
  /\ EnvSecrets \subseteq Opt({"right", "wrong"})
  /\ None \notin RequestType \cup Header \cup Context \cup Identity \cup Task
  /\ None \notin {"no_bearer", "right", "wrong", "nonascii"} \cup Response
ASSUME TransportAssumption

\* The authentication of the gate, under this deployment.
Gate == INSTANCE Authentication
          WITH Attached <- TRUE, SecretSet <- config.secretSet, RequireAuth <- config.required

\* extract_bearer_token
TokenOf(q) == IF q.bearer = "no_bearer" THEN None ELSE q.bearer

\* _extract_integration_context: None, the context, or one of two exceptions:
\* ValueError for a header it cannot read, ValidationError for a mapping that
\* IntegrationContext.from_mapping does not accept.
Unreadable(q) == q.header # None /\ q.header.defect \in UnreadableHeader
Invalid(q)    == q.header # None /\ q.header.defect \in InvalidMapping
Readable(q)   == ~Unreadable(q) /\ ~Invalid(q)

AssertedBy_Raw(q) == q.header    \* seeded fault: the header is bound unparsed
AssertedBy(q) == IF q.header = None THEN None ELSE q.header.context

-------------------------------------------------------------------------------
(***************************************************************************)
(* Types and initial states.                                                *)
(***************************************************************************)
TypeOK ==
  /\ config \in Config
  /\ pc \in [Task -> {"idle", "called", "inside"}]
  /\ req \in [Task -> Opt(RequestType)]
  /\ \A t \in Task : pc[t] # "idle" => req[t] \in RequestType
  /\ cell \in [Task -> Identity]
  /\ saved \in [Task -> Opt(Identity)]
  /\ answer \in [Task -> Opt(Response)]
  /\ hpc \in [Handler -> {"free", "started", "resolved", "finished"}]
  /\ hreq \in [Handler -> Opt(RequestType)]
  /\ \A h \in Handler : hpc[h] # "free" => hreq[h] \in RequestType
  /\ owner \in [Handler -> Opt(Task)]
  /\ hcell \in [Handler -> Identity]
  /\ gate \in [Handler -> Opt({"transport_unavailable", "missing_credential", "malformed",
                               "invalid_credential", "authenticated", "unauthenticated"})]

Init ==
  /\ config \in Config
  /\ pc = [t \in Task |-> "idle"]
  /\ req = [t \in Task |-> None]
  /\ cell = [t \in Task |-> Nobody]
  /\ saved = [t \in Task |-> None]
  /\ answer = [t \in Task |-> None]
  /\ hpc = [h \in Handler |-> "free"]
  /\ hreq = [h \in Handler |-> None]
  /\ owner = [h \in Handler |-> None]
  /\ hcell = [h \in Handler |-> Nobody]
  /\ gate = [h \in Handler |-> None]

-------------------------------------------------------------------------------
(***************************************************************************)
(* The middleware.                                                          *)
(***************************************************************************)
Receive(t, q) ==
  /\ pc[t] = "idle"
  /\ pc' = [pc EXCEPT ![t] = "called"]
  /\ req' = [req EXCEPT ![t] = q]
  /\ answer' = [answer EXCEPT ![t] = None]
  /\ UNCHANGED <<config, cell, saved, handlers>>

Bypasses(q) == q.kind \in {"lifespan", "probe"}

\* Lifespan events and the probes are handed on as they are.
Bypass(t) ==
  /\ pc[t] = "called"
  /\ Bypasses(req[t])
  /\ pc' = [pc EXCEPT ![t] = "inside"]
  /\ UNCHANGED <<config, req, cell, saved, answer, handlers>>

\* hmac.compare_digest accepts ASCII text only.
Compares(q)     == config.secretSet /\ TokenOf(q) # None
CompareFails(q) == Compares(q) /\ TokenOf(q) = "nonascii"

Accepts_AnyBearer(q) == Compares(q)  \* seeded fault: a bearer is enough
Accepts(q) == Compares(q) /\ TokenOf(q) = "right"

\* What the middleware answers itself: the context is read before the bearer.
\* Only ValueError is caught; another exception becomes the framework's error.
Refusal(q) ==
  CASE Unreadable(q)                                          -> "INVALID_CONTEXT"
    [] Invalid(q) \/ (Readable(q) /\ CompareFails(q))         -> "SERVER_ERROR"
    [] Readable(q) /\ ~CompareFails(q) /\ config.required /\ TokenOf(q) = None
                                                              -> "AUTHENTICATION_REQUIRED"
    [] Readable(q) /\ ~CompareFails(q) /\ config.required /\ TokenOf(q) # None
         /\ ~Accepts(q)                                       -> "AUTHENTICATION_FAILED"
    [] OTHER                                                  -> None

Refuse(t) ==
  /\ pc[t] = "called"
  /\ ~Bypasses(req[t]) /\ Refusal(req[t]) # None
  /\ answer' = [answer EXCEPT ![t] = Refusal(req[t])]
  /\ pc' = [pc EXCEPT ![t] = "idle"]
  /\ UNCHANGED <<config, req, cell, saved, handlers>>

Bind_Everywhere(c, t, v) == [k \in Task |-> v]   \* seeded fault: a module variable
Bind(c, t, v) == [c EXCEPT ![t] = v]

\* auth_request_scope is entered: with the token, or with the context alone.
OpenScope(t) ==
  /\ pc[t] = "called"
  /\ ~Bypasses(req[t]) /\ Refusal(req[t]) = None
  /\ Accepts(req[t]) \/ AssertedBy(req[t]) # None
  /\ saved' = [saved EXCEPT ![t] = cell[t]]
  /\ cell' = Bind(cell, t, [secret   |-> IF Accepts(req[t]) THEN TokenOf(req[t]) ELSE None,
                            asserted |-> AssertedBy(req[t])])
  /\ pc' = [pc EXCEPT ![t] = "inside"]
  /\ UNCHANGED <<config, req, answer, handlers>>

\* Nothing to bind, and nothing is required.
Anonymous(t) ==
  /\ pc[t] = "called"
  /\ ~Bypasses(req[t]) /\ Refusal(req[t]) = None
  /\ ~Accepts(req[t]) /\ AssertedBy(req[t]) = None
  /\ pc' = [pc EXCEPT ![t] = "inside"]
  /\ UNCHANGED <<config, req, cell, saved, answer, handlers>>

Restore_OnSuccess(t, how) ==    \* seeded fault: no finally
  IF saved[t] = None \/ how = "DROPPED" THEN cell ELSE Bind(cell, t, saved[t])

\* The finally of auth_request_scope, on every way out.
Restore(t, how) == IF saved[t] = None THEN cell ELSE Bind(cell, t, saved[t])

Leave(t, how) ==
  /\ cell' = Restore(t, how)
  /\ saved' = [saved EXCEPT ![t] = None]
  /\ answer' = [answer EXCEPT ![t] = how]
  /\ pc' = [pc EXCEPT ![t] = "idle"]

-------------------------------------------------------------------------------
(***************************************************************************)
(* The application behind it: the SDK's session, and the tool calls.        *)
(***************************************************************************)
Serves(t, h) == owner[h] = t

\* The message of the request is handed to the session, which runs the tool on
\* a copy of the sender's context variables.
Dispatch(t, h) ==
  /\ pc[t] = "inside" /\ req[t].kind = "mcp"
  /\ hpc[h] = "free" /\ \A k \in Handler : ~Serves(t, k)
  /\ hpc' = [hpc EXCEPT ![h] = "started"]
  /\ hreq' = [hreq EXCEPT ![h] = req[t]]
  /\ owner' = [owner EXCEPT ![h] = t]
  /\ hcell' = [hcell EXCEPT ![h] = cell[t]]
  /\ UNCHANGED <<config, tasks, gate>>

\* resolve_execution_auth reads the copy, and then the environment.
Resolve(h) ==
  /\ hpc[h] = "started"
  /\ hpc' = [hpc EXCEPT ![h] = "resolved"]
  /\ gate' = [gate EXCEPT ![h] =
       Gate!AuthStatus(Gate!PresentedSecret(None, hcell[h].secret, config.env))]
  /\ UNCHANGED <<config, tasks, hreq, owner, hcell>>

Finish(h) ==
  /\ hpc[h] = "resolved"
  /\ hpc' = [hpc EXCEPT ![h] = "finished"]
  /\ UNCHANGED <<config, tasks, hreq, owner, hcell, gate>>

Freed(h) == /\ hpc' = [hpc EXCEPT ![h] = "free"]
            /\ hreq' = [hreq EXCEPT ![h] = None]
            /\ owner' = [owner EXCEPT ![h] = None]
            /\ hcell' = [hcell EXCEPT ![h] = Nobody]
            /\ gate' = [gate EXCEPT ![h] = None]

\* The result of the tool call is the answer to the request.
Answer(t, h) ==
  /\ pc[t] = "inside" /\ Serves(t, h) /\ hpc[h] = "finished"
  /\ Freed(h)
  /\ Leave(t, "OK")
  /\ UNCHANGED <<config, req>>

\* A request that starts no tool call: a probe, a lifespan event, a message of
\* the protocol.
AnswerAtOnce(t) ==
  /\ pc[t] = "inside" /\ \A h \in Handler : ~Serves(t, h)
  /\ Leave(t, "OK")
  /\ UNCHANGED <<config, req, handlers>>

\* The client hangs up, or the application raises: the request ends, its tool
\* call goes on.
Drop(t) ==
  /\ pc[t] = "inside"
  /\ Leave(t, "DROPPED")
  /\ owner' = [h \in Handler |-> IF Serves(t, h) THEN None ELSE owner[h]]
  /\ UNCHANGED <<config, req, hpc, hreq, hcell, gate>>

\* Nobody waits for the result.
Discard(h) ==
  /\ hpc[h] = "finished" /\ owner[h] = None
  /\ Freed(h)
  /\ UNCHANGED <<config, tasks>>

Next ==
  \/ \E t \in Task : \/ \E q \in Request : Receive(t, q)
                     \/ Bypass(t) \/ Refuse(t) \/ OpenScope(t) \/ Anonymous(t)
                     \/ AnswerAtOnce(t) \/ Drop(t)
                     \/ \E h \in Handler : Dispatch(t, h) \/ Answer(t, h)
  \/ \E h \in Handler : Resolve(h) \/ Finish(h) \/ Discard(h)

Spec == Init /\ [][Next]_vars

-------------------------------------------------------------------------------
(***************************************************************************)
(* Properties.                                                              *)
(***************************************************************************)

\* A tool call, also one whose client has hung up, acts under the identity its
\* own request carried and no other: that context, and that token or none.
SeesItsOwnRequest ==
  \A h \in Handler : hpc[h] # "free" =>
    /\ hcell[h].asserted = AssertedBy(hreq[h])
    /\ hcell[h].secret \in {None, TokenOf(hreq[h])}

\* When a request is over, however it ended, its task holds no identity that the
\* next request or probe on the same task could inherit.
NothingLeftBehind ==
  \A t \in Task : pc[t] # "inside" \/ Bypasses(req[t]) => cell[t] = Nobody

\* Middleware and gate agree: where authentication is required a tool call that
\* was let in is authenticated by the bearer of its own request; elsewhere by
\* that bearer or by the secret of the environment.
TrustIsEarned ==
  \A h \in Handler : hpc[h] \in {"resolved", "finished"} =>
    /\ config.required => gate[h] = "authenticated" /\ hreq[h].bearer = "right"
    /\ gate[h] = "authenticated" => hreq[h].bearer = "right" \/ config.env = "right"

\* docs/STAGE13_LIVE_ECOSYSTEM_INTEGRATION.md: malformed or oversized context
\* fails closed with INVALID_CONTEXT.
BadContextIsNamed ==
  \A t \in Task :
    /\ pc[t] = "idle" /\ req[t] # None /\ req[t].kind = "mcp"
    /\ ~Readable(req[t])
    => answer[t] = "INVALID_CONTEXT"
==============================================================================
