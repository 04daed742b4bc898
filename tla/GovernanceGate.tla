---------------------------- MODULE GovernanceGate ----------------------------
(***************************************************************************)
(* GovernanceGate.wrap_tool and execute (governance/gate.py): the single    *)
(* path every served tool call takes, run by one thread per call.           *)
(*                                                                          *)
(*   idle -> admitted -> authenticated -> approved -> requested             *)
(*        -> running -> returned | raised -> unwinding -> answered          *)
(*                                                                          *)
(* An over-limit call goes from idle to answered; an error raised on the    *)
(* way goes to unwinding, the "finally" that gives the slot back.  The      *)
(* threads share the semaphore, the approval store and the environment.     *)
(***************************************************************************)
EXTENDS Integers, Sequences, FiniteSets, Authentication, ApprovalStore

CONSTANTS
  Call,            \* the calls clients make: records of CallType
  Req,             \* the threads, one per call
  Risk,            \* the catalog: risk level of each registered tool
  Limit,           \* max_concurrent_requests
  HasStore,        \* an approval store is attached to the gate
  Remote,          \* ServerConfig.remote_enabled
  EnvSecret,       \* YASIN_MCP_PRESENT_AUTH_TOKEN
  EnvTokens,       \* what the host may put in YASIN_MCP_PRESENT_APPROVAL_TOKEN
  ToolErrors,      \* errors a tool body may raise
  AuditorMayRaise  \* the injected AuditRecorder may raise

Presented == Opt(Token \cup {Empty, Blank})

CallType == [tool : Tool, token : Presented, secret : Opt(Secret),
             scopeSecret : Opt(Secret), asserted : Opt(Context)]

GateAssumption ==
  /\ Call \subseteq CallType
  /\ DOMAIN Risk \subseteq Tool /\ \A t \in DOMAIN Risk : Risk[t] \in RiskLevel
  /\ IsFiniteSet(Req)
  /\ Limit \in Nat \ {0}
  /\ HasStore \in BOOLEAN /\ Remote \in BOOLEAN /\ AuditorMayRaise \in BOOLEAN
  /\ EnvSecret \in Opt(Secret)
  /\ EnvTokens \subseteq Token \cup {Blank}
  /\ ToolErrors \subseteq [class : ErrorClass \ {"none", "exit"}, detail : {""}]
  /\ None \notin CallType /\ None \notin Nat /\ None \notin Decision
ASSUME GateAssumption

VARIABLES
  slots,     \* _concurrency_slots: permits left
  envToken,  \* YASIN_MCP_PRESENT_APPROVAL_TOKEN, read again by every call
  pc,        \* where each thread is
  call,      \* the arguments of its call
  token,     \* local approval_token
  ctx,       \* local context, after authentication
  outcome,   \* the exception it carries, or NoError
  trail,     \* audit events recorded for its call
  answer,    \* what the client received
  ran,       \* history: the tool body was entered
  grantedAt  \* history: when its token was granted, or None

local == <<call, token, ctx>>
ghost == <<ran, grantedAt>>
vars  == <<entries, clock, slots, envToken, pc, call, token, ctx, outcome, trail, answer,
           ran, grantedAt>>

PC == {"idle", "admitted", "authenticated", "approved", "requested", "running",
       "returned", "raised", "unwinding", "answered"}

EventType == {"REQUEST", "DECISION", "RESULT", "FAILURE"}
Event     == [type : EventType, decision : Opt(Decision)]

TypeOK ==
  /\ StoreTypeOK
  /\ slots \in Nat
  /\ envToken \in Presented \ {Empty}
  /\ pc \in [Req -> PC]
  /\ call \in [Req -> Opt(CallType)]
  /\ \A r \in Req : pc[r] # "idle" => call[r] \in CallType
  /\ token \in [Req -> Presented]
  /\ ctx \in [Req -> Context]
  /\ outcome \in [Req -> ErrorRecord]
  /\ trail \in [Req -> Seq(Event)]
  /\ answer \in [Req -> Opt(Answer)]
  /\ ran \in [Req -> BOOLEAN]
  /\ grantedAt \in [Req -> Opt(Nat)]

Init ==
  /\ StoreInit
  /\ slots = Limit
  /\ envToken = None
  /\ pc = [r \in Req |-> "idle"]
  /\ call = [r \in Req |-> None]
  /\ token = [r \in Req |-> None]
  /\ ctx = [r \in Req |-> EmptyContext]
  /\ outcome = [r \in Req |-> NoError]
  /\ trail = [r \in Req |-> <<>>]
  /\ answer = [r \in Req |-> None]
  /\ ran = [r \in Req |-> FALSE]
  /\ grantedAt = [r \in Req |-> None]

Goto(r, label)  == pc' = [pc EXCEPT ![r] = label]
Raise(r, e)     == outcome' = [outcome EXCEPT ![r] = e] /\ Goto(r, "unwinding")
Record(r, t, d) == trail' = [trail EXCEPT ![r] = Append(@, [type |-> t, decision |-> d])]

-------------------------------------------------------------------------------
(***************************************************************************)
(* Policy: ToolRiskCatalog.resolve and DefaultConservativePolicy.evaluate.  *)
(***************************************************************************)
Known(tool)  == tool \in DOMAIN Risk
RiskOf(tool) == IF Known(tool) THEN Risk[tool] ELSE "HIGH_RISK"

Evaluate(tool, c) ==
  CASE RiskOf(tool) \in {"READ_ONLY", "LOW_RISK"} -> "ALLOW"
    [] RiskOf(tool) = "MUTATION" ->
         IF c.approval = "granted" THEN "ALLOW" ELSE "APPROVAL_REQUIRED"
    [] RiskOf(tool) = "HIGH_RISK" -> "DENY"

Refusal(tool, decision) ==
  Error("policy_denied",
        CASE decision = "APPROVAL_REQUIRED"        -> "approval_required"
          [] decision = "DENY" /\ ~Known(tool)     -> "deny_unknown"
          [] decision = "DENY" /\ Known(tool)      -> "deny")

-------------------------------------------------------------------------------
(***************************************************************************)
(* wrap_tool: admission, and the finally block.                             *)
(***************************************************************************)
PermitFree_Untested == TRUE      \* seeded fault: acquire is not tested
PermitFree == slots > 0

\* acquire(blocking=False) succeeds.
Admit(r, c) ==
  /\ pc[r] = "idle"
  /\ PermitFree
  /\ slots' = slots - 1
  /\ call' = [call EXCEPT ![r] = c]
  /\ Goto(r, "admitted")
  /\ UNCHANGED <<store, envToken, token, ctx, outcome, trail, answer, ghost>>

\* acquire(blocking=False) fails: the client is told at once.
TurnAway(r, c) ==
  /\ pc[r] = "idle"
  /\ slots = 0
  /\ call' = [call EXCEPT ![r] = c]
  /\ outcome' = [outcome EXCEPT ![r] = Error("rate_limited", "over_limit")]
  /\ answer' = [answer EXCEPT ![r] = AnswerTo(Error("rate_limited", "over_limit"))]
  /\ Goto(r, "answered")
  /\ UNCHANGED <<store, slots, envToken, token, ctx, trail, ghost>>

Returned_OnSuccess(r) ==         \* seeded fault: no finally around the body
  IF outcome[r] = NoError THEN slots + 1 ELSE slots
Returned(r) == slots + 1

\* finally: the permit goes back whatever happened, then the client is answered.
Release(r) ==
  /\ pc[r] = "unwinding"
  /\ slots' = Returned(r)
  /\ answer' = [answer EXCEPT ![r] = AnswerTo(outcome[r])]
  /\ Goto(r, "answered")
  /\ UNCHANGED <<store, envToken, local, outcome, trail, ghost>>

-------------------------------------------------------------------------------
(***************************************************************************)
(* execute.                                                                 *)
(***************************************************************************)

\* _extract_approval_token: the keyword wins; the environment serves local
\* processes only.
ApprovalToken(c) ==
  IF c.token # None \/ Remote THEN c.token ELSE envToken

SecretOf(c) == PresentedSecret(c.secret, c.scopeSecret, EnvSecret)

\* The reserved keywords are taken out of the arguments and the call is
\* authenticated and bound; an error leaves no audit event.
Authenticate(r) ==
  /\ pc[r] = "admitted"
  /\ token' = [token EXCEPT ![r] = ApprovalToken(call[r])]
  /\ LET e == AuthError(call[r].asserted, SecretOf(call[r])) IN
     \/ /\ e = NoError
        /\ ctx' = [ctx EXCEPT ![r] = BoundContext(call[r].asserted)]
        /\ Goto(r, "authenticated")
        /\ UNCHANGED outcome
     \/ /\ e # NoError
        /\ Raise(r, e)
        /\ UNCHANGED ctx
  /\ UNCHANGED <<store, slots, envToken, call, trail, answer, ghost>>

\* _apply_approval takes part for mutations and whenever a token is presented.
NeedsApproval(r) == RiskOf(call[r].tool) = "MUTATION" \/ token[r] # None

TokenUnusable_Ignored(r) == FALSE  \* seeded fault: a token nobody can check is dropped
TokenUnusable(r) == RiskOf(call[r].tool) = "MUTATION" /\ token[r] \notin {None, Empty}

\* Without a store a presented token, be it only spaces, cannot be honoured; the
\* context stays.
NoStoreApproval(r) ==
  /\ pc[r] = "authenticated"
  /\ NeedsApproval(r) /\ ~HasStore
  /\ IF TokenUnusable(r)
     THEN Raise(r, Error("validation", "approval_no_store"))
     ELSE Goto(r, "approved") /\ UNCHANGED outcome
  /\ UNCHANGED <<store, slots, envToken, local, trail, answer, ghost>>

SkipApproval(r) ==
  /\ pc[r] = "authenticated"
  /\ ~NeedsApproval(r)
  /\ Goto(r, "approved")
  /\ UNCHANGED <<store, slots, envToken, local, outcome, trail, answer, ghost>>

VerdictFor(r) == Verdict(token[r], call[r].tool, ctx[r])

WithStatus_Lost(c, s) == c       \* seeded fault: the status never reaches the context
WithStatus(c, s) == [c EXCEPT !.approval = s]

\* validate_and_consume grants: the token is spent here, before the policy
\* is asked, and the status overwrites whatever the caller asserted.
GrantApproval(r) ==
  /\ pc[r] = "authenticated"
  /\ NeedsApproval(r) /\ HasStore
  /\ VerdictFor(r) = "granted"
  /\ Consume(token[r])
  /\ ctx' = [ctx EXCEPT ![r] = WithStatus(@, "granted")]
  /\ grantedAt' = [grantedAt EXCEPT ![r] = clock]
  /\ Goto(r, "approved")
  /\ UNCHANGED <<clock, slots, envToken, call, token, outcome, trail, answer, ran>>

\* No token: the policy will decide.
LackApproval(r) ==
  /\ pc[r] = "authenticated"
  /\ NeedsApproval(r) /\ HasStore
  /\ VerdictFor(r) = "missing"
  /\ ctx' = [ctx EXCEPT ![r] = WithStatus(@, "missing")]
  /\ Goto(r, "approved")
  /\ UNCHANGED <<store, slots, envToken, call, token, outcome, trail, answer, ghost>>

\* Any other verdict ends the call, whatever the risk of the tool.
RejectApproval(r) ==
  /\ pc[r] = "authenticated"
  /\ NeedsApproval(r) /\ HasStore
  /\ VerdictFor(r) \notin {"granted", "missing"}
  /\ Raise(r, Error("validation", "approval_rejected"))
  /\ UNCHANGED <<store, slots, envToken, local, trail, answer, ghost>>

ApplyApproval(r) ==
  \/ NoStoreApproval(r) \/ SkipApproval(r)
  \/ GrantApproval(r) \/ LackApproval(r) \/ RejectApproval(r)

\* evaluate depends on the call and its context alone, so it may be computed
\* wherever its result is read.
DecisionFor(r) == Evaluate(call[r].tool, ctx[r])

RecordRequest(r) ==
  /\ pc[r] = "approved"
  /\ Record(r, "REQUEST", None)
  /\ Goto(r, "requested")
  /\ UNCHANGED <<store, slots, envToken, local, outcome, answer, ghost>>

MayRun_NotDenied(d) == d # "DENY"  \* seeded fault: only DENY stops a call
MayRun(d) == d = "ALLOW"

\* The decision is recorded; only ALLOW enters the tool body.
Decide(r) ==
  /\ pc[r] = "requested"
  /\ Record(r, "DECISION", DecisionFor(r))
  /\ \/ /\ MayRun(DecisionFor(r))
        /\ Goto(r, "running")
        /\ ran' = [ran EXCEPT ![r] = TRUE]
        /\ UNCHANGED outcome
     \/ /\ ~MayRun(DecisionFor(r))
        /\ Raise(r, Refusal(call[r].tool, DecisionFor(r)))
        /\ UNCHANGED ran
  /\ UNCHANGED <<store, slots, envToken, local, answer, grantedAt>>

ToolReturns(r) ==
  /\ pc[r] = "running"
  /\ Goto(r, "returned")
  /\ UNCHANGED <<store, slots, envToken, local, outcome, trail, answer, ghost>>

ToolRaises(r, e) ==
  /\ pc[r] = "running"
  /\ outcome' = [outcome EXCEPT ![r] = e]
  /\ Goto(r, "raised")
  /\ UNCHANGED <<store, slots, envToken, local, trail, answer, ghost>>

\* A BaseException passes "except Exception": no event, only the finally.
ToolExits(r) ==
  /\ pc[r] = "running"
  /\ Raise(r, Error("exit", ""))
  /\ UNCHANGED <<store, slots, envToken, local, trail, answer, ghost>>

OutcomeEvent_AlwaysResult(r) == "RESULT"  \* seeded fault: the except branch records success
OutcomeEvent(r) == IF pc[r] = "raised" THEN "FAILURE" ELSE "RESULT"

Over_ReturnOnly(r) == pc[r] = "returned"  \* seeded fault: an error of the body is not unwound
Over(r) == pc[r] \in {"returned", "raised"}

RecordOutcome(r) ==
  /\ Over(r)
  /\ Record(r, OutcomeEvent(r), DecisionFor(r))
  /\ Goto(r, "unwinding")
  /\ UNCHANGED <<store, slots, envToken, local, outcome, answer, ghost>>

\* An AuditRecorder that raises replaces what the call was about to do.
AuditorRaises(r) ==
  /\ AuditorMayRaise
  /\ pc[r] \in {"approved", "requested", "returned", "raised"}
  /\ Raise(r, Error("raw", ""))
  /\ UNCHANGED <<store, slots, envToken, local, trail, answer, ghost>>

-------------------------------------------------------------------------------
(***************************************************************************)
(* The surroundings: the host that embeds the runtime, and time.            *)
(***************************************************************************)
HostIssues(t, q) ==
  /\ HasStore
  /\ Issue(t, q)
  /\ UNCHANGED <<slots, envToken, pc, local, outcome, trail, answer, ghost>>

HostExports(t) ==
  /\ envToken # t
  /\ envToken' = t
  /\ UNCHANGED <<store, slots, pc, local, outcome, trail, answer, ghost>>

TimePasses ==
  /\ Tick
  /\ UNCHANGED <<slots, envToken, pc, local, outcome, trail, answer, ghost>>

\* The steps of the gate itself, and those of the tool body it called.
GateStep(r) ==
  \/ Authenticate(r) \/ ApplyApproval(r) \/ RecordRequest(r) \/ Decide(r)
  \/ RecordOutcome(r) \/ Release(r)
ToolStep(r) == ToolReturns(r) \/ ToolExits(r) \/ \E e \in ToolErrors : ToolRaises(r, e)

Next ==
  \/ \E r \in Req, c \in Call : Admit(r, c) \/ TurnAway(r, c)
  \/ \E r \in Req : GateStep(r) \/ ToolStep(r) \/ AuditorRaises(r)
  \/ \E t \in Token, q \in Issuable : HostIssues(t, q)
  \/ \E t \in EnvTokens : HostExports(t)
  \/ TimePasses

Spec == Init /\ [][Next]_vars

\* A thread that can go on does, and every tool body ends: the adapters bound
\* each upstream call with a timeout.  Clients, host and clock owe nothing,
\* and no progress rests on an auditor that raises.
FairSpec == Spec /\ \A r \in Req : WF_vars(GateStep(r)) /\ WF_vars(ToolStep(r))

-------------------------------------------------------------------------------
(***************************************************************************)
(* Properties.                                                              *)
(***************************************************************************)
Inside   == {r \in Req : pc[r] \notin {"idle", "answered"}}
Mutation(r) == RiskOf(call[r].tool) = "MUTATION"

\* BoundedSemaphore discipline: the permits left and the calls inside always
\* add up to the limit, on every path through the finally block.
PermitsConserved == slots + Cardinality(Inside) = Limit

\* The grant behind the token of a call is for this call, as far as the store
\* compares them: its tool, the request and project it names, and the agent where
\* the call names one too: a call that names none passes (store.py:98), although
\* docs/STAGE11_GOVERNED_CAPABILITIES_APPROVAL.md:18 calls a token bound to its subject.
\* The grant had not expired when it was given, and is marked if single-use.
GrantCovers(r) ==
  LET e == entries[token[r]] IN
  /\ token[r] \in Token /\ e # None
  /\ ~IsExpired(e.grant, grantedAt[r])
  /\ e.grant.tool = call[r].tool
  /\ e.grant.subject \in {None, ctx[r].agent} \/ ctx[r].agent = None
  /\ e.grant.request \in {None, ctx[r].request}
  /\ e.grant.project \in {None, ctx[r].project}
  /\ e.grant.single => e.consumed

\* With a store a mutation runs on a grant of its own and on nothing else: the
\* store granted the token it presented, or took from the environment, and that
\* grant covers it; no asserted status replaces it (_apply_approval).
MutationRunsOnItsGrant ==
  HasStore =>
    \A r \in Req : ran[r] /\ Mutation(r) => grantedAt[r] # None /\ GrantCovers(r)

\* A token a mutation comes with is checked or the call is refused: where nobody
\* can check it, the call does not run on the status it asserts besides
\* (_apply_approval, gate.py:135).
TokenIsNeverDropped ==
  \A r \in Req :
    ran[r] /\ Mutation(r) /\ token[r] \notin {None, Empty} => HasStore /\ grantedAt[r] # None

\* docs/STAGE11_GOVERNED_CAPABILITIES_APPROVAL.md: a caller's approval_status is
\* not trusted without a server token (a gate without a store lets it decide).
ClaimsAreNotTrusted == \A r \in Req : ran[r] /\ Mutation(r) => grantedAt[r] # None

\* However the threads interleave, a single-use token is granted to one call.
SingleUseGrantedOnce ==
  \A r, s \in Req :
    /\ r # s /\ grantedAt[r] # None /\ grantedAt[s] # None
    /\ token[r] = token[s]
    => ~entries[token[r]].grant.single

\* The audit trail of a call tells its story: the body ran only after a
\* request and an ALLOW were recorded, a call that did not run shows neither an
\* ALLOW nor an outcome, and success is recorded exactly when it is reported.
Events(r, t) == {i \in DOMAIN trail[r] : trail[r][i].type = t}
AuditTellsTheStory ==
  \A r \in Req :
    /\ ran[r] => /\ Len(trail[r]) >= 2
                 /\ trail[r][1].type = "REQUEST"
                 /\ trail[r][2] = [type |-> "DECISION", decision |-> "ALLOW"]
    /\ ~ran[r] => \A i \in DOMAIN trail[r] : /\ trail[r][i].type \in {"REQUEST", "DECISION"}
                                             /\ trail[r][i].decision # "ALLOW"
    /\ Cardinality(Events(r, "RESULT") \cup Events(r, "FAILURE")) <= 1
    /\ pc[r] = "answered" => (answer[r] = "OK" <=> Events(r, "RESULT") # {})

\* What a client may conclude from a refusal: these codes mean that the body
\* never ran; a call refused for its identity or for lack of a permit spent no
\* approval and left no audit event.
RefusalIsClean ==
  \A r \in Req : pc[r] = "answered" =>
    /\ answer[r] \in {"APPROVAL_REQUIRED", "UNKNOWN_TOOL", "INVALID_CONTEXT",
                      "AUTHENTICATION_FAILED"} => ~ran[r]
    /\ \/ answer[r] \in {"INVALID_CONTEXT", "AUTHENTICATION_FAILED"}
       \/ outcome[r].detail \in {"over_limit", "missing_credential"}
       => ~ran[r] /\ grantedAt[r] = None /\ trail[r] = <<>>

\* Where the auditor does not fail, a mutation whose token was granted does run:
\* nothing between the store and the tool body can refuse it any more.
SpentGrantIsUsed ==
  ~AuditorMayRaise =>
    \A r \in Req : pc[r] = "answered" /\ grantedAt[r] # None /\ Mutation(r) => ran[r]

\* Where authentication is required, nothing happens on behalf of a call that
\* did not present the secret, or that asserts to be someone else.
Vouched(r) == /\ SecretOf(call[r]) = "right"
              /\ ~Impersonates(AssertedOrEmpty(call[r].asserted))
NothingWithoutIdentity ==
  Attached /\ RequireAuth =>
    \A r \in Req : ran[r] \/ grantedAt[r] # None \/ trail[r] # <<>> => Vouched(r)

\* Once issued, a grant keeps its binding and its expiry, and a consumed token
\* stays on record as consumed: a replay is always recognised as one.
GrantsNeverRevive ==
  [][\A t \in Token : entries[t] # None =>
        /\ entries'[t] # None
        /\ entries'[t].grant = entries[t].grant
        /\ entries[t].consumed => entries'[t].consumed]_vars

\* Every call that was let in is answered, whatever the other calls do.
EveryCallAnswered == \A r \in Req : r \in Inside ~> pc[r] = "answered"

\* errors/errors.py: no raw exception crosses a public boundary uncaught.
OnlyStructuredErrors == \A r \in Req : pc[r] = "answered" => outcome[r].class # "raw"
==============================================================================
