# A verification of Yasin-MCP

Yasin-MCP is a server through which agents use documents, GitHub, an operations
service and a deployment provider. Every served tool call passes one governance
gate. This project models that gate, what it rests on, the transport in front of
it, the start-up that fills it, and the reads and commands that run behind it in
TLA+, checks small instances with TLC, and proves the main safety properties with
TLAPS for every instance. All paths below are relative to `src/src/yasin_mcp/`.

## 1. The system

| component | state | operations | talks to |
|---|---|---|---|
| governance gate (`governance/gate.py`) | a bounded semaphore | `wrap_tool`: take a permit, `execute`, translate errors, give the permit back; `execute`: authenticate, approve, decide, record, run | everything below, from one thread per call |
| catalog and policy (`governance/catalog.py`, `policy.py`, `types.py`) | risk of each tool, fixed before serving | `resolve`, `evaluate` | gate |
| audit events (`governance/audit.py`) | the recorder's | `record` | gate; the recorder is injected and may fail |
| approval store (`approval/`) | a lock, a table from token to grant and mark | `issue`, `validate_and_consume` | `issue` is called by the embedding host, the other by the gate |
| authentication (`auth/`) | two context variables per asyncio task (`request_state.py`) | extract, compare, bind; open and close the scope of a request | gate, remote transport |
| error contract (`errors/`) | none | error to client code | gate |
| configuration (`config/`) | frozen | validation | everything |
| remote transport (`transport/`) | none | check bearer, parse context, open the request scope | authentication |
| retry (`reliability/`) | attempt counter | bounded GET | GitHub adapter |
| adapters and tools (`adapters/`, `tools/`, `providers/`) | little: clients, a loaded registry | read documents, repositories, operations; run the provider's CLI | outside services |
| capability registry and runtime (`capabilities/`, `server/`) | tables filled at start-up | `create`, `register` | everything |
| tracing and logging (`audit/`) | a context variable | `run_traced`, `request_scope` | tools |
| contracts and compatibility (`contracts/`, `compat/`, `protocol/`) | none | parse, validate, translate | transport, adapters |

What is hard: many threads share the semaphore, the approval table and the
environment; a single-use approval may be spent by one of them only; grants
expire while they are being checked; the approval is consumed before the policy
decides and before the body runs, so a failure in between matters; bodies,
recorders and clients may fail at every point, and a permit must come back
whatever happens; one gate serves configurations with and without a store, with
and without a secret. `PROJECT.json` lists these hazards at their lines, with
the properties that address each.

What makes each part correct:

* gate: permits conserved; nothing before identity; a mutation only on its own
  grant; an honest trail; codes a client can rely on; every call answered;
* store: indivisible in effect; single-use grants serve once; nothing revives;
* authentication: required means required; nobody impersonates the subject;
* transport: a call acts under the identity of its own request; the scope of a
  request ends with it; a malformed context is refused;
* retry: bounded attempts, only of idempotent reads, the last failure reported;
* adapters: bounded results, failures translated, partial failures visible;
* registry lookups: the first name that is there wins, and "missing" is true;
* commands: one change asked of the provider per approval, whatever times out; a
  failure that says whether anything ran; no child outside its call; no success
  or health that the gateway did not report;
* tracing: a call carries the id of the innermost scope around it;
* runtime: no tool is served that the catalog does not know, or under another
  risk than its own; no half-built server; one registry, one runtime.

## 2. Modules

| module | models | correspondence |
|---|---|---|
| `GovernanceTypes` | the shared vocabulary | a `Context` keeps the fields that decisions read: agent, client, request, project, and `extra["approval_status"]` |
| `ErrorContract` | `errors/` | an error is its class and the datum `_code_for` reads; `AnswerTo` is what leaves `wrap_tool` |
| `Authentication` | `auth/`, the validation in `config.py` | pure operators; a secret is empty, right, wrong or not comparable |
| `ApprovalStore` | `approval/store.py`, `types.py` | table, clock, the checks in their order, and the operations as fragments |
| `ApprovalService` | what callers of the store rely on | a question is judged and its token consumed in one step |
| `ApprovalThreads` | the same code as threads run it | one action per step between lock, read, judgement and write back; `issue` builds its grant outside the lock |
| `GovernanceGate` | `wrap_tool` and `execute` | one process per call; one action per stretch of code between two points where other threads, the recorder or the body can matter |
| `GatePromise` | what a client of the gate relies on | enter or be turned away, spend a permission, perform, leave |
| `GateRefinement` | the mappings from the gate to its promise and to the service of the store | `KeepsPromise`, `AsksTheService` |
| `UpstreamReads` | `adapters/docs.py`, `adapters/project_registry.py`, `adapters/github.py`, `reliability/` | one read, request by request, against a repository that changes |
| `Tracing` | `audit/context.py`, `audit/traced.py` | the request id of each thread and its stack of scopes |
| `CoreContracts` | `compat/core_contracts.py` | pure operators: the coercion of a status, a health, an error and a pid into the records of Yasin-Core, and the validation of those records |
| `ToolCommands` | `providers/runflare/client.py`, `adapters/operations.py` and their tools | the bodies that run a child process, inside `GatePromise` and `Tracing` |
| `RemoteTransport` | `transport/remote.py`, `bearer.py`, `auth/request_state.py`, the acceptance of a context in `contracts/integration_context.py` | tasks that serve one request after another, and the tool calls they start |
| `ServerStartup` | `ServerRuntime.create`, `capabilities/*_registration.py`, `registry.py` | attempts of a host, one after another, over registries and gates that outlive them |
| `GovernanceGate_proofs`, `GateStories_proofs`, `ApprovalThreads_proofs`, `UpstreamReads_proofs`, `ReadVerdicts_proofs`, `ToolCommands_proofs`, `RemoteTransport_proofs`, `ServerStartup_proofs` | | the theorems of section 5 |
| `MCGate`, `MCApproval`, `MCReads`, `MCCommands`, `MCTransport`, `MCStartup` | | calls, grants, questions, requests and tools of the runs |

How the gate's code becomes actions. `Admit` and `TurnAway` are the two results
of the non-blocking `acquire`. `Authenticate` takes the reserved keywords out of
the arguments and binds the context (gate.py:189-213). The five approval actions
are the paths through `_apply_approval`. `RecordRequest`, `Decide` and
`RecordOutcome` are the points where the recorder is called, and
`AuditorRaises` its failure at any of them. `ToolReturns`, `ToolRaises` and
`ToolExits` end the body: a value, an exception, or a `BaseException` that no
`except Exception` catches. `Release` is the `finally` block together with the
answer. `HostIssues`, `HostExports` and `TimePasses` are the surroundings.
`GovernanceGate` takes an operation of the store as one step; `ApprovalThreads`
shows that this is sound.

Two history variables, `ran` and `grantedAt`, remember that a body was entered
and when a token was granted; no guard reads them.

How a read becomes actions. `Begin` is the checks before any request. `GetTree`
and `GetFile` are one GET each with all the code up to the next one: the listing
and its limit, the document kept, the next candidate of an ADR, the end of a
search in its scope, the choice of an architecture document. `DocsFault` is a
GET that fails: nothing is retried there. `GithubOk`, `GithubRetry`,
`GithubFault` and `Resume` are the loop of `github_get_json`. `Commit` is an
author pushing to the repository between two of the requests. A registry lookup
tries the names of the registry one after the other; only "not found" lets it go
on, and `RegistryError` is what it makes of a document it did find: unreadable,
without a usable entry, without the project. A path is a number
in the order of `str`; a file is the number of times the query occurs in it and
whether it can be listed and fetched. The error classes are those of
`ErrorContract`, so a read is one of the bodies whose errors `GovernanceGate`
takes as `ToolErrors`. Three histories, `asked`, `last` and `past`, count the
requests, remember the outcome of the last one and everything that was ever at a
path during the read; no guard reads them.

How a command becomes actions. `GatePromise`, which the gate is shown to
implement, is reused as the gate around the body: `Call`, `Approve`, `Refuse` and
`Finish` are its steps. `Begin` is what the body checks first, `Launch` is
`subprocess.run` starting the child (the program may have gone since it was
looked for, or the system may refuse), `Expire` its timeout, `Collect` the output
of a child that has exited and what `_invoke` makes of it; the return code is not
looked at there, so it is not modelled. `ChildAsks` and `ChildExits` are the
child, `ProviderPerforms` is the deployment provider, which owes nothing to
anybody's timeout, and `Reinstall` changes which programs are there. An order is
what the provider was asked and has not done, an effect what it has done. `Trace`
is the embedding host that opens and closes `request_scope` around its calls.
A child's own children are not modelled: the timeout kills the child that the
code started, and what that one started may live on.

How a request becomes actions. `Bypass`, `Refuse`, `OpenScope` and `Anonymous`
are the ways through `RequireBearerAuthMiddleware.__call__`: handed on untouched,
answered by the middleware, handed on inside `auth_request_scope`, or handed on
with nothing to bind. `Leave` is what follows the `await` of the application, on
each way out, with the `finally` of the scope. A context header is its first
defect and the fields it asserts; a bearer is absent, no bearer, right, wrong, or
a text `compare_digest` refuses. Behind the middleware is the SDK's session,
which is external: a tool call runs on a copy of the context variables of the
task that sent its message, which is how contextvars and the SDK behave, and is
not stopped when its client hangs up. `Resolve` is the gate reading that copy; it
uses the operators of `Authentication`, so the middleware and the gate are
compared as they are written. `hreq` is a history.

How start-up becomes actions. `Begin` to `RegistrationsEnd` are the six calls of
registration functions, one contract at a time; a duplicate (`Duplicate`) leaves
`create` with what was registered so far. `Provider` and `ProviderRaises` are the
attempt to build the Runflare client: there, absent, or an exception that
`create` does not catch. `Classify` fills the gate's catalog where it has no entry
of its own, `Serve` wraps and adds a tool. Availability of the operations gateway
is read by `NextGroup` and used by `ServeOperations`; `PathChanges` may come in
between. A registry or gate that the host did not touch is what `create` makes
when it is given none. Histories: `tried`, `host`, and the field `fresh`.
`GovernanceGate` takes the catalog as a constant; `ServedUnderItsRisk` and
`RiskNeverRewritten` are why it may.

Operators whose names end in `_` and a word (`Consumed_Forgotten`) are seeded
faults: plausible bugs of the definition they stand beside. No specification
uses them; replacing the definition by its fault makes TLC violate the property
that guards it (`mutants` in `PROJECT.json`).

Abstractions. Tokens, names and ids are model values. Time is counted in units
of the shortest lifetime. A presented token is absent, the empty string, only
spaces (these two differ: without a store the code takes the first for no token
and refuses the second), or a token the store has or has not issued; the code
strips presented tokens, so a padded token is the token itself. Policy is
`DefaultConservativePolicy`, which the runtime installs; a custom policy is not
modelled. An embedded gate without a `ServerConfig` is `Attached = FALSE`; the
runtime always attaches one, so the runs do too, and the theorems cover both.

## 3. Runs

The runs of `MCGate` know one tool of each risk (`read`, `mark`, `wipe`) and a
name outside the catalog (`ghost`).

| run | instance | shows |
|---|---|---|
| `grants` | 2 threads, 2 permits, 2 tokens, one of them in the environment, 5 kinds of grant bound to tool, agent, request, project | a single-use token granted once; a granted mutation always runs; a mutation runs on its own grant; grants never revive |
| `auth` | 2 threads, authentication required, all credentials from all sources | nothing happens without identity; what refusal codes mean |
| `storeless` | a gate without a store, tokens of the call and of the environment, asserted statuses | a mutation that comes with a token does not run |
| `promise` | 2 threads, 1 permit, raising bodies and recorder, token or spaces in the environment, fair scheduling | types; permits conserved; the trail tells the story; the gate implements `GatePromise`; every call let in is answered |
| `service` | 2 callers, 2 issuers, 2 tokens, at lock level, fair | a token granted to one; the threads implement `ApprovalService`; no entry is lost; every waiting caller is served |
| `reads` | 3 paths, 2 files a listing, 2 retries, one commit of up to 2 files | what is served was there; a stable match is served; what is not found was absent; the first name wins; the budget of requests; every read ends |
| `commands` | 2 calls, 1 permit, 1 token, 3 operations, 3 answers, up to 2 nested scopes around one of the calls, one program removed | one order per grant; failures are honest; children are bounded; nothing is made up; the innermost id is sent; every command ends |
| `remote` | 2 tasks, 2 tool calls, requests with every bearer, without a context, with one and with a malformed one, every deployment | a call acts under its own identity; a scope ends with its request; middleware and gate agree |
| `startup` | 2 registries, 2 gates, 3 attempts, one or two tools of each group | tools are served under their risk; operations tools all or none; no half-filled registry serves; nothing classified is rewritten |
| `raw`, `context`, `claims` | | three places where the code and its documents disagree, section 4 |

Bounds. Two threads suffice for every race over one entry, one permit or one
trail; with one permit the second is turned away while the first is inside. Two
clock ticks let a grant be alive, expire before its use, and expire between
two uses. Two tokens let a call hold a token that is not the one granted to
another. Of the grants in `grants` three are bound to an agent, a request, or a
request and a project, all of the same mutation, and calls name the right one,
another one or none. `MaxClock` is the only counter bounded by a guard: time may always stop
in the model, so nothing depends on its going on. Each thread makes one call; a
client that makes several is several threads, since nothing but the shared state
survives a call. Runs that check only safety use the symmetry of threads.
Deadlock is not checked: when every call is answered, the system rests.

In `reads` three documents exceed the listing's limit by one, two of them are
the two names of an ADR and two are about architecture; one commit of two files
is enough for a rename between two requests, and one path can hold every kind of
file a read refuses. The bound on commits is `MaxChanges`, that on their size
`MaxTouched`, that on occurrences `MaxHits`; two of them rank three documents.

In `commands` a second call is enough to take the first one's grant, or its
permit while its child still runs; with one permit, a child that outlives its
call is one too many. Two scopes are needed to tell giving an id back from
clearing it, and the second call has none, so an id that leaked would show.
`MaxChanges` lets one program disappear between its check and its start. Of the
answers, one says that a service is running and leaves out a flag, one contradicts
itself, and one says as little as it can.

In `remote` the second task is the one whose identity could leak into the first,
and the second tool call the one that outlives its request; tasks serve requests
without end, so nothing bounds how long a run goes on. In `startup` the third
attempt can meet a registry that failed and a gate that serves; `MaxAttempts`
bounds them. Two of the host's registries collide with a name of `create`, one
early and one only where the gateway is found. `remote` checks deadlock; in `startup`
the gateway may always come or go, so a deadlock check would say nothing.

Fairness. The gate's `FairSpec` assumes that a thread which can go on does so, and that a
body ends. The first is the scheduler's. The second is what the adapters arrange
with a timeout on every request; a body that hangs would keep its permit, and
the property says nothing then. Nothing is assumed of clients, of the host, of a
recorder that raises or of time. `FairThreads` assumes only weak fairness of the lock, which is enough
because each caller takes it once. The `FairSpec` of reads assumes that a request
ends, which the timeout given to `urlopen` arranges for a service that stops
answering, and that a pause ends; it assumes nothing of commits. The `FairSpec` of
commands is weak fairness of each thread's own steps, the timeout among them;
neither a child nor the provider ever has to move.

## 4. Where the code and its documents disagree

* `raw`: `errors/errors.py` says that raw exceptions never cross a public
  boundary. `wrap_tool` translates `McpError` only, so a `RuntimeError` of a body
  (such as the Runflare client's) leaves it untranslated.

* `context`: `docs/STAGE13_LIVE_ECOSYSTEM_INTEGRATION.md` says that malformed
  context fails closed with `INVALID_CONTEXT`. A header that is no JSON object
  does; a mapping with an unknown field, a malformed id or a claim of trust makes
  `from_mapping` raise `ValidationError`, which is no `ValueError` and leaves the
  middleware as the framework's error.

* `claims`: `docs/STAGE11_GOVERNED_CAPABILITIES_APPROVAL.md:18` says that a caller's
  `approval_status=granted` is not trusted without a server token. With a store it
  is not (`MutationRunsOnItsGrant`). `GovernanceGate` has none unless it is given
  one, and then hands the asserted status to the policy, which lets the mutation
  run (gate.py:135-141); a token presented besides makes it refuse the call
  (`TokenIsNeverDropped`). `ServerRuntime` always attaches a store, so the gates
  concerned are those a library user builds.

Noted while modelling, and checked by no run:

* The same line of `docs/STAGE11_GOVERNED_CAPABILITIES_APPROVAL.md` says that tokens
  are bound to tool, subject, request and project. The store compares the subject
  only where the call names an agent (approval/store.py:98): a call that names none
  may spend a token issued for one. Request and project are compared whether or not
  the call names them. Where authentication is required the context always names
  the authenticated subject, so the exemption concerns deployments without it.
  `GrantCovers`, and every property and theorem that uses it, has the exemption.
* `docs/OPERATIONS_INTEGRATION.md:27` gives `CONFIRMED` for a successful response with
  `service_available=true`. `_invoke` takes a missing flag for `True` and does not
  look at success (adapters/operations.py:240-249), so a response without the flag,
  and one that reports a failure, are confirmed too. `NothingMadeUp` claims of the
  evidence only what holds: what the gateway calls unavailable is not confirmed.
* `docs/DOCS_INTEGRATION.md:58` says that a rate limit gives `RateLimitedError`. The
  documentation adapter knows 403 only: a 429, which the GitHub adapter treats as
  the same thing and retries, is an `UpstreamError` (adapters/docs.py:274-276).
* A listing or a GitHub payload of the right kind with the wrong things in it (an
  item that is no object, a size that is no number) leaves the adapters as the
  Python exception it causes (`DocsError`, `GithubErrors`), which `raw` is about.
* A body that fails after its approval was spent does not get it back, and the code
  offers no way to; `SpentGrantIsUsed` says that no refusal comes in between.
* `_catalog_from_registry` takes a contract whose risk is no `RiskLevel` for
  `READ_ONLY`, where `docs/GOVERNANCE.md` says such metadata is rejected.
* A contract the host registered in one registry classifies the tool of that name
  for every runtime on the same gate, hence the exception in `ServedUnderItsRisk`.
* `runflare_stop` is registered and never served.
* The table in `docs/GOVERNANCE.md` gives `ALLOW` for `READ_ONLY`. That is the
  policy's answer; a local process with `YASIN_MCP_PRESENT_APPROVAL_TOKEN` set
  presents that token with every call, and one that is spent, expired or for
  another tool makes the gate reject a read-only call before the policy is asked
  (gate.py:62-63, 130).
* `docs/OPERATIONS_INTEGRATION.md:22` gives `UnavailableDependencyError` for a
  gateway that crashes. `_invoke` does not look at the return code: a gateway that
  crashes after a well-formed line has answered, and one that prints nothing is an
  `InternalError` (operations.py:206-234).
* `docs/RELIABILITY.md:8` says that the gateway's calls honour
  `request_timeout_seconds`; the operations adapter has 15 seconds of its own, as
  `docs/POST_ROADMAP_AUDIT.md` says.
* `docs/POST_ROADMAP_AUDIT.md` avoids a timeout after which a tool goes on changing
  things. The child does not go on (`ChildrenBounded`); what it has asked of the
  provider may (`OneOrderPerGrant`: one change at most).
* Log lines go to the standard output (`audit/logging_setup.py:70`), and every
  GitHub read configures logging again with the default level
  (`reliability/http_retry.py:33`).

## 5. Theorems

`GovernanceGate_proofs` proves, for every set of tools, tokens, calls and grants,
every finite set of threads, every limit and configuration allowed by the
assumptions:

| theorem | statement | argument |
|---|---|---|
| `TypeCorrect` | `[]TypeOK` | inductive as it stands; lemmas give the range of each operator |
| `NoGrantRevives` | `GrantsNeverRevive` | only granting and issuing write the table (`StoreWriters`), and both keep what is there (`EntryKept`) |
| `PermitsAlwaysConserved` | `[]PermitsConserved` | every step lets one thread in with a permit, one out with one, or neither (`Crossing`) |
| `MutationsAreGranted` | `[]MutationRunsOnItsGrant` | from `ApprovalInv` |
| `TokensAreChecked` | `[]TokenIsNeverDropped` | from `ApprovalInv`; without a store such a call never passes `NoStoreApproval` |
| `SingleUse` | `[]SingleUseGrantedOnce` | with `ApprovalInv`: a holder's single-use entry is marked, so the store refuses the next caller |
| `PassesExactlyThese` | when `AuthError` is no error | the statuses of `AuthStatus`, case by case |
| `GrantsExactlyThese` | when `Verdict` is "granted" | the chain of checks, each read against the grant |
| `RefusalsAreFinal` | `[][RefusedForGood]` | each ground for a refusal stays one: the mark and the grant by `EntryKept`, the expiry because the clock only advances |

`MutationRunsOnItsGrant` speaks of threads whose body has run and is not
inductive: it says nothing of a thread about to run. `ApprovalInv` follows each
thread instead: before approval it holds no grant; a granted thread stays
covered by its entry, because entries keep their grant and mark; and a thread
between approval and policy whose context says "granted" holds a grant, or runs
without a store and presents no token. `OneMover` reduces a step to the few actions
that matter to one thread and a frame (`Quiet`) for all others.

The last three are not about what happens to a call but about whom the gate
believes. `PassesExactlyThese` shows a consequence a reader of `bind_context`
may miss: where authentication is not required, a wrong secret is as good as
none, and the identity the call asserts is not looked at.

`GateStories_proofs` goes on from there with what one call leaves behind:

| theorem | statement | argument |
|---|---|---|
| `IdentityComesFirst` | `[]NothingWithoutIdentity` | `IdentityShape`: whatever has an event, a grant or a body has authenticated |
| `TrailsAreTrue` | `[]AuditTellsTheStory` | `StoryShape`: at each place the trail is one of four, and the answer is that of the outcome |
| `RefusalsAreClean` | `[]RefusalIsClean` | `CleanShape`: errors of the door come from the door, errors of a body have no detail; `AnswerStory` reads the codes |
| `NoGrantIsWasted` | `[]SpentGrantIsUsed` | `UseShape`: a granted thread carries the status the policy lets through |
| `GateKeepsPromise` | `KeepsPromise` | below |
| `GateAsksTheService` | `AsksTheService` | a grant is the service's `Ask`, which reads the same of a context before and after the status is set (`SameVerdict`); a granted call keeps its question (`GrantHeld`) |
| `OnlyAllowedToolsRun` | `[]OnlyAllowedRan` | `JudgedInv`: who runs was judged by the tool and context it still has |
| `NoApprovalIsLost` | `[]SpentOnACall` | an entry is marked by a grant only, and whoever was granted holds it for good |
| `CallsOnlyGoForward` | `[][ComesCloser(r)]` for every `r` | each action moves its call down `StepsLeft`; `OwnSteps` for the others |

The four shapes are one invariant, `StoryInv`: none speaks of another thread, so
`OthersStay` is all that interleaving takes. That the gate implements
`GatePromise` uses everything before it: a call that enters finds room because
permits are conserved; a token that is granted is nobody's exclusive permission,
because a holder's entry is covered and so marked (`ApprovalInv`); a mutation that
runs is entitled; an answer is no better than the story behind it (`StoryInv`).
Every other step is a stutter, since the entry behind a permission keeps its
grant (`PermissionKept`).

`GateAsksTheService` closes the chain from the lock to the gate: the threads of the
store implement `ApprovalService` (`ThreadsRefineService` below), the gate uses
nothing else of it, and so the single step in which `GovernanceGate` lets the
store judge and consume stands for the code under the lock. What the gate keeps
of an answer is the grant; a refusal ends the call and is a stutter here.

`ApprovalThreads_proofs` proves, for any callers, issuers, questions and grants:

| theorem | statement | argument |
|---|---|---|
| `ThreadsTypeCorrect` | `[]ThreadsTypeOK` | from `ThreadsInv` |
| `TokenServesOne` | `[]GrantedToOne` | the lock lets one caller judge at a time, and whoever was granted before has marked the entry (`GrantShape`) |
| `NoEntryIsLost` | `NoLostEntry` | `CallerShape`: what is written back is what is there; `DraftShape`: a draft's token is nobody else's |
| `ThreadsRefineService` | `ImplementsService` | a question takes effect when it is judged; until its write back only its caller is inside (`PendingHolds`), so the table the service shows is the one it judged |
| `LockIsNeverLeftBehind` | `[]LockComesBack` | `CallerShape`: whoever holds the lock is inside, at a place with a step of its own |
| `CallersOnlyGoForward` | `[][OnlyForward]` | each step moves its caller down `Ahead`, and only `Finish` lets go of the lock |

This is what allows `GovernanceGate` to take an operation of the store as one
step, for any number of threads. `ThreadsInv` is needed whole: a caller's copy of
an entry is current only because the lock keeps issuers out as well, and their
drafts from its token.

`UpstreamReads_proofs` proves, for every finite set of paths, every content of
the repository, every limit and every number of retries and commits:

| theorem | statement | argument |
|---|---|---|
| `ReadsTypeCorrect` | `[]TypeOK` | with `Progress`, which bounds the attempts |
| `ReadsStayInBudget` | `[]WithinBudget` | `Progress` keeps one request of the budget for each path to fetch, and equates requests with attempts |
| `NothingInvented` | `[]ServedWasThere` | `Honest`: the history holds what is in the repository, and what was found is in the history |
| `RankingHasOneFirst` | of any hits, `Before` puts exactly one first | the most hits, and among those the least path (`Least`) |
| `NoReadIsStuck` | `[]NeverStuck` | `Progress`; a listing of the size the code asks for exists (`ListingExists`), a set of paths has a first (`Least`) |
| `ReadsWearOut` | `[][WearsOut]` | `Left` counts the requests and pauses a read may still make |

`WithinBudget` alone is not inductive: a search near its budget could have any
number of paths left. `Ending` and `GoingOn` say once what all steps that end or
continue a read share. `Least` is the well-ordering of the naturals, from the
library's `NatLessThanWellFounded`; arguments that would be inductions take a
smallest counterexample instead.

`ReadVerdicts_proofs` goes on from there with what a read may conclude:

| theorem | statement | argument |
|---|---|---|
| `NothingStableIsMissed` | `[]StableMatchIsServed` | `Covered`: what stood still and matches is found or still to be fetched; a listing that was not cut held it |
| `NotFoundIsTrue` | `[]NotFoundWasAbsent` | `Names`: the candidates already tried were missing when they were tried |
| `FirstNameAlwaysWins` | `[]FirstNameWins` | `Names`, and the least candidate goes first (`EarlierWereMissing`) |

All three look back over the whole read, so their invariants speak of the history
(`LookingBack`: what stood still until now stood still before).

`ToolCommands_proofs` proves, for any calls, operations, answers, scopes and
limit, with and without an approval required:

| theorem | statement | argument |
|---|---|---|
| `TypeCorrect` | `[]TypeOK` | with the shapes below |
| `EveryOrderIsGranted` | `[]OneOrderPerGrant` | `OrderShape`: one child per call and one order per child; `GrantShape`: an exclusive permission is nobody else's |
| `FailuresAreHonest` | `[]FailureIsHonest` | `ChildShape` |
| `ChildrenAreBounded` | `[]ChildrenBounded` | a child lives while its body waits, a body waits inside the gate, and `Room` bounds those |
| `NothingIsMadeUp` | `[]NothingMadeUp` | `ResultShape`, and lemmas on the coercions of `CoreContracts` |
| `IdIsTheInnermost` | `[]SentUnderInnermostId` | `ScopeShape`: every open frame remembers the id of the one below it |
| `PromiseIsWorthKeeping` | `Promise => []PromiseInv` | inductive; from the promise alone, whoever keeps it |
| `PromiseEndsWithTheAnswer` | `Promise => [][AnswersAreFinal]` | no action of the promise touches a call that is done |
| `CommandsKeepPromise` | `Promise` | every step is one of the promise or one it cannot see (`PromiseSeen`) |
| `NothingAfterTheAnswer` | `[][NothingNewAfterTheAnswer]` | an answered call has no living child, and orders come from living children |
| `CommandsWearOut` | `[][ComesCloser(r)]` for every `r` | each step of a body moves it down `StepsLeft`, no other does anything to it |
| `NoCommandIsHeldUp` | `[]NeverHeldUp` | `CallShape`: a body is entered by calls inside only, and is at a place with a step of its own |

The first six are not inductive alone. A killed child, for instance, says nothing of
what it asked for before, so `OneOrderPerGrant` needs to know where an order can
come from. `CommandsInv` (theorem `CommandsInvariant`) joins the shape of each
call with what calls share and with `PromiseInv`.

`PromiseIsWorthKeeping` and `PromiseEndsWithTheAnswer` are about the abstract
specification, so they hold of both who implement it: the gate
(`GateKeepsPromise`) and the calls of this module (`CommandsKeepPromise`).

`RemoteTransport_proofs` proves, for any tasks, tool calls, requests and contents
of the environment, and every deployment:

| theorem | statement | argument |
|---|---|---|
| `TransportTypeCorrect` | `[]TypeOK` | with `TaskInv`, which says that whoever is inside sent a readable request |
| `OwnIdentity` | `[]SeesItsOwnRequest` | `TaskInv`: inside, a task's variables are what its own request carried (`BoundIsCarried`); a call copies them when it starts |
| `ScopesEnd` | `[]NothingLeftBehind` | `TaskInv`: what will be restored is what the task held, and it held nothing (`LeaveRestores`) |
| `TrustEarned` | `[]TrustIsEarned` | `HandlerInv`, and what a status of the gate means (`StatusMeaning`) |
| `TheDoorHolds` | `[]AnswersSayWhy` | `DoorShape`: what a task holds as answer, and when; `CallShape`: whom a tool call may serve |
| `AnswersFindTheirRequest` | `[][ResultsGoHome]` | `CallShape` and `OneCallEach`: a task that waits for a call is inside, with the request that started it, and waits for one |

`ServerStartup_proofs` proves, for any groups of contracts, any tables of the
host and any number of attempts:

| theorem | statement | argument |
|---|---|---|
| `StartupTypeCorrect` | `[]TypeOK` | inductive as it stands |
| `NoRiskRewritten` | `RiskNeverRewritten` | two actions write the tables (`Writers`), and both fill gaps only |
| `OneRuntimeOnARegistry` | `[]OnlyFreshRegistriesServe` | `UsedInv`: a used registry holds a docs contract, so the next attempt with it never gets past the first group |
| `ServedAsDefined` | `[]ServedUnderItsRisk` | `OwnInv`: what an attempt has registered carries the defined risk; `HostsOrOwn`: every entry is a definition's or the host's |
| `OperationsAllOrNone` | `[]OperationsTogether` | `OwnInv` and `ServeInv`, which follow one reading of availability from the registrations to the tools |
| `RuntimesAreWhole` | `[]RuntimesWhole` | `WholeInv`: what is served and what is still to serve make up the whole at every moment |

What the first five need of the code's tables: the docs group is not empty, groups
share no name, and a group serves only what it registers.

Assumptions, all evaluated by TLC on every run: `None` and the two blank strings
are no tokens, names or numbers, and `None` no decision, status, answer or record;
what is asked of the store is a token, a tool and a context; threads are finitely many and there is a permit
at least; requiring authentication implies a secret (`ServerConfig` refuses
anything else); bodies raise only errors of the contract or foreign exceptions, and no
`ValidationError` with the reason or the word (`"conflicts"`) by which `_code_for`
recognises a conflict of identity: those of the package do not, a host's own tool
could, and its clients would read `INVALID_CONTEXT` for it.

Only model-checked: the liveness properties `EveryCallAnswered`,
`EveryCallerServed`, `EveryReadEnds` and `EveryCommandEnds`. That a fair step is
taken at last needs ENABLED, which is out of the prover's reach. What makes them
true is proved, for every instance: each step lowers a number nothing else raises
(`CallsOnlyGoForward`, `CallersOnlyGoForward`, `ReadsWearOut`, `CommandsWearOut`),
and where it is not plain from the guards that such a step is there, it is
(`LockIsNeverLeftBehind`, `NoReadIsStuck`, `NoCommandIsHeldUp`). The runs show that
the fairness assumed is enough to turn the two into progress. The three
properties of the violation runs are false, and so have no theorem.

## 6. Not modelled

Not modelled of reads: the fields picked from a GitHub payload or a registry
entry; what the service answers for a file over its own limits; a 404 for
something that is there; an object with status 200 that lacks what it should
hold, such as a tree, which the code takes for an empty one.

Not modelled of commands: the return code of a child, which the operations
adapter ignores and the Runflare client hands on; processes a child starts; the
redaction of output; the check of a project directory; the compatibility report.

Not modelled elsewhere: the text of messages, logs and audit payloads with their
redaction; schema generation in `wrap_tool`; uvicorn, TLS and the SDK's session;
the stdio peer authenticator, which always gives the same answer; the legacy
policy (`policies/`: pure checks of a descriptor, which every contract the package
registers passes, and a decision table and timeout bounds that nothing calls); data
classes without behaviour (`protocol/`, most of `contracts/`); health reports and
the marking of untrusted text; parsing of the outside services' payloads.
