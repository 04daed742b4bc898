------------------------------ MODULE ToolCommands ------------------------------
(***************************************************************************)
(* The tool bodies that run a child process, inside a gate that keeps its   *)
(* promise (GatePromise): the Runflare client (providers/runflare/client.py), *)
(* whose command asks a remote provider for something, and the operations   *)
(* adapter (adapters/operations.py), whose gateway answers one line of JSON. *)
(*                                                                         *)
(* A body runs subprocess.run, which waits for the child, or kills it when  *)
(* the timeout expires.  What the child asked of the provider before it     *)
(* was killed is out of its hands: the provider may perform it any time     *)
(* later, or never.                                                         *)
(***************************************************************************)
EXTENDS GatePromise, Tracing, CoreContracts

CONSTANTS
  Operation,   \* what clients may ask for: records of OperationType
  Reply,       \* what a gateway may print: records of ReplyType
  MaxChanges   \* bound of the times a program is installed or removed

Program == {"runflare", "gateway"}

\* orders: the command asks the provider for a change (deploy, start, restart).
\* valid: what the body checks of its arguments holds.
OperationType == [program : Program, orders : BOOLEAN, valid : BOOLEAN]

\* The first line of what the gateway printed, in the limit of one response, as
\* far as the answer depends on it: an object, its fields present or not, a flag
\* "true" when Python takes it for true.
Status == HealthyToken \cup UnhealthyToken \cup DOMAIN Canonical \cup {"degraded", "other"}
ReplyType == [success : {"true", "false", "missing"}, status : Status \cup {"missing"},
              available : {"true", "false", "missing"}]

\* What else a child's output may be: no text in the encoding of the locale; for
\* the gateway, too much of it, none, no JSON or no object, which are all one error.
Unusable == {"undecodable", "malformed"}

\* OperationsResult
ResultType == [success : BOOLEAN, status : Status, confirmed : BOOLEAN]

CommandsAssumption ==
  /\ Req = Thread /\ IsFiniteSet(Req) /\ Limit \in Nat \ {0}
  /\ Operation \subseteq OperationType /\ Reply \subseteq ReplyType
  /\ \A o \in Operation : /\ o.orders => o.program = "runflare"
                          /\ o.program = "runflare" => o.valid
  /\ MaxChanges \in Nat /\ None \notin Operation \cup Reply \cup ResultType
  /\ None \notin [token : Token, exclusive : BOOLEAN] \cup {"done", "refused", "error"}
ASSUME CommandsAssumption

VARIABLES
  op,        \* what each call asks for
  body,      \* none, ready to start the child, waiting for it, or over
  child,     \* none, alive, asked (alive, and it asked the provider), exited, killed
  output,    \* what an exited child printed: Unusable, text, or an object
  line,      \* the object
  sent,      \* the request id the gateway was told
  failure,   \* why the body raised: a member of Why, "" when it did not
  result,    \* what the gateway's answer was made of, None for no result
  present,   \* whether a program is installed
  changes,   \* how often that changed
  orders,    \* what the provider was asked on behalf of a call and has not performed
  effects    \* what it has performed

bodyvars == <<op, body, child, output, line, sent, failure, result>>
world    == <<present, changes, orders, effects>>
vars     == <<pvars, tvars, bodyvars, world>>

Why == {"", "invalid", "missing", "denied", "expired"} \cup Unusable

Init ==
  /\ PromiseInit /\ TracingInit
  /\ op = [r \in Req |-> None] /\ body = [r \in Req |-> "none"]
  /\ child = [r \in Req |-> "none"] /\ output = [r \in Req |-> "none"] /\ line = [r \in Req |-> None]
  /\ sent = [r \in Req |-> NoId] /\ failure = [r \in Req |-> ""]
  /\ result = [r \in Req |-> None]
  /\ present = [p \in Program |-> TRUE] /\ changes = 0
  /\ orders = [r \in Req |-> 0] /\ effects = [r \in Req |-> 0]

-----------------------------------------------------------------------------
\* The calls, as the gate lets them through.
Call(r, o) ==
  /\ Enter(r, o.orders) \/ TurnAway(r, o.orders)
  /\ op' = [op EXCEPT ![r] = o]
  /\ UNCHANGED <<tvars, body, child, output, line, sent, failure, result, world>>

Approve(r, t, exclusive) ==
  /\ Spend(r, t, exclusive)
  /\ UNCHANGED <<tvars, bodyvars, world>>

Refuse(r) ==
  /\ ~performed[r]
  /\ Leave(r, "refused") \/ Leave(r, "error")
  /\ UNCHANGED <<tvars, bodyvars, world>>

\* The body raises.
Raise(r, why) ==
  /\ body' = [body EXCEPT ![r] = "over"]
  /\ failure' = [failure EXCEPT ![r] = why]

\* service_status looks at its argument, OperationsAdapter._invoke at available.
\* RunflareCLI._run checks arguments that are constants of its callers.
Begin(r) ==
  /\ body[r] = "none" /\ Perform(r)
  /\ IF ~op[r].valid THEN Raise(r, "invalid")
     ELSE IF op[r].program = "gateway" /\ ~present["gateway"] THEN Raise(r, "missing")
     ELSE body' = [body EXCEPT ![r] = "ready"] /\ UNCHANGED failure
  /\ UNCHANGED <<tvars, op, child, output, line, sent, result, world>>

\* subprocess.run starts the child, if the program is still there and the
\* system lets it; _build_request puts the request id of the thread in the line.
\* (A gateway that is a Python script is started by the interpreter: when it is
\* gone by then, the child prints nothing, which is one of Unusable.)
Launch(r) ==
  /\ body[r] = "ready"
  /\ sent' = IF op[r].program = "gateway" THEN [sent EXCEPT ![r] = current[r]] ELSE sent
  /\ \/ ~present[op[r].program] /\ Raise(r, "missing") /\ UNCHANGED child
     \/ present[op[r].program] /\ Raise(r, "denied") /\ UNCHANGED child
     \/ /\ present[op[r].program]
        /\ child' = [child EXCEPT ![r] = "alive"]
        /\ body' = [body EXCEPT ![r] = "waiting"] /\ UNCHANGED failure
  /\ UNCHANGED <<pvars, tvars, op, output, line, result, world>>

\* The timeout of subprocess.run.  It kills a child that is still alive, and it may
\* expire before the output of one that has just exited is read to its end.
Kill(r) ==
  child' = [child EXCEPT ![r] = IF @ = "exited" THEN @ ELSE "killed"]
Expire_Never(r) == FALSE \* seeded fault: no timeout
Expire_Orphans(r) ==     \* seeded fault: the child is not killed
  /\ body[r] = "waiting"
  /\ Raise(r, "expired")
  /\ UNCHANGED <<pvars, tvars, op, child, output, line, sent, result, world>>
Expire_Retries(r) ==     \* seeded fault: the command is run again
  /\ body[r] = "waiting"
  /\ Kill(r) /\ body' = [body EXCEPT ![r] = "ready"]
  /\ UNCHANGED <<pvars, tvars, op, output, line, sent, failure, result, world>>
Expire_AsMissing(r) ==   \* seeded fault: both exceptions in one handler
  /\ body[r] = "waiting"
  /\ Kill(r) /\ Raise(r, "missing")
  /\ UNCHANGED <<pvars, tvars, op, output, line, sent, result, world>>
Expire(r) ==
  /\ body[r] = "waiting"
  /\ Kill(r) /\ Raise(r, "expired")
  /\ UNCHANGED <<pvars, tvars, op, output, line, sent, result, world>>

\* What _invoke makes of an object: a missing success is none and a missing status
\* is unknown, but a missing service_available counts as True, and the evidence is
\* confirmed whether there was success or not.
Interpret_Hopeful(p) == \* seeded fault: a gateway that answers is taken for success
  [success |-> p.success # "false",
   status |-> IF p.status = "missing" THEN "ok" ELSE p.status,
   confirmed |-> TRUE]
Interpret_Raw(p) == \* seeded fault: no default for a status
  [success |-> p.success = "true", status |-> p.status,
   confirmed |-> p.available # "false"]
Interpret(p) ==
  [success |-> p.success = "true",
   status |-> IF p.status = "missing" THEN "unknown" ELSE p.status,
   confirmed |-> p.available # "false"]

\* The child has exited: its output is read, its return code is not looked at.
\* The Runflare client returns output and code as they are.
Collect(r) ==
  /\ body[r] = "waiting" /\ child[r] = "exited"
  /\ IF output[r] \in Unusable
     THEN Raise(r, output[r]) /\ UNCHANGED result
     ELSE /\ body' = [body EXCEPT ![r] = "over"] /\ UNCHANGED failure
          /\ result' = IF op[r].program = "gateway"
                       THEN [result EXCEPT ![r] = Interpret(line[r])] ELSE result
  /\ UNCHANGED <<pvars, tvars, op, child, output, line, sent, world>>

\* The gate answers for a body that is over; an auditor may fail after it.
Finish(r) ==
  /\ body[r] = "over"
  /\ (failure[r] = "" /\ Leave(r, "done")) \/ Leave(r, "error")
  /\ UNCHANGED <<tvars, bodyvars, world>>

-----------------------------------------------------------------------------
\* The child asks the provider for what the command is for, and ends.
ChildAsks(r) ==
  /\ child[r] = "alive" /\ op[r].orders
  /\ child' = [child EXCEPT ![r] = "asked"]
  /\ orders' = [orders EXCEPT ![r] = @ + 1]
  /\ UNCHANGED <<pvars, tvars, op, body, output, line, sent, failure, result, present, changes, effects>>

ChildExits(r) ==
  /\ child[r] \in {"alive", "asked"}
  /\ child' = [child EXCEPT ![r] = "exited"]
  /\ \/ /\ op[r].program = "gateway"
        /\ \E p \in Reply : line' = [line EXCEPT ![r] = p]
        /\ output' = [output EXCEPT ![r] = "object"]
     \/ /\ \E o \in {"undecodable", IF op[r].program = "gateway" THEN "malformed" ELSE "text"} :
             output' = [output EXCEPT ![r] = o]
        /\ UNCHANGED line
  /\ UNCHANGED <<pvars, tvars, op, body, sent, failure, result, world>>

\* The provider performs what it was asked for, in its own time.
ProviderPerforms(r) ==
  /\ orders[r] > 0
  /\ orders' = [orders EXCEPT ![r] = @ - 1]
  /\ effects' = [effects EXCEPT ![r] = @ + 1]
  /\ UNCHANGED <<pvars, tvars, bodyvars, present, changes>>

\* Somebody removes or installs a program; what is missing from the start is
\* removed before the first call.
Reinstall(p) ==
  /\ changes < MaxChanges
  /\ present' = [present EXCEPT ![p] = ~@]
  /\ changes' = changes + 1
  /\ UNCHANGED <<pvars, tvars, bodyvars, orders, effects>>

\* The host opens and closes scopes around its calls.  A thread makes one call
\* here, so the scopes it would open after that are left out.
Trace(r) ==
  /\ \/ phase[r] = "out" /\ \E id \in Id : OpenScope(r, id)
     \/ phase[r] # "in" /\ CloseScope(r)
  /\ UNCHANGED <<pvars, bodyvars, world>>

BodyStep(r) == Begin(r) \/ Launch(r) \/ Expire(r) \/ Collect(r) \/ Finish(r)

Next ==
  \/ \E r \in Req :
       \/ \E o \in Operation : Call(r, o)
       \/ \E t \in Token, x \in BOOLEAN : Approve(r, t, x)
       \/ Refuse(r) \/ BodyStep(r)
       \/ ChildAsks(r) \/ ChildExits(r) \/ ProviderPerforms(r) \/ Trace(r)
  \/ \E p \in Program : Reinstall(p)

Spec == Init /\ [][Next]_vars

\* The server's threads run; neither the child nor the provider needs to.
FairSpec == Spec /\ \A r \in Req : WF_vars(BodyStep(r))

-----------------------------------------------------------------------------
\* The class of error a failure is raised as: _invoke translates what it
\* foresees, the Runflare client raises RuntimeError for all of it.
ErrorOf(program, why) ==
  IF program = "runflare" \/ why \in {"denied", "undecodable"} THEN "raw"
  ELSE CASE why = "invalid"   -> "validation"
         [] why = "missing"   -> "unavailable"
         [] why = "expired"   -> "timeout"
         [] why = "malformed" -> "internal"

GateTypeOK ==
  /\ phase \in [Req -> {"out", "in", "done"}] /\ mutating \in [Req -> BOOLEAN]
  /\ permission \in [Req -> [token : Token, exclusive : BOOLEAN] \cup {None}]
  /\ performed \in [Req -> BOOLEAN]
  /\ reply \in [Req -> {"done", "refused", "error", None}]

ScopeTypeOK ==
  /\ current \in [Req -> Id \cup {NoId}] /\ frames \in [Req -> Seq(Frame)]
  /\ opened \in [Req -> Nat] /\ \A r \in Req : opened[r] <= MaxScopes[r]

BodyTypeOK ==
  /\ op \in [Req -> Operation \cup {None}]
  /\ body \in [Req -> {"none", "ready", "waiting", "over"}]
  /\ child \in [Req -> {"none", "alive", "asked", "exited", "killed"}]
  /\ output \in [Req -> Unusable \cup {"none", "text", "object"}]
  /\ line \in [Req -> Reply \cup {None}] /\ sent \in [Req -> Id \cup {NoId}]
  /\ failure \in [Req -> Why] /\ result \in [Req -> ResultType \cup {None}]

WorldTypeOK ==
  /\ present \in [Program -> BOOLEAN] /\ changes \in 0..MaxChanges
  /\ orders \in [Req -> Nat] /\ effects \in [Req -> Nat]

\* Every variable has the values the code can give it, and what a body raises
\* is of a class the gate knows.
TypeOK ==
  /\ GateTypeOK /\ ScopeTypeOK /\ BodyTypeOK /\ WorldTypeOK
  /\ \A r \in Req : failure[r] # "" => ErrorOf(op[r].program, failure[r]) \in ErrorClass

Alive(r) == child[r] \in {"alive", "asked"}

\* Whatever times out, is retried or answered, an order costs a grant: the
\* provider is asked for at most one change per call, for a call that was granted
\* it, and a grant that only one call may have yields one change at most
\* (RunflareCLI._run, the gate's approval).
OneOrderPerGrant ==
  /\ \A r \in Req : orders[r] + effects[r] <= 1
  /\ Guarded => \A r \in Req : orders[r] + effects[r] > 0 => permission[r] # None
  /\ \A r, s \in Req :
       r # s /\ orders[r] + effects[r] > 0 /\ orders[s] + effects[s] > 0
         /\ permission[r] # None /\ permission[r].exclusive => ~ Holds(s, permission[r].token)

\* A failure says what happened: a call that was refused, whose arguments are
\* bad or whose program was missing never started a child and changes nothing,
\* then or later, and a child is killed only in a call that reports its timeout.
\* The failures of a body that leave open what was changed are a timeout and output that
\* cannot be decoded (RunflareCLI._run, OperationsAdapter._invoke).
FailureIsHonest ==
  \A r \in Req :
    /\ reply[r] = "refused" \/ failure[r] \in {"invalid", "missing", "denied"} =>
         child[r] = "none" /\ orders[r] + effects[r] = 0
    /\ child[r] = "killed" => failure[r] = "expired"

\* A child lives only inside the call that started it, so no more of them run
\* than the gate lets calls in, whatever timed out (subprocess.run, wrap_tool).
ChildrenBounded ==
  /\ \A r \in Req : Alive(r) => phase[r] = "in"
  /\ Cardinality({r \in Req : Alive(r)}) <= Limit

\* What a gateway's answer is reported as, and exported to Yasin-Core as, was
\* said by it: no success, no health and no running service is made up, and the
\* export never fails its own validation, whatever pid comes with it.  Of the
\* evidence only this holds: nothing the gateway called unavailable is confirmed.
\* A flag it left out counts as a yes, and a request that failed is confirmed as
\* well, against docs/OPERATIONS_INTEGRATION.md:27 (OperationsAdapter._invoke,
\* operations_result_to_core_status, mcp_health_to_core_report,
\* mcp_error_to_core_info).
NothingMadeUp ==
  \A r \in Req :
    /\ result[r] # None =>
         /\ child[r] = "exited" /\ line[r] \in Reply
         /\ result[r].success => line[r].success = "true"
         /\ result[r].confirmed => line[r].available # "false"
         /\ CoreHealth(result[r].status) = "HEALTHY" => line[r].status \in HealthyToken
         /\ CoreStatus(result[r].status) = "RUNNING" => line[r].status = "running"
         /\ ValidHealth(HealthRecord(result[r].status))
         /\ \A pid \in Pid : ValidStatus(StatusRecord(result[r].status, pid))
    /\ failure[r] # "" /\ op[r].program = "gateway" =>
         ValidErrorInfo(ErrorInfo(ErrorOf("gateway", failure[r])))

\* The gateway is told the id of the innermost scope around its call, whatever
\* scopes were opened and closed before, and no id is left when all are closed
\* (request_scope, _build_request).
SentUnderInnermostId ==
  \A r \in Req :
    /\ frames[r] = <<>> => current[r] = NoId
    /\ phase[r] = "in" /\ child[r] # "none" /\ op[r].program = "gateway" =>
         sent[r] = Innermost(r)

\* A call whose body began is answered, even if its child never ends.
EveryCommandEnds == \A r \in Req : performed[r] ~> phase[r] = "done"
================================================================================
