------------------------ MODULE RemoteTransport_proofs ------------------------
(***************************************************************************)
(* Theorems about RemoteTransport, for any tasks, tool calls, requests and  *)
(* deployment.                                                              *)
(*                                                                          *)
(* None of the three properties is inductive.  A finished request leaves    *)
(* nothing behind only because the scope it opened saved an empty identity, *)
(* and a tool call acts under its own request's identity only because the   *)
(* variables of its task held just that when it was sent.  TransportInv     *)
(* says both, and is kept by every step.                                    *)
(***************************************************************************)
EXTENDS RemoteTransport, TLAPS

\* What identity i may be while request q is served: the context of q, and its
\* token where that is the right one.
Carries(q, i) ==
  /\ i.asserted = AssertedBy(q)
  /\ i.secret # None => i.secret = "right" /\ q.bearer = "right"
  /\ config.required => i.secret = "right" /\ q.bearer = "right"

\* What status st may be when secret s was found in the scope: trusted for the
\* right secret only, and for it always where trust is required.
Earned(s, st) ==
  /\ st = "authenticated" => s = "right" \/ (s = None /\ config.env = "right")
  /\ config.required /\ s = "right" => st = "authenticated"

TaskInv ==
  \A t \in Task :
    /\ pc[t] # "inside" => cell[t] = Nobody /\ saved[t] = None
    /\ saved[t] \in {None, Nobody}
    /\ saved[t] = None => cell[t] = Nobody
    /\ pc[t] = "inside" => IF Bypasses(req[t]) THEN cell[t] = Nobody
                           ELSE Carries(req[t], cell[t])

HandlerInv ==
  \A h \in Handler : hpc[h] # "free" =>
    /\ Carries(hreq[h], hcell[h])
    /\ hpc[h] # "started" => Earned(hcell[h].secret, gate[h])

TransportInv == TypeOK /\ TaskInv /\ HandlerInv

-------------------------------------------------------------------------------
\* The status a presented secret earns is one of the declared ones.
LEMMA StatusType ==
  ASSUME config \in Config, NEW s \in Opt({"right", "wrong", "nonascii"}), TransportAssumption
  PROVE  Gate!AuthStatus(s) \in {"transport_unavailable", "missing_credential", "malformed",
                                 "invalid_credential", "authenticated", "unauthenticated"}
  BY DEF Gate!AuthStatus, Gate!SharedSecretStatus, Config, Opt, TransportAssumption

\* What the gate is given is the request's secret or the environment's.
LEMMA PresentedType ==
  ASSUME config \in Config, TransportAssumption,
         NEW s \in Opt({"right", "wrong", "nonascii"})
  PROVE  /\ Gate!PresentedSecret(None, s, config.env) \in Opt({"right", "wrong", "nonascii"})
         /\ s # None => Gate!PresentedSecret(None, s, config.env) = s
         /\ s = None => Gate!PresentedSecret(None, s, config.env) = config.env
  BY DEF Gate!PresentedSecret, Config, Opt, TransportAssumption

\* Only the right secret, where one is configured, is authenticated.
LEMMA StatusMeaning ==
  ASSUME config \in Config, NEW s \in Opt({"right", "wrong", "nonascii"}), TransportAssumption
  PROVE  /\ Gate!AuthStatus(s) = "authenticated" => s = "right"
         /\ config.required /\ s = "right" => Gate!AuthStatus(s) = "authenticated"
  BY DEF Gate!AuthStatus, Gate!SharedSecretStatus, Config, Opt, TransportAssumption

\* The identity a scope binds is the one its request carried.
LEMMA BoundIsCarried ==
  ASSUME TypeOK, TransportAssumption, NEW q \in RequestType,
         ~Bypasses(q), Refusal(q) = None
  PROVE  LET i == [secret   |-> IF Accepts(q) THEN TokenOf(q) ELSE None,
                   asserted |-> AssertedBy(q)]
         IN /\ i \in Identity
            /\ Carries(q, i)
  <1>1. Readable(q)
    <2>1. ~(Unreadable(q) /\ Invalid(q))
      BY DEF Unreadable, Invalid, UnreadableHeader, InvalidMapping
    <2>2. CASE Unreadable(q)
      <3>1. Refusal(q) = "INVALID_CONTEXT"
        BY <2>1, <2>2 DEF Refusal, Readable
      <3> QED BY <3>1 DEF TransportAssumption, Response
    <2>3. CASE Invalid(q)
      <3>1. Refusal(q) = "SERVER_ERROR"
        BY <2>1, <2>3 DEF Refusal, Readable
      <3> QED BY <3>1 DEF TransportAssumption, Response
    <2> QED BY <2>2, <2>3 DEF Readable
  <1>2. AssertedBy(q) \in Opt(Context)
    BY <1>1 DEF AssertedBy, RequestType, Header, Opt
  <1>3. Accepts(q) => q.bearer = "right" /\ TokenOf(q) = "right"
    BY DEF Accepts, Compares, TokenOf, TransportAssumption
  <1>4. config.required => Accepts(q)
    <2>1. ~Unreadable(q) /\ ~Invalid(q)
      BY <1>1 DEF Readable
    <2> SUFFICES ASSUME config.required, ~Accepts(q) PROVE FALSE
      OBVIOUS
    <2>2. CASE CompareFails(q)
      <3>1. Refusal(q) = "SERVER_ERROR"
        BY <1>1, <2>1, <2>2 DEF Refusal
      <3> QED BY <3>1 DEF TransportAssumption, Response
    <2>3. CASE ~CompareFails(q) /\ TokenOf(q) = None
      <3>1. Refusal(q) = "AUTHENTICATION_REQUIRED"
        BY <1>1, <2>1, <2>3 DEF Refusal
      <3> QED BY <3>1 DEF TransportAssumption, Response
    <2>4. CASE ~CompareFails(q) /\ TokenOf(q) # None
      <3>1. Refusal(q) = "AUTHENTICATION_FAILED"
        BY <1>1, <2>1, <2>4 DEF Refusal
      <3> QED BY <3>1 DEF TransportAssumption, Response
    <2> QED BY <2>2, <2>3, <2>4
  <1> QED
    BY <1>2, <1>3, <1>4 DEF Carries, Identity, Opt, TransportAssumption

-------------------------------------------------------------------------------
LEMMA InvInit == Init /\ TransportAssumption => TransportInv
  <1> SUFFICES ASSUME Init, TransportAssumption PROVE TransportInv
    OBVIOUS
  <1>1. Nobody \in Identity
    BY DEF Nobody, Identity, Opt
  <1>2. TypeOK
    BY <1>1 DEF Init, TypeOK, Opt
  <1>3. TaskInv /\ HandlerInv
    BY DEF Init, TaskInv, HandlerInv
  <1> QED BY <1>2, <1>3 DEF TransportInv

\* Leaving a request gives the task its empty identity back and touches no
\* other task.
LEMMA LeaveRestores ==
  ASSUME TransportInv, NEW t \in Task, NEW how \in {"OK", "DROPPED"}, Leave(t, how),
         UNCHANGED <<config, req>>, TransportAssumption
  PROVE  /\ TaskInv'
         /\ cell' \in [Task -> Identity] /\ saved' \in [Task -> Opt(Identity)]
         /\ answer' \in [Task -> Opt(Response)]
         /\ pc' \in [Task -> {"idle", "called", "inside"}]
         /\ \A k \in Task : pc'[k] # "idle" => req'[k] \in RequestType
  <1> USE DEF TransportInv
  <1>1. Nobody \in Identity /\ None # Nobody
    <2>1. Nobody \in Identity
      BY DEF Nobody, Identity, Opt
    <2> QED BY <2>1 DEF TransportAssumption
  <1>2. cell' = [cell EXCEPT ![t] = Nobody]
    <2>1. CASE saved[t] = None
      BY <2>1 DEF Leave, Restore, TaskInv, TypeOK
    <2>2. CASE saved[t] = Nobody
      BY <1>1, <2>2 DEF Leave, Restore, Bind, TaskInv, TypeOK
    <2> QED BY <2>1, <2>2 DEF TaskInv
  <1>3. TaskInv'
    BY <1>1, <1>2 DEF Leave, TaskInv, TypeOK, Carries, Bypasses
  <1>4. cell' \in [Task -> Identity] /\ saved' \in [Task -> Opt(Identity)]
    BY <1>1, <1>2 DEF Leave, TypeOK, Opt
  <1>5. answer' \in [Task -> Opt(Response)]
    BY DEF Leave, TypeOK, Opt, Response
  <1>6. pc' \in [Task -> {"idle", "called", "inside"}]
        /\ \A k \in Task : pc'[k] # "idle" => req'[k] \in RequestType
    BY DEF Leave, TypeOK
  <1> QED BY <1>3, <1>4, <1>5, <1>6

LEMMA InvStep == TransportInv /\ [Next]_vars /\ TransportAssumption => TransportInv'
  <1> SUFFICES ASSUME TransportInv, [Next]_vars, TransportAssumption PROVE TransportInv'
    OBVIOUS
  <1> USE DEF TransportInv
  <1>0. Nobody \in Identity
    BY DEF Nobody, Identity, Opt
  <1>1. ASSUME NEW t \in Task, NEW q \in Request, Receive(t, q) PROVE TransportInv'
    <2>1. q \in RequestType
      BY DEF TransportAssumption
    <2>2. TypeOK'
      BY <1>1, <2>1 DEF Receive, TypeOK, handlers, Opt
    <2>3. TaskInv'
      BY <1>1 DEF Receive, TaskInv, TypeOK, Carries
    <2>4. HandlerInv'
      BY <1>1 DEF Receive, HandlerInv, handlers, Carries, Earned
    <2> QED BY <2>2, <2>3, <2>4
  <1>2. ASSUME NEW t \in Task, Bypass(t) PROVE TransportInv'
    <2>1. TypeOK'
      BY <1>2 DEF Bypass, TypeOK, handlers
    <2>2. TaskInv'
      BY <1>2 DEF Bypass, TaskInv, TypeOK, Carries
    <2>3. HandlerInv'
      BY <1>2 DEF Bypass, HandlerInv, handlers, Carries, Earned
    <2> QED BY <2>1, <2>2, <2>3
  <1>3. ASSUME NEW t \in Task, Refuse(t) PROVE TransportInv'
    <2>1. Refusal(req[t]) \in Response
      BY <1>3 DEF Refuse, Refusal, Response
    <2>2. TypeOK'
      BY <1>3, <2>1 DEF Refuse, TypeOK, handlers, Opt
    <2>3. TaskInv'
      BY <1>3 DEF Refuse, TaskInv, TypeOK, Carries
    <2>4. HandlerInv'
      BY <1>3 DEF Refuse, HandlerInv, handlers, Carries, Earned
    <2> QED BY <2>2, <2>3, <2>4
  <1>4. ASSUME NEW t \in Task, OpenScope(t) PROVE TransportInv'
    <2> DEFINE i == [secret   |-> IF Accepts(req[t]) THEN TokenOf(req[t]) ELSE None,
                     asserted |-> AssertedBy(req[t])]
    <2>1. i \in Identity /\ Carries(req[t], i)
      BY <1>4, BoundIsCarried DEF OpenScope, TypeOK
    <2>2. cell' = [cell EXCEPT ![t] = i] /\ cell[t] = Nobody
      BY <1>4 DEF OpenScope, Bind, TaskInv, TypeOK
    <2> HIDE DEF i
    <2>3. TypeOK'
      BY <1>4, <2>1, <2>2 DEF OpenScope, TypeOK, handlers, Opt
    <2>4. TaskInv'
      <3>1. None # Nobody
        BY <1>0 DEF TransportAssumption
      <3> QED BY <1>4, <2>1, <2>2, <3>1 DEF OpenScope, TaskInv, TypeOK, Carries
    <2>5. HandlerInv'
      BY <1>4 DEF OpenScope, HandlerInv, handlers, Carries, Earned
    <2> QED BY <2>3, <2>4, <2>5
  <1>5. ASSUME NEW t \in Task, Anonymous(t) PROVE TransportInv'
    <2>1. Carries(req[t], Nobody)
      <3>1. Carries(req[t], [secret |-> None, asserted |-> AssertedBy(req[t])])
        BY <1>5, BoundIsCarried DEF Anonymous, TypeOK
      <3> QED BY <1>5, <3>1 DEF Anonymous, Nobody
    <2>2. TypeOK'
      BY <1>5 DEF Anonymous, TypeOK, handlers
    <2>3. TaskInv'
      BY <1>5, <2>1 DEF Anonymous, TaskInv, TypeOK, Carries
    <2>4. HandlerInv'
      BY <1>5 DEF Anonymous, HandlerInv, handlers, Carries, Earned
    <2> QED BY <2>2, <2>3, <2>4
  <1>6. ASSUME NEW t \in Task, AnswerAtOnce(t) PROVE TransportInv'
    <2>1. Leave(t, "OK") /\ UNCHANGED <<config, req>>
      BY <1>6 DEF AnswerAtOnce
    <2>2. TypeOK'
      BY <1>6, <2>1, LeaveRestores DEF AnswerAtOnce, TypeOK, handlers
    <2>3. HandlerInv'
      BY <1>6 DEF AnswerAtOnce, HandlerInv, handlers, Carries, Earned
    <2> QED BY <2>1, <2>2, <2>3, LeaveRestores
  <1>7. ASSUME NEW t \in Task, Drop(t) PROVE TransportInv'
    <2>1. Leave(t, "DROPPED") /\ UNCHANGED <<config, req>>
      BY <1>7 DEF Drop
    <2>2. owner' \in [Handler -> Opt(Task)]
      BY <1>7 DEF Drop, TypeOK, Opt
    <2>3. TypeOK'
      BY <1>7, <2>1, <2>2, LeaveRestores DEF Drop, TypeOK
    <2>4. HandlerInv'
      BY <1>7 DEF Drop, HandlerInv, Carries, Earned
    <2> QED BY <2>1, <2>3, <2>4, LeaveRestores
  <1>8. ASSUME NEW t \in Task, NEW h \in Handler, Dispatch(t, h) PROVE TransportInv'
    <2>1. Carries(req[t], cell[t])
      BY <1>8 DEF Dispatch, TaskInv, Bypasses
    <2>2. TypeOK'
      BY <1>8 DEF Dispatch, TypeOK, tasks, Opt
    <2>3. TaskInv'
      BY <1>8 DEF Dispatch, TaskInv, tasks, Carries
    <2>4. HandlerInv'
      BY <1>8, <2>1 DEF Dispatch, HandlerInv, TypeOK, Carries, Earned, tasks
    <2> QED BY <2>2, <2>3, <2>4
  <1>9. ASSUME NEW t \in Task, NEW h \in Handler, Answer(t, h) PROVE TransportInv'
    <2>1. Leave(t, "OK") /\ UNCHANGED <<config, req>> /\ Freed(h)
      BY <1>9 DEF Answer
    <2>2. TypeOK'
      BY <1>0, <2>1, LeaveRestores DEF Freed, TypeOK, Opt
    <2>3. HandlerInv'
      BY <2>1 DEF Freed, HandlerInv, TypeOK, Carries, Earned
    <2> QED BY <2>1, <2>2, <2>3, LeaveRestores
  <1>10. ASSUME NEW h \in Handler, Resolve(h) PROVE TransportInv'
    <2> DEFINE s  == Gate!PresentedSecret(None, hcell[h].secret, config.env)
               st == Gate!AuthStatus(s)
    <2>1. hcell[h].secret \in Opt({"right", "wrong", "nonascii"}) /\ config \in Config
      BY DEF TypeOK, Identity
    <2>2. /\ s \in Opt({"right", "wrong", "nonascii"})
          /\ hcell[h].secret # None => s = hcell[h].secret
          /\ hcell[h].secret = None => s = config.env
      BY <2>1, PresentedType
    <2>3. gate' = [gate EXCEPT ![h] = st] /\ config' = config
      BY <1>10 DEF Resolve
    <2> HIDE DEF s
    <2>7. st \in {"transport_unavailable", "missing_credential", "malformed",
                  "invalid_credential", "authenticated", "unauthenticated"}
      BY <2>1, <2>2, StatusType
    <2>8. Earned(hcell[h].secret, st)
      BY <2>1, <2>2, StatusMeaning DEF Earned, TransportAssumption
    <2> HIDE DEF st
    <2>4. TypeOK'
      BY <1>10, <2>3, <2>7 DEF Resolve, TypeOK, tasks, Opt
    <2>5. TaskInv'
      BY <1>10 DEF Resolve, TaskInv, tasks, Carries
    <2>6. HandlerInv'
      BY <1>10, <2>3, <2>8 DEF Resolve, HandlerInv, TypeOK, Carries, Earned
    <2> QED BY <2>4, <2>5, <2>6
  <1>11. ASSUME NEW h \in Handler, Finish(h) PROVE TransportInv'
    <2>1. TypeOK'
      BY <1>11 DEF Finish, TypeOK, tasks
    <2>2. TaskInv'
      BY <1>11 DEF Finish, TaskInv, tasks, Carries
    <2>3. HandlerInv'
      BY <1>11 DEF Finish, HandlerInv, TypeOK, Carries, Earned
    <2> QED BY <2>1, <2>2, <2>3
  <1>12. ASSUME NEW h \in Handler, Discard(h) PROVE TransportInv'
    <2>1. TypeOK'
      BY <1>0, <1>12 DEF Discard, Freed, TypeOK, tasks, Opt
    <2>2. TaskInv'
      BY <1>12 DEF Discard, TaskInv, tasks, Carries
    <2>3. HandlerInv'
      BY <1>12 DEF Discard, Freed, HandlerInv, TypeOK, Carries, Earned, tasks
    <2> QED BY <2>1, <2>2, <2>3
  <1>13. CASE UNCHANGED vars
    <2>1. TypeOK'
      BY <1>13 DEF vars, TypeOK
    <2>2. TaskInv' /\ HandlerInv'
      BY <1>13 DEF vars, TaskInv, HandlerInv, Carries, Earned
    <2> QED BY <2>1, <2>2
  <1> QED
    BY <1>1, <1>2, <1>3, <1>4, <1>5, <1>6, <1>7, <1>8, <1>9, <1>10, <1>11, <1>12, <1>13 DEF Next

LEMMA InvAlways == Spec => []TransportInv
  <1>1. TransportAssumption
    BY TransportAssumption
  <1> QED
    BY <1>1, InvInit, InvStep, PTL DEF Spec

-------------------------------------------------------------------------------
\* Every reachable state of tasks and tool calls is well typed: whatever the
\* middleware binds is a secret and a parsed context.
THEOREM TransportTypeCorrect == Spec => []TypeOK
  BY InvAlways, PTL DEF TransportInv

\* A tool call acts under the identity its own request carried, however the
\* tasks interleave and also when its client has hung up.
THEOREM OwnIdentity == Spec => []SeesItsOwnRequest
  <1>1. TransportInv => SeesItsOwnRequest
    <2> SUFFICES ASSUME TransportInv, NEW h \in Handler, hpc[h] # "free"
                 PROVE  /\ hcell[h].asserted = AssertedBy(hreq[h])
                        /\ hcell[h].secret \in {None, TokenOf(hreq[h])}
      BY DEF SeesItsOwnRequest
    <2>1. Carries(hreq[h], hcell[h])
      BY DEF TransportInv, HandlerInv
    <2> QED BY <2>1 DEF Carries, TokenOf
  <1> QED BY <1>1, InvAlways, PTL

\* Between requests, and under a probe, a task holds no identity.
THEOREM ScopesEnd == Spec => []NothingLeftBehind
  <1>1. TransportInv => NothingLeftBehind
    BY DEF TransportInv, TaskInv, NothingLeftBehind
  <1> QED BY <1>1, InvAlways, PTL

\* The gate authenticates a remote tool call by its own request's bearer, or,
\* where none is required, by the secret of the environment.
THEOREM TrustEarned == Spec => []TrustIsEarned
  <1>0. TransportAssumption
    BY TransportAssumption
  <1>1. TransportInv => TrustIsEarned
    <2> SUFFICES ASSUME TransportInv, NEW h \in Handler, hpc[h] \in {"resolved", "finished"}
                 PROVE  /\ config.required =>
                             gate[h] = "authenticated" /\ hreq[h].bearer = "right"
                        /\ gate[h] = "authenticated" =>
                             hreq[h].bearer = "right" \/ config.env = "right"
      BY DEF TrustIsEarned
    <2>1. Carries(hreq[h], hcell[h]) /\ Earned(hcell[h].secret, gate[h])
      BY DEF TransportInv, HandlerInv
    <2> QED BY <1>0, <2>1 DEF Carries, Earned, TransportAssumption
  <1> QED BY <1>1, InvAlways, PTL

-------------------------------------------------------------------------------
(***************************************************************************)
(* Whom the middleware answers what, and whose result an answer is.  Both   *)
(* need what a request under way may be: one the middleware let in, waiting *)
(* for at most one tool call, which is its own.                             *)
(***************************************************************************)
LetIn(q) == Bypasses(q) \/ Refusal(q) = None

\* What task t may hold as answer, and when.
DoorShape(t) ==
  /\ pc[t] = "inside" => LetIn(req[t])
  /\ pc[t] = "idle" => (req[t] # None <=> answer[t] # None)
  /\ pc[t] # "idle" => answer[t] = None
  /\ answer[t] \in {"OK", "DROPPED"} => LetIn(req[t])
  /\ answer[t] \notin {None, "OK", "DROPPED"} =>
       ~Bypasses(req[t]) /\ answer[t] = Refusal(req[t])

\* What a tool call under way may serve.
CallShape(h) ==
  /\ hpc[h] # "free" => hreq[h].kind = "mcp" /\ Refusal(hreq[h]) = None
  /\ owner[h] # None => /\ hpc[h] # "free" /\ pc[owner[h]] = "inside"
                        /\ hreq[h] = req[owner[h]]

OneCallEach == \A h, k \in Handler : owner[h] # None /\ owner[h] = owner[k] => h = k

DoorInv == (\A t \in Task : DoorShape(t)) /\ (\A h \in Handler : CallShape(h)) /\ OneCallEach

\* A refusal is one of the answers of the middleware, never one of the application.
LEMMA RefusalIs ==
  ASSUME NEW q
  PROVE  Refusal(q) \in {None, "INVALID_CONTEXT", "SERVER_ERROR", "AUTHENTICATION_REQUIRED",
                         "AUTHENTICATION_FAILED"}
  BY DEF Refusal, Readable

LEMMA NoneIsNoAnswer ==
  None \notin {"OK", "DROPPED", "INVALID_CONTEXT", "SERVER_ERROR", "AUTHENTICATION_REQUIRED",
               "AUTHENTICATION_FAILED"} /\ None \notin Task /\ None \notin RequestType
  BY TransportAssumption DEF TransportAssumption, Response

\* A request that ends leaves its answer to the request it was.
LEMMA LeaveKeepsDoor ==
  ASSUME TypeOK, DoorInv, NEW t \in Task, NEW how \in {"OK", "DROPPED"}, pc[t] = "inside",
         Leave(t, how), UNCHANGED <<config, req>>
  PROVE  \A k \in Task : DoorShape(k)'
  <1>1. /\ pc' = [pc EXCEPT ![t] = "idle"] /\ answer' = [answer EXCEPT ![t] = how]
        /\ \A q : Refusal(q)' = Refusal(q)
    BY DEF Leave, Refusal, CompareFails, Compares, Accepts
  <1>2. req[t] # None
    BY NoneIsNoAnswer DEF TypeOK
  <1> QED BY <1>1, <1>2, NoneIsNoAnswer DEF DoorInv, DoorShape, LetIn, TypeOK

LEMMA DoorInit == Init => DoorInv
  BY NoneIsNoAnswer DEF Init, DoorInv, DoorShape, CallShape, OneCallEach

LEMMA DoorStep == TypeOK /\ DoorInv /\ [Next]_vars => DoorInv'
  <1> SUFFICES ASSUME TypeOK, DoorInv, [Next]_vars PROVE DoorInv'
    OBVIOUS
  <1>0. config' = config
    BY DEF Next, Receive, Bypass, Refuse, OpenScope, Anonymous, AnswerAtOnce, Drop, Dispatch,
       Answer, Resolve, Finish, Discard, vars
  <1>r. ASSUME NEW q PROVE Refusal(q)' = Refusal(q)
    BY <1>0 DEF Refusal, CompareFails, Compares, Accepts
  <1> USE DEF DoorInv, TypeOK
  <1>1. ASSUME NEW t \in Task, NEW q \in Request, Receive(t, q) PROVE DoorInv'
    <2>1. \A k \in Task : DoorShape(k)'
      BY <1>r, <1>1, NoneIsNoAnswer DEF Receive, DoorShape, LetIn
    <2>2. (\A h \in Handler : CallShape(h)') /\ OneCallEach'
      BY <1>r, <1>1 DEF Receive, CallShape, OneCallEach, handlers, Opt
    <2> QED BY <2>1, <2>2
  <1>2. ASSUME NEW t \in Task, Bypass(t) \/ OpenScope(t) \/ Anonymous(t) PROVE DoorInv'
    <2>1. /\ pc[t] = "called" /\ pc' = [pc EXCEPT ![t] = "inside"] /\ LetIn(req[t])
          /\ UNCHANGED <<req, answer, hpc, hreq, owner>>
      BY <1>2 DEF Bypass, OpenScope, Anonymous, LetIn, handlers
    <2>2. \A k \in Task : DoorShape(k)'
      BY <1>r, <2>1 DEF DoorShape, LetIn
    <2>3. (\A h \in Handler : CallShape(h)') /\ OneCallEach'
      BY <1>r, <2>1 DEF CallShape, OneCallEach, Opt
    <2> QED BY <2>2, <2>3
  <1>3. ASSUME NEW t \in Task, Refuse(t) PROVE DoorInv'
    <2>1. /\ pc[t] = "called" /\ pc' = [pc EXCEPT ![t] = "idle"]
          /\ ~Bypasses(req[t]) /\ Refusal(req[t]) # None
          /\ answer' = [answer EXCEPT ![t] = Refusal(req[t])]
          /\ UNCHANGED <<req, hpc, hreq, owner>>
      BY <1>3 DEF Refuse, handlers
    <2>2. req[t] # None
      BY <2>1, NoneIsNoAnswer
    <2>3. \A k \in Task : DoorShape(k)'
      BY <1>r, <2>1, <2>2, RefusalIs, NoneIsNoAnswer DEF DoorShape, LetIn
    <2>4. (\A h \in Handler : CallShape(h)') /\ OneCallEach'
      BY <1>r, <2>1 DEF CallShape, OneCallEach, Opt
    <2> QED BY <2>3, <2>4
  <1>4. ASSUME NEW t \in Task, AnswerAtOnce(t) PROVE DoorInv'
    <2>1. \A k \in Task : DoorShape(k)'
      BY <1>0, <1>4, LeaveKeepsDoor DEF AnswerAtOnce
    <2>2. (\A h \in Handler : CallShape(h)') /\ OneCallEach'
      BY <1>r, <1>4 DEF AnswerAtOnce, Leave, Serves, CallShape, OneCallEach, handlers, Opt
    <2> QED BY <2>1, <2>2
  <1>5. ASSUME NEW t \in Task, Drop(t) PROVE DoorInv'
    <2>1. \A k \in Task : DoorShape(k)'
      BY <1>0, <1>5, LeaveKeepsDoor DEF Drop
    <2>2. /\ owner' = [h \in Handler |-> IF owner[h] = t THEN None ELSE owner[h]]
          /\ pc' = [pc EXCEPT ![t] = "idle"] /\ UNCHANGED <<req, hpc, hreq>>
      BY <1>5 DEF Drop, Leave, Serves
    <2>3. (\A h \in Handler : CallShape(h)') /\ OneCallEach'
      BY <1>r, <2>2 DEF CallShape, OneCallEach, Opt
    <2> QED BY <2>1, <2>3
  <1>6. ASSUME NEW t \in Task, NEW h \in Handler, Dispatch(t, h) PROVE DoorInv'
    <2>1. /\ pc[t] = "inside" /\ req[t].kind = "mcp" /\ \A k \in Handler : owner[k] # t
          /\ hpc' = [hpc EXCEPT ![h] = "started"] /\ hreq' = [hreq EXCEPT ![h] = req[t]]
          /\ owner' = [owner EXCEPT ![h] = t] /\ UNCHANGED <<pc, req, answer>>
      BY <1>6 DEF Dispatch, Serves, tasks
    <2>2. Refusal(req[t]) = None
      BY <2>1 DEF DoorShape, LetIn, Bypasses
    <2>3. \A k \in Task : DoorShape(k)'
      BY <1>r, <2>1 DEF DoorShape, LetIn
    <2>4. (\A k \in Handler : CallShape(k)') /\ OneCallEach'
      BY <1>r, <2>1, <2>2 DEF CallShape, OneCallEach, Opt
    <2> QED BY <2>3, <2>4
  <1>7. ASSUME NEW t \in Task, NEW h \in Handler, Answer(t, h) PROVE DoorInv'
    <2>1. \A k \in Task : DoorShape(k)'
      BY <1>0, <1>7, LeaveKeepsDoor DEF Answer
    <2>2. /\ owner[h] = t /\ pc' = [pc EXCEPT ![t] = "idle"] /\ req' = req
          /\ hpc' = [hpc EXCEPT ![h] = "free"] /\ hreq' = [hreq EXCEPT ![h] = None]
          /\ owner' = [owner EXCEPT ![h] = None]
      BY <1>7 DEF Answer, Serves, Freed, Leave
    <2>3. OneCallEach' BY <2>2 DEF OneCallEach
    <2>4. ASSUME NEW k \in Handler PROVE CallShape(k)'
      <3>1. owner'[k] # None => owner'[k] = owner[k] /\ owner[k] # t /\ k # h
        BY <2>2, NoneIsNoAnswer DEF OneCallEach
      <3> QED BY <1>r, <2>2, <3>1 DEF CallShape, Opt
    <2> QED BY <2>1, <2>3, <2>4
  <1>8. ASSUME NEW h \in Handler, Resolve(h) \/ Finish(h) \/ Discard(h) PROVE DoorInv'
    <2>1. \A k \in Task : DoorShape(k)'
      BY <1>r, <1>8 DEF Resolve, Finish, Discard, tasks, DoorShape, LetIn
    <2>2. (\A k \in Handler : CallShape(k)') /\ OneCallEach'
      BY <1>r, <1>8 DEF Resolve, Finish, Discard, Freed, tasks, CallShape, OneCallEach, Opt
    <2> QED BY <2>1, <2>2
  <1>9. CASE UNCHANGED vars
    <2>1. \A k \in Task : DoorShape(k)'
      BY <1>r, <1>9 DEF vars, DoorShape, LetIn
    <2>2. (\A k \in Handler : CallShape(k)') /\ OneCallEach'
      BY <1>r, <1>9 DEF vars, CallShape, OneCallEach
    <2> QED BY <2>1, <2>2
  <1> QED
    BY <1>1, <1>2, <1>3, <1>4, <1>5, <1>6, <1>7, <1>8, <1>9 DEF Next

LEMMA DoorAlways == Spec => []DoorInv
  BY DoorInit, DoorStep, TransportTypeCorrect, PTL DEF Spec

\* What the client of a finished request reads is true: it was turned away if
\* and only if the middleware had a reason to, that reason is the one it reads,
\* no tool call runs or ran on for a request that was turned away, and where
\* authentication is required only the right bearer gets past it
\* (RequireBearerAuthMiddleware.__call__).
AnswersSayWhy ==
  /\ \A t \in Task : pc[t] = "idle" /\ req[t] # None =>
       /\ answer[t] \in {"OK", "DROPPED"} <=> LetIn(req[t])
       /\ ~LetIn(req[t]) => answer[t] = Refusal(req[t])
       /\ config.required /\ ~Bypasses(req[t]) /\ answer[t] \in {"OK", "DROPPED"} =>
            req[t].bearer = "right" /\ Readable(req[t])
  /\ \A h \in Handler : hpc[h] # "free" => Refusal(hreq[h]) = None
THEOREM TheDoorHolds == Spec => []AnswersSayWhy
  <1>1. TypeOK /\ DoorInv => AnswersSayWhy
    <2> SUFFICES ASSUME TypeOK, DoorInv PROVE AnswersSayWhy
      OBVIOUS
    <2>1. ASSUME NEW t \in Task, pc[t] = "idle", req[t] # None
          PROVE  /\ answer[t] \in {"OK", "DROPPED"} <=> LetIn(req[t])
                 /\ ~LetIn(req[t]) => answer[t] = Refusal(req[t])
      <3>1. answer[t] # None BY <2>1 DEF DoorInv, DoorShape
      <3> QED BY <2>1, <3>1, RefusalIs DEF DoorInv, DoorShape, LetIn
    <2>2. ASSUME NEW q \in RequestType, config.required, Refusal(q) = None
          PROVE  q.bearer = "right" /\ Readable(q)
      BY <2>2, NoneIsNoAnswer DEF Refusal, Readable, Accepts, TokenOf
    <2>3. ASSUME NEW t \in Task, pc[t] = "idle", req[t] # None, config.required,
                 ~Bypasses(req[t]), answer[t] \in {"OK", "DROPPED"}
          PROVE  req[t].bearer = "right" /\ Readable(req[t])
      <3>1. Refusal(req[t]) = None BY <2>1, <2>3 DEF LetIn
      <3>2. req[t] \in RequestType BY <2>3 DEF TypeOK, Opt
      <3> QED BY <2>2, <2>3, <3>1, <3>2
    <2> QED BY <2>1, <2>3 DEF AnswersSayWhy, DoorInv, CallShape
  <1> QED BY <1>1, DoorAlways, TransportTypeCorrect, PTL

\* The result of a tool call goes to the request that started it, or to nobody:
\* not to a later request on the same task, whose client hung up and came back.
ResultsGoHome ==
  \A t \in Task, h \in Handler : Answer(t, h) =>
    /\ hreq[h] = req[t]
    /\ \A k \in Handler : Serves(t, k) => k = h
THEOREM AnswersFindTheirRequest == Spec => [][ResultsGoHome]_vars
  <1>1. DoorInv => ResultsGoHome
    BY NoneIsNoAnswer DEF DoorInv, CallShape, OneCallEach, ResultsGoHome, Answer, Serves
  <1> QED BY <1>1, DoorAlways, PTL
==============================================================================
