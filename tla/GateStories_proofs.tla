-------------------------- MODULE GateStories_proofs --------------------------
(***************************************************************************)
(* Theorems about what one call leaves behind in the gate: its audit trail, *)
(* its answer, the approval it spent, and on whose behalf it did anything.  *)
(* Each follows a thread through wrap_tool and execute, for every catalog,  *)
(* configuration, set of calls and interleaving.  Together they show that   *)
(* the gate implements GatePromise.                                         *)
(***************************************************************************)
EXTENDS GateRefinement, GovernanceGate_proofs

\* Nothing is done for a call before its authentication succeeded.
AuthOK(r) == AuthError(call[r].asserted, SecretOf(call[r])) = NoError
IdentityShape(r) ==
  /\ pc[r] \in {"authenticated", "approved", "requested", "running", "returned", "raised"} => AuthOK(r)
  /\ ran[r] \/ grantedAt[r] # None \/ trail[r] # <<>> =>
       pc[r] \notin {"idle", "admitted"} /\ AuthOK(r)

\* How far the trail has come, at each place.
Unheard(t)    == Len(t) = 0
Asked(t)      == Len(t) = 1 /\ t[1] = [type |-> "REQUEST", decision |-> None]
Decided(t, d) == /\ Len(t) = 2
                 /\ t[1] = [type |-> "REQUEST", decision |-> None]
                 /\ t[2] = [type |-> "DECISION", decision |-> d]
Ended(t, e)   == /\ Len(t) = 3
                 /\ t[1] = [type |-> "REQUEST", decision |-> None]
                 /\ t[2] = [type |-> "DECISION", decision |-> "ALLOW"]
                 /\ t[3].type = e

\* A call on its way out: it ran, and its end may be on record, or it did not.
Failed(r) == outcome[r].class # "none"
Told(r) ==
  \/ ran[r] /\ Failed(r) /\ Decided(trail[r], "ALLOW")
  \/ ran[r] /\ Failed(r) /\ Ended(trail[r], "FAILURE")
  \/ ran[r] /\ ~Failed(r) /\ Ended(trail[r], "RESULT")
  \/ ~ran[r] /\ Failed(r) /\ \/ Unheard(trail[r]) \/ Asked(trail[r])
                             \/ \E d \in Decision \ {"ALLOW"} : Decided(trail[r], d)

StoryShape(r) ==
  /\ pc[r] \in Early \cup {"approved"} => Unheard(trail[r])
  /\ pc[r] = "requested" => Asked(trail[r])
  /\ pc[r] \in Early \cup {"approved", "requested"} => ~ran[r] /\ ~Failed(r)
  /\ pc[r] \in {"running", "returned"} => ran[r] /\ ~Failed(r) /\ Decided(trail[r], "ALLOW")
  /\ pc[r] = "raised" => ran[r] /\ Failed(r) /\ Decided(trail[r], "ALLOW")
  /\ pc[r] \in {"unwinding", "answered"} => Told(r)
  /\ pc[r] = "answered" => answer[r] = AnswerTo(outcome[r])

\* A call whose body ran carries an error of its body, which has no detail; an
\* error of the admission or of the authentication left nothing behind.
AtTheDoor == {"over_limit", "missing_credential", "invalid_credential", "malformed",
              "transport_unavailable", "context_mismatch", "conflicts"}
CleanShape(r) ==
  /\ ran[r] \/ ~Failed(r) => outcome[r].detail = ""
  /\ outcome[r].detail \in AtTheDoor =>
       /\ pc[r] \in {"unwinding", "answered"}
       /\ ~ran[r] /\ grantedAt[r] = None /\ trail[r] = <<>>

\* A granted call goes to the policy with the status that opens it.
UseShape(r) ==
  /\ pc[r] \in Early => grantedAt[r] = None
  /\ pc[r] \in {"approved", "requested"} /\ grantedAt[r] # None => ctx[r].approval = "granted"
  /\ pc[r] \in {"running", "returned", "raised"} => ran[r]
  /\ pc[r] \in {"unwinding", "answered"} /\ grantedAt[r] # None /\ Mutation(r) /\ ~AuditorMayRaise
     => ran[r]

Tale(r) == IdentityShape(r) /\ StoryShape(r) /\ CleanShape(r) /\ UseShape(r)
StoryInv == \A r \in Req : Tale(r)

-------------------------------------------------------------------------------
\* The state of thread r, and the steps it takes itself.
Own(r)  == <<pc[r], call[r], token[r], ctx[r], outcome[r], trail[r], answer[r], ran[r], grantedAt[r]>>
Acts(r) == \/ \E c \in Call : Admit(r, c) \/ TurnAway(r, c)
           \/ GateStep(r) \/ ToolStep(r) \/ AuditorRaises(r)

\* A thread touches no other's state.
LEMMA OthersStay ==
  ASSUME TypeOK, NEW s \in Req, NEW r \in Req \ {s}, Acts(r)
  PROVE  UNCHANGED Own(s)
<1> USE DEF TypeOK, Goto, Raise, Record, local, ghost, Own
<1>1. ASSUME NEW c \in Call, Admit(r, c) \/ TurnAway(r, c) PROVE UNCHANGED Own(s)
  BY <1>1 DEF Admit, TurnAway
<1>2. CASE GateStep(r)
  <2>1. CASE Authenticate(r) BY <2>1 DEF Authenticate
  <2>2. CASE NoStoreApproval(r) \/ SkipApproval(r) BY <2>2 DEF NoStoreApproval, SkipApproval
  <2>3. CASE GrantApproval(r) BY <2>3 DEF GrantApproval
  <2>4. CASE LackApproval(r) \/ RejectApproval(r) BY <2>4 DEF LackApproval, RejectApproval
  <2>5. CASE RecordRequest(r) BY <2>5 DEF RecordRequest
  <2>6. CASE Decide(r) BY <2>6 DEF Decide
  <2>7. CASE RecordOutcome(r) \/ Release(r) BY <2>7 DEF RecordOutcome, Release
  <2> QED  BY <1>2, <2>1, <2>2, <2>3, <2>4, <2>5, <2>6, <2>7 DEF GateStep, ApplyApproval
<1>3. CASE ToolStep(r) \/ AuditorRaises(r)
  BY <1>3 DEF ToolStep, ToolReturns, ToolExits, ToolRaises, AuditorRaises
<1> QED  BY <1>1, <1>2, <1>3 DEF Acts

\* Every step is a thread's own, or leaves all threads where they are.
LEMMA OneActs ==
  ASSUME [Next]_vars
  PROVE  (\E r \in Req : Acts(r)) \/ \A s \in Req : UNCHANGED Own(s)
<1> USE DEF local, ghost, Own
<1>1. CASE \/ \E t \in Token, q \in Issuable : HostIssues(t, q)
           \/ \E t \in EnvTokens : HostExports(t)
           \/ TimePasses \/ UNCHANGED vars
  BY <1>1 DEF HostIssues, HostExports, TimePasses, vars
<1> QED  BY <1>1 DEF Next, Acts

\* Nobody else touches the state of a thread.
LEMMA OwnSteps ==
  ASSUME TypeOK, [Next]_vars, NEW s \in Req
  PROVE  UNCHANGED Own(s) \/ Acts(s)
BY OneActs, OthersStay

\* What a recorded event does to a trail.
LEMMA Recorded ==
  ASSUME TypeOK, NEW r \in Req, NEW t \in EventType, NEW d \in Opt(Decision), Record(r, t, d)
  PROVE  /\ Len(trail'[r]) = Len(trail[r]) + 1 /\ Len(trail[r]) \in Nat
         /\ \A i \in 1..Len(trail[r]) : trail'[r][i] = trail[r][i]
         /\ trail'[r][Len(trail[r]) + 1] = [type |-> t, decision |-> d]
<1> DEFINE e == [type |-> t, decision |-> d]
<1>1. trail[r] \in Seq(Event) /\ e \in Event BY DEF TypeOK, Event
<1>2. trail'[r] = Append(trail[r], e) BY DEF TypeOK, Record
<1> QED  BY <1>1, <1>2

\* A call at the door: let in or turned away.
LEMMA DoorKeeps ==
  ASSUME TypeOK, NEW r \in Req, NEW c \in Call, Tale(r), Admit(r, c) \/ TurnAway(r, c)
  PROVE  Tale(r)'
<1> USE DEF Goto, local, ghost, store
<1>1. /\ trail[r] = <<>> /\ Len(trail[r]) = 0 /\ ~ran[r] /\ grantedAt[r] = None
      /\ outcome[r].class = "none" /\ outcome[r].detail = ""
  <2>1. pc[r] = "idle" BY DEF Admit, TurnAway
  <2>2. trail[r] \in Seq(Event) BY DEF TypeOK
  <2>3. Len(trail[r]) = 0 /\ ~ran[r] /\ grantedAt[r] = None /\ outcome[r].class = "none"
    BY <2>1 DEF Tale, StoryShape, UseShape, Unheard, Early, Failed
  <2>4. outcome[r].detail = "" BY <2>3 DEF Tale, CleanShape, Failed
  <2>5. trail[r] = <<>> BY <2>2, <2>3
  <2> QED  BY <2>3, <2>4, <2>5
<1>2. UNCHANGED <<trail, ran, grantedAt>> BY DEF Admit, TurnAway
<1>3. CASE Admit(r, c)
  <2>1. pc'[r] = "admitted" /\ outcome' = outcome BY <1>3 DEF Admit, TypeOK
  <2>2. (IdentityShape(r) /\ UseShape(r))' BY <1>1, <1>2, <2>1 DEF IdentityShape, UseShape
  <2>3. StoryShape(r)' BY <1>1, <1>2, <2>1 DEF StoryShape, Unheard, Early, Failed
  <2>4. CleanShape(r)' BY <1>1, <1>2, <2>1 DEF CleanShape, AtTheDoor, Failed
  <2> QED  BY <2>2, <2>3, <2>4 DEF Tale
<1>4. CASE TurnAway(r, c)
  <2> DEFINE e == Error("rate_limited", "over_limit")
  <2>1. pc'[r] = "answered" /\ outcome'[r] = e /\ answer'[r] = AnswerTo(e)
    BY <1>4 DEF TurnAway, TypeOK
  <2>2. e.class = "rate_limited" /\ e.detail = "over_limit"
    BY DEF Error
  <2> HIDE DEF e
  <2>3. (IdentityShape(r) /\ UseShape(r))'
    BY <1>1, <1>2, <2>1 DEF IdentityShape, UseShape, Early
  <2>4. StoryShape(r)' BY <1>1, <1>2, <2>1, <2>2 DEF StoryShape, Told, Unheard, Early, Failed
  <2>5. CleanShape(r)' BY <1>1, <1>2, <2>1, <2>2 DEF CleanShape, AtTheDoor, Failed
  <2> QED  BY <2>3, <2>4, <2>5 DEF Tale
<1> QED  BY <1>3, <1>4

\* Authentication succeeds, or ends the call with one of its own errors.
LEMMA AuthenticateKeeps ==
  ASSUME TypeOK, NEW r \in Req, Tale(r), Authenticate(r)
  PROVE  Tale(r)'
<1> DEFINE e == AuthError(call[r].asserted, SecretOf(call[r]))
<1>1. pc[r] = "admitted" /\ UNCHANGED <<call, trail, ran, grantedAt>>
  BY DEF Authenticate, store, ghost
<1>2. /\ trail[r] = <<>> /\ Len(trail[r]) = 0 /\ ~ran[r] /\ grantedAt[r] = None
      /\ outcome[r].class = "none" /\ outcome[r].detail = ""
  <2>1. trail[r] \in Seq(Event) BY DEF TypeOK
  <2>2. Len(trail[r]) = 0 /\ ~ran[r] /\ grantedAt[r] = None /\ outcome[r].class = "none"
    BY <1>1 DEF Tale, StoryShape, UseShape, Unheard, Early, Failed
  <2>3. outcome[r].detail = "" BY <2>2 DEF Tale, CleanShape, Failed
  <2>4. trail[r] = <<>> BY <2>1, <2>2
  <2> QED  BY <2>2, <2>3, <2>4
<1>3. CASE e = NoError
  <2>1. pc'[r] = "authenticated" /\ outcome' = outcome /\ AuthOK(r)'
    BY <1>1, <1>3 DEF Authenticate, Goto, TypeOK, AuthOK
  <2>2. (IdentityShape(r) /\ UseShape(r))' BY <1>1, <1>2, <2>1 DEF IdentityShape, UseShape
  <2>3. StoryShape(r)' BY <1>1, <1>2, <2>1 DEF StoryShape, Unheard, Early, Failed
  <2>4. CleanShape(r)' BY <1>1, <1>2, <2>1 DEF CleanShape, AtTheDoor, Failed
  <2> QED  BY <2>2, <2>3, <2>4 DEF Tale
<1>4. CASE e # NoError
  <2>1. pc'[r] = "unwinding" /\ outcome'[r] = e
    BY <1>4 DEF Authenticate, Raise, Goto, TypeOK
  <2>2. e.class # "none"
    BY <1>4 DEF AuthError, BindError, Error, NoError
  <2> HIDE DEF e
  <2>3. (IdentityShape(r) /\ UseShape(r))'
    BY <1>1, <1>2, <2>1 DEF IdentityShape, UseShape, Early
  <2>4. StoryShape(r)' BY <1>1, <1>2, <2>1, <2>2 DEF StoryShape, Told, Unheard, Early, Failed
  <2>5. CleanShape(r)' BY <1>1, <1>2, <2>1, <2>2 DEF CleanShape, AtTheDoor, Failed
  <2> QED  BY <2>3, <2>4, <2>5 DEF Tale
<1> QED  BY <1>3, <1>4

\* Approval: granted, not needed, left to the policy, or refused.
LEMMA ApprovalKeeps ==
  ASSUME TypeOK, NEW r \in Req, Tale(r), ApplyApproval(r)
  PROVE  Tale(r)'
<1> USE DEF Goto, local, ghost, store
<1>1. /\ pc[r] = "authenticated" /\ UNCHANGED <<call, trail, ran>> /\ AuthOK(r)'
      /\ GrantApproval(r) \/ grantedAt' = grantedAt
  <2>1. /\ pc[r] = "authenticated" /\ UNCHANGED <<call, trail, ran>>
        /\ GrantApproval(r) \/ grantedAt' = grantedAt
    BY DEF ApplyApproval, NoStoreApproval, SkipApproval, GrantApproval, LackApproval, RejectApproval
  <2>2. AuthOK(r) BY <2>1 DEF Tale, IdentityShape
  <2> QED  BY <2>1, <2>2 DEF AuthOK
<1>2. /\ Len(trail[r]) = 0 /\ ~ran[r] /\ grantedAt[r] = None
      /\ outcome[r].class = "none" /\ outcome[r].detail = ""
  BY <1>1 DEF Tale, StoryShape, UseShape, CleanShape, Unheard, Early, Failed
<1>3. CASE pc'[r] = "approved" /\ outcome' = outcome
           /\ (grantedAt'[r] # None => ctx'[r].approval = "granted")
  <2>1. (IdentityShape(r) /\ UseShape(r))' BY <1>1, <1>2, <1>3 DEF IdentityShape, UseShape, Early
  <2>2. StoryShape(r)' BY <1>1, <1>2, <1>3 DEF StoryShape, Unheard, Early, Failed
  <2>3. CleanShape(r)' BY <1>1, <1>2, <1>3 DEF CleanShape, AtTheDoor, Failed
  <2> QED  BY <2>1, <2>2, <2>3 DEF Tale
<1>4. CASE /\ pc'[r] = "unwinding" /\ outcome'[r].class # "none"
           /\ outcome'[r].detail \notin AtTheDoor /\ grantedAt' = grantedAt
  <2>1. (IdentityShape(r) /\ UseShape(r))' BY <1>1, <1>2, <1>4 DEF IdentityShape, UseShape, Early
  <2>2. StoryShape(r)' BY <1>1, <1>2, <1>4 DEF StoryShape, Told, Unheard, Early, Failed
  <2>3. CleanShape(r)' BY <1>1, <1>2, <1>4 DEF CleanShape, AtTheDoor, Failed
  <2> QED  BY <2>1, <2>2, <2>3 DEF Tale
<1>5. CASE GrantApproval(r)
  <2>1. pc'[r] = "approved" /\ outcome' = outcome BY <1>5 DEF GrantApproval, TypeOK
  <2>2. ctx'[r] = [ctx[r] EXCEPT !.approval = "granted"] /\ ctx[r] \in Context
    BY <1>5 DEF GrantApproval, WithStatus, TypeOK
  <2> QED  BY <1>3, <2>1, <2>2 DEF Context
<1>6. CASE SkipApproval(r) \/ LackApproval(r)
  <2>1. pc'[r] = "approved" /\ outcome' = outcome /\ grantedAt' = grantedAt
    BY <1>6 DEF SkipApproval, LackApproval, TypeOK
  <2> QED  BY <1>2, <1>3, <2>1
<1>7. CASE NoStoreApproval(r)
  <2>1. CASE TokenUnusable(r)
    <3>1. outcome'[r] = Error("validation", "approval_no_store") /\ pc'[r] = "unwinding"
      BY <1>7, <2>1 DEF NoStoreApproval, Raise, TypeOK
    <3>2. grantedAt' = grantedAt BY <1>7 DEF NoStoreApproval
    <3> QED  BY <1>4, <3>1, <3>2 DEF Error, AtTheDoor
  <2>2. CASE ~TokenUnusable(r)
    <3>1. pc'[r] = "approved" /\ outcome' = outcome /\ grantedAt' = grantedAt
      BY <1>7, <2>2 DEF NoStoreApproval, TypeOK
    <3> QED  BY <1>2, <1>3, <3>1
  <2> QED  BY <2>1, <2>2
<1>8. CASE RejectApproval(r)
  <2>1. outcome'[r] = Error("validation", "approval_rejected") /\ pc'[r] = "unwinding"
    BY <1>8 DEF RejectApproval, Raise, TypeOK
  <2>2. grantedAt' = grantedAt BY <1>8 DEF RejectApproval
  <2> QED  BY <1>4, <2>1, <2>2 DEF Error, AtTheDoor
<1> QED  BY <1>5, <1>6, <1>7, <1>8 DEF ApplyApproval

\* The request is recorded, then the decision, which lets the call run or not.
LEMMA PolicyKeeps ==
  ASSUME TypeOK, NEW r \in Req, Tale(r), RecordRequest(r) \/ Decide(r)
  PROVE  Tale(r)'
<1> USE DEF Goto, local, ghost, store
<1>1. /\ pc[r] \in {"approved", "requested"} /\ UNCHANGED <<call, ctx, grantedAt>>
      /\ ~ran[r] /\ outcome[r].class = "none" /\ outcome[r].detail = ""
      /\ grantedAt[r] # None => ctx[r].approval = "granted"
  <2>1. pc[r] \in {"approved", "requested"} /\ UNCHANGED <<call, ctx, grantedAt>>
    BY DEF RecordRequest, Decide
  <2> QED  BY <2>1 DEF Tale, StoryShape, CleanShape, UseShape, Failed
<1>2. AuthOK(r)'
  BY <1>1 DEF Tale, IdentityShape, AuthOK
<1>3. CASE RecordRequest(r)
  <2>1. pc[r] = "approved" /\ pc'[r] = "requested" /\ UNCHANGED <<outcome, ran>>
    BY <1>3 DEF RecordRequest, TypeOK
  <2>2. Asked(trail'[r])
    <3>1. Record(r, "REQUEST", None) /\ Len(trail[r]) = 0
      BY <1>3, <2>1 DEF RecordRequest, Tale, StoryShape, Unheard
    <3>2. "REQUEST" \in EventType /\ None \in Opt(Decision) BY DEF EventType, Opt
    <3>3. /\ Len(trail'[r]) = Len(trail[r]) + 1
          /\ trail'[r][Len(trail[r]) + 1] = [type |-> "REQUEST", decision |-> None]
      BY <3>1, <3>2, Recorded
    <3> QED  BY <3>1, <3>3 DEF Asked
  <2>3. (IdentityShape(r) /\ UseShape(r))' BY <1>1, <1>2, <2>1 DEF IdentityShape, UseShape, Early
  <2>4. StoryShape(r)' BY <1>1, <2>1, <2>2 DEF StoryShape, Early, Failed
  <2>5. CleanShape(r)' BY <1>1, <2>1 DEF CleanShape, AtTheDoor, Failed
  <2> QED  BY <2>3, <2>4, <2>5 DEF Tale
<1>4. CASE Decide(r)
  <2> DEFINE d == DecisionFor(r)
  <2>1. pc[r] = "requested" /\ Record(r, "DECISION", d)
    BY <1>4 DEF Decide
  <2>2. d \in Decision
    BY <2>1, EvaluateType DEF DecisionFor, CallType, TypeOK
  <2>3. Decided(trail'[r], d)
    <3>1. Asked(trail[r]) BY <2>1 DEF Tale, StoryShape
    <3>2. "DECISION" \in EventType /\ d \in Opt(Decision) BY <2>2 DEF EventType, Opt
    <3>3. /\ Len(trail'[r]) = Len(trail[r]) + 1
          /\ \A i \in 1..Len(trail[r]) : trail'[r][i] = trail[r][i]
          /\ trail'[r][Len(trail[r]) + 1] = [type |-> "DECISION", decision |-> d]
      BY <2>1, <3>2, Recorded
    <3> QED  BY <3>1, <3>3 DEF Asked, Decided
  <2>4. grantedAt[r] # None /\ Mutation(r) => d = "ALLOW"
    BY <1>1 DEF DecisionFor, Evaluate, Mutation
  <2>5. Mutation(r)' = Mutation(r)
    BY <1>1 DEF Mutation
  <2>6. CASE d = "ALLOW"
    <3>1. pc'[r] = "running" /\ ran'[r] /\ outcome' = outcome
      BY <1>4, <2>6 DEF Decide, MayRun, TypeOK
    <3>2. outcome[r].detail = "" BY <1>1 DEF Tale, CleanShape, Failed
    <3>3. (IdentityShape(r) /\ UseShape(r))' BY <1>2, <3>1 DEF IdentityShape, UseShape, Early
    <3>4. StoryShape(r)' BY <1>1, <2>3, <2>6, <3>1 DEF StoryShape, Early, Failed
    <3>5. CleanShape(r)' BY <1>1, <3>1, <3>2 DEF CleanShape, AtTheDoor, Failed
    <3> QED  BY <3>3, <3>4, <3>5 DEF Tale
  <2>7. CASE d # "ALLOW"
    <3>1. pc'[r] = "unwinding" /\ ran' = ran /\ outcome'[r] = Refusal(call[r].tool, d)
      BY <1>4, <2>7 DEF Decide, MayRun, Raise, TypeOK
    <3>2. outcome'[r].class # "none" /\ outcome'[r].detail \notin AtTheDoor
      BY <2>2, <2>7, <3>1 DEF Refusal, Error, AtTheDoor, Decision
    <3>3. (IdentityShape(r) /\ UseShape(r))'
      BY <1>1, <1>2, <2>4, <2>5, <2>7, <3>1 DEF IdentityShape, UseShape, Early
    <3>4. StoryShape(r)'
      BY <1>1, <2>2, <2>3, <2>7, <3>1, <3>2 DEF StoryShape, Told, Early, Failed
    <3>5. CleanShape(r)' BY <1>1, <3>1, <3>2 DEF CleanShape, AtTheDoor, Failed
    <3> QED  BY <3>3, <3>4, <3>5 DEF Tale
  <2> QED  BY <2>6, <2>7
<1> QED  BY <1>3, <1>4

\* The body ends, its end is recorded, or the auditor fails.
LEMMA BodyKeeps ==
  ASSUME TypeOK, NEW r \in Req, Tale(r), ToolStep(r) \/ RecordOutcome(r) \/ AuditorRaises(r)
  PROVE  Tale(r)'
<1> USE DEF Goto, local, ghost, store
<1>1. /\ pc[r] \in {"approved", "requested", "running", "returned", "raised"}
      /\ UNCHANGED <<call, ctx, ran, grantedAt>> /\ AuthOK(r)
  <2>1. /\ pc[r] \in {"approved", "requested", "running", "returned", "raised"}
        /\ UNCHANGED <<call, ctx, ran, grantedAt>>
    BY DEF ToolStep, ToolReturns, ToolExits, ToolRaises, RecordOutcome, Over, AuditorRaises
  <2> QED  BY <2>1 DEF Tale, IdentityShape
<1>2. AuthOK(r)' /\ Mutation(r)' = Mutation(r)
  BY <1>1 DEF AuthOK, Mutation
<1>3. ran[r] \/ ~Failed(r) => outcome[r].detail = ""
  BY DEF Tale, CleanShape
<1>4. ASSUME NEW e \in ErrorRecord, pc[r] = "running", outcome'[r] = e, trail' = trail,
             e.class # "none", e.detail = "", pc'[r] \in {"raised", "unwinding"}
      PROVE  Tale(r)'
  <2>1. ran[r] /\ Decided(trail[r], "ALLOW")
    BY <1>4 DEF Tale, StoryShape
  <2>2. (IdentityShape(r) /\ UseShape(r))' BY <1>1, <1>2, <1>4, <2>1 DEF IdentityShape, UseShape, Early
  <2>3. StoryShape(r)' BY <1>1, <1>4, <2>1 DEF StoryShape, Told, Early, Failed
  <2>4. CleanShape(r)' BY <1>4 DEF CleanShape, AtTheDoor, Failed
  <2> QED  BY <2>2, <2>3, <2>4 DEF Tale
<1>5. CASE ToolReturns(r)
  <2>1. pc[r] = "running" /\ pc'[r] = "returned" /\ UNCHANGED <<outcome, trail>>
    BY <1>5 DEF ToolReturns, TypeOK
  <2>2. ran[r] /\ Decided(trail[r], "ALLOW") /\ ~Failed(r)
    BY <2>1 DEF Tale, StoryShape
  <2>3. (IdentityShape(r) /\ UseShape(r))' BY <1>1, <1>2, <2>1, <2>2 DEF IdentityShape, UseShape, Early
  <2>4. StoryShape(r)' BY <1>1, <2>1, <2>2 DEF StoryShape, Early, Failed
  <2>5. CleanShape(r)' BY <1>1, <1>3, <2>1, <2>2 DEF CleanShape, AtTheDoor, Failed
  <2> QED  BY <2>3, <2>4, <2>5 DEF Tale
<1>6. CASE ToolExits(r)
  <2> DEFINE e == Error("exit", "")
  <2>1. e \in ErrorRecord /\ e.class # "none" /\ e.detail = ""
    BY DEF Error, ErrorRecord, ErrorClass, Detail
  <2>2. pc[r] = "running" /\ pc'[r] = "unwinding" /\ trail' = trail /\ outcome'[r] = e
    BY <1>6 DEF ToolExits, Raise, TypeOK
  <2> QED  BY <1>4, <2>1, <2>2
<1>7. ASSUME NEW e \in ToolErrors, ToolRaises(r, e) PROVE Tale(r)'
  <2>1. e \in ErrorRecord /\ e.class # "none" /\ e.detail = ""
    BY GateAssumption DEF GateAssumption, ErrorRecord, Detail
  <2>2. pc[r] = "running" /\ pc'[r] = "raised" /\ trail' = trail /\ outcome'[r] = e
    BY <1>7 DEF ToolRaises, TypeOK
  <2> QED  BY <1>4, <2>1, <2>2
<1>8. CASE RecordOutcome(r)
  <2>1. /\ pc[r] \in {"returned", "raised"} /\ pc'[r] = "unwinding" /\ outcome' = outcome
        /\ Record(r, OutcomeEvent(r), DecisionFor(r))
    BY <1>8 DEF RecordOutcome, Over, TypeOK
  <2>2. ran[r] /\ Decided(trail[r], "ALLOW") /\ (Failed(r) <=> pc[r] = "raised")
    BY <2>1 DEF Tale, StoryShape
  <2>3. DecisionFor(r) \in Decision /\ OutcomeEvent(r) \in EventType
    BY <2>1, EvaluateType DEF DecisionFor, CallType, TypeOK, OutcomeEvent, EventType
  <2>4. Ended(trail'[r], OutcomeEvent(r))
    <3>1. DecisionFor(r) \in Opt(Decision) BY <2>3 DEF Opt
    <3>2. /\ Len(trail'[r]) = Len(trail[r]) + 1
          /\ \A i \in 1..Len(trail[r]) : trail'[r][i] = trail[r][i]
          /\ trail'[r][Len(trail[r]) + 1] = [type |-> OutcomeEvent(r), decision |-> DecisionFor(r)]
      BY <2>1, <2>3, <3>1, Recorded
    <3> QED  BY <2>2, <3>2 DEF Ended, Decided
  <2>5. OutcomeEvent(r) = IF Failed(r) THEN "FAILURE" ELSE "RESULT"
    BY <2>2 DEF OutcomeEvent
  <2>6. (IdentityShape(r) /\ UseShape(r))' BY <1>1, <1>2, <2>1, <2>2 DEF IdentityShape, UseShape, Early
  <2>7. StoryShape(r)' BY <1>1, <2>1, <2>2, <2>4, <2>5 DEF StoryShape, Told, Early, Failed
  <2>8. CleanShape(r)' BY <1>1, <1>3, <2>1, <2>2 DEF CleanShape, AtTheDoor, Failed
  <2> QED  BY <2>6, <2>7, <2>8 DEF Tale
<1>9. CASE AuditorRaises(r)
  <2> DEFINE e == Error("raw", "")
  <2>1. e.class # "none" /\ e.detail = ""
    BY DEF Error
  <2>2. /\ AuditorMayRaise /\ pc[r] \in {"approved", "requested", "returned", "raised"}
        /\ pc'[r] = "unwinding" /\ trail' = trail /\ outcome'[r] = e
    BY <1>9 DEF AuditorRaises, Raise, TypeOK
  <2> HIDE DEF e
  <2>3. \/ ran[r] /\ Decided(trail[r], "ALLOW")
        \/ ~ran[r] /\ (Unheard(trail[r]) \/ Asked(trail[r]))
    BY <2>2 DEF Tale, StoryShape
  <2>4. (IdentityShape(r) /\ UseShape(r))' BY <1>1, <1>2, <2>2 DEF IdentityShape, UseShape, Early
  <2>5. StoryShape(r)' BY <1>1, <2>1, <2>2, <2>3 DEF StoryShape, Told, Early, Failed
  <2>6. CleanShape(r)' BY <2>1, <2>2 DEF CleanShape, AtTheDoor, Failed
  <2> QED  BY <2>4, <2>5, <2>6 DEF Tale
<1> QED  BY <1>5, <1>6, <1>7, <1>8, <1>9 DEF ToolStep

\* The permit goes back and the call is answered.
LEMMA ReleaseKeeps ==
  ASSUME TypeOK, NEW r \in Req, Tale(r), Release(r)
  PROVE  Tale(r)'
<1>1. /\ pc[r] = "unwinding" /\ pc'[r] = "answered" /\ answer'[r] = AnswerTo(outcome[r])
      /\ UNCHANGED <<call, ctx, outcome, trail, ran, grantedAt>>
  BY DEF Release, Goto, local, ghost, TypeOK
<1>2. (IdentityShape(r) /\ UseShape(r))'
  BY <1>1 DEF Tale, IdentityShape, UseShape, AuthOK, Mutation, Early
<1>3. StoryShape(r)' BY <1>1 DEF Tale, StoryShape, Told, Early, Failed
<1>4. CleanShape(r)' BY <1>1 DEF Tale, CleanShape, Failed
<1> QED  BY <1>2, <1>3, <1>4 DEF Tale

\* A step of another thread, of the host or of time.
LEMMA OthersKeep ==
  ASSUME NEW r \in Req, Tale(r), UNCHANGED Own(r)
  PROVE  Tale(r)'
<1>1. (IdentityShape(r) /\ UseShape(r))'
  BY DEF Own, Tale, IdentityShape, UseShape, AuthOK, Mutation
<1>2. StoryShape(r)' BY DEF Own, Tale, StoryShape, Told, Failed
<1>3. CleanShape(r)' BY DEF Own, Tale, CleanShape, Failed
<1> QED  BY <1>1, <1>2, <1>3 DEF Tale

LEMMA StoryInvariant == Spec => []StoryInv
<1>1. Init => StoryInv
  <2> SUFFICES ASSUME Init, NEW r \in Req PROVE Tale(r)
    BY DEF StoryInv
  <2>1. /\ pc[r] = "idle" /\ trail[r] = <<>> /\ ~ran[r] /\ grantedAt[r] = None
        /\ outcome[r] = NoError
    BY DEF Init
  <2>2. NoError.class = "none" /\ NoError.detail = "" BY DEF NoError, Error
  <2>3. IdentityShape(r) /\ UseShape(r) BY <2>1 DEF IdentityShape, UseShape
  <2>4. StoryShape(r) BY <2>1, <2>2 DEF StoryShape, Unheard, Early, Failed
  <2>5. CleanShape(r) BY <2>1, <2>2 DEF CleanShape, AtTheDoor, Failed
  <2> QED  BY <2>3, <2>4, <2>5 DEF Tale
<1>2. TypeOK /\ StoryInv /\ [Next]_vars => StoryInv'
  <2> SUFFICES ASSUME TypeOK, StoryInv, [Next]_vars, NEW r \in Req PROVE Tale(r)'
    BY DEF StoryInv
  <2>1. Tale(r) BY DEF StoryInv
  <2>2. CASE UNCHANGED Own(r) BY <2>1, <2>2, OthersKeep
  <2>3. CASE Acts(r)
    BY <2>1, <2>3, DoorKeeps, AuthenticateKeeps, ApprovalKeeps, PolicyKeeps, BodyKeeps, ReleaseKeeps
    DEF Acts, GateStep
  <2> QED  BY <2>2, <2>3, OwnSteps
<1> QED  BY <1>1, <1>2, TypeCorrect, PTL DEF Spec

-------------------------------------------------------------------------------
\* The events of a trail, as far as it has come.
LEMMA EventsOfATrail ==
  ASSUME NEW t \in Seq(Event), NEW i \in DOMAIN t
  PROVE  /\ ~Unheard(t)
         /\ Asked(t) => t[i] = [type |-> "REQUEST", decision |-> None]
         /\ \A d : Decided(t, d) => \/ t[i] = [type |-> "REQUEST", decision |-> None]
                                   \/ t[i] = [type |-> "DECISION", decision |-> d]
         /\ \A e : Ended(t, e) => IF i = 3 THEN t[i].type = e
                                  ELSE t[i].type \in {"REQUEST", "DECISION"}
<1>1. i \in 1..Len(t) /\ Len(t) \in Nat OBVIOUS
<1>2. Len(t) # 0 /\ (Len(t) = 1 => i = 1) /\ (Len(t) = 2 => i \in {1, 2})
      /\ (Len(t) = 3 => i \in {1, 2, 3})
  BY <1>1
<1>3. ~Unheard(t) /\ (Asked(t) => t[i] = [type |-> "REQUEST", decision |-> None])
  BY <1>2 DEF Unheard, Asked
<1>4. \A d : Decided(t, d) => \/ t[i] = [type |-> "REQUEST", decision |-> None]
                              \/ t[i] = [type |-> "DECISION", decision |-> d]
  BY <1>2 DEF Decided
<1>5. \A e : Ended(t, e) => IF i = 3 THEN t[i].type = e
                            ELSE t[i].type \in {"REQUEST", "DECISION"}
  BY <1>2 DEF Ended
<1> QED  BY <1>3, <1>4, <1>5

\* Where authentication is required, no approval is spent, no event recorded and
\* no body entered for a call that did not present the secret or that asserts to
\* be someone else (resolve_execution_auth, before everything else in execute).
THEOREM IdentityComesFirst == Spec => []NothingWithoutIdentity
<1>1. TypeOK /\ StoryInv => NothingWithoutIdentity
  <2> SUFFICES ASSUME TypeOK, StoryInv, Attached, RequireAuth, NEW r \in Req,
                      ran[r] \/ grantedAt[r] # None \/ trail[r] # <<>>
               PROVE  Vouched(r)
    BY DEF NothingWithoutIdentity
  <2>1. pc[r] \notin {"idle", "admitted"} /\ AuthOK(r)
    BY DEF StoryInv, Tale, IdentityShape
  <2>2. call[r] \in CallType /\ SecretOf(call[r]) \in Opt(Secret)
    BY <2>1, SecretType DEF TypeOK
  <2> DEFINE s == SecretOf(call[r])
             a == AssertedOrEmpty(call[r].asserted)
  <2>3. BindError(a, s) = NoError
    BY <2>1 DEF AuthOK, AuthError
  <2> HIDE DEF s, a
  <2>4. AuthStatus(s) = "authenticated" /\ ~Impersonates(a)
    BY <2>3 DEF BindError, Error, NoError
  <2>5. s = "right"
    BY <2>2, <2>4 DEF s, AuthStatus, SharedSecretStatus, Opt, Secret
  <2> QED  BY <2>4, <2>5 DEF Vouched, s, a
<1> QED  BY <1>1, TypeCorrect, StoryInvariant, PTL

\* The trail of a call can be trusted: a body that ran is preceded by a request
\* and an ALLOW, one that did not run shows neither ALLOW nor outcome, there is
\* one outcome at most, and success is on record exactly when it was reported
\* (execute and the recorder it calls).
THEOREM TrailsAreTrue == Spec => []AuditTellsTheStory
<1>1. TypeOK /\ StoryInv => AuditTellsTheStory
  <2> SUFFICES ASSUME TypeOK, StoryInv, NEW r \in Req
               PROVE  /\ ran[r] => /\ Len(trail[r]) >= 2
                                   /\ trail[r][1].type = "REQUEST"
                                   /\ trail[r][2] = [type |-> "DECISION", decision |-> "ALLOW"]
                      /\ ~ran[r] => \A i \in DOMAIN trail[r] :
                                      /\ trail[r][i].type \in {"REQUEST", "DECISION"}
                                      /\ trail[r][i].decision # "ALLOW"
                      /\ Cardinality(Events(r, "RESULT") \cup Events(r, "FAILURE")) <= 1
                      /\ pc[r] = "answered" => (answer[r] = "OK" <=> Events(r, "RESULT") # {})
    BY DEF AuditTellsTheStory
  <2> DEFINE t == trail[r]
  <2>1. t \in Seq(Event) /\ DOMAIN t = 1..Len(t) /\ Len(t) \in Nat
    BY DEF TypeOK
  <2>2. Tale(r) BY DEF StoryInv
  <2>3. pc[r] \in PC BY DEF TypeOK
  <2>4. \/ ran[r] /\ Decided(t, "ALLOW")
        \/ ran[r] /\ \E e \in {"RESULT", "FAILURE"} : Ended(t, e)
        \/ ~ran[r] /\ (Unheard(t) \/ Asked(t) \/ \E d \in Decision \ {"ALLOW"} : Decided(t, d))
    BY <2>2, <2>3 DEF Tale, StoryShape, Told, PC, Early
  <2> HIDE DEF t
  <2>5. ran[r] => Len(t) >= 2 /\ t[1].type = "REQUEST"
                  /\ t[2] = [type |-> "DECISION", decision |-> "ALLOW"]
    BY <2>4 DEF Decided, Ended
  <2>6. ASSUME ~ran[r], NEW i \in DOMAIN t
        PROVE  t[i].type \in {"REQUEST", "DECISION"} /\ t[i].decision # "ALLOW"
    <3>1. \/ t[i] = [type |-> "REQUEST", decision |-> None]
          \/ \E d \in Decision \ {"ALLOW"} : t[i] = [type |-> "DECISION", decision |-> d]
      BY <2>1, <2>4, <2>6, EventsOfATrail
    <3>2. None # "ALLOW"
      BY GateAssumption DEF GateAssumption, Decision
    <3> QED  BY <3>1, <3>2
  <2> DEFINE both == {i \in DOMAIN t : t[i].type = "RESULT"} \cup {i \in DOMAIN t : t[i].type = "FAILURE"}
  <2>7. both \subseteq {3}
    <3>1. ASSUME NEW i \in DOMAIN t, i # 3 PROVE t[i].type \in {"REQUEST", "DECISION"}
      BY <2>1, <2>4, <3>1, EventsOfATrail
    <3> QED  BY <3>1
  <2>8. Cardinality(both) <= 1
    <3>1. IsFiniteSet({3}) /\ Cardinality({3}) = 1 BY FS_Singleton
    <3> HIDE DEF both
    <3>2. IsFiniteSet(both) /\ Cardinality(both) <= Cardinality({3}) BY <2>7, <3>1, FS_Subset
    <3> QED  BY <3>1, <3>2
  <2>9. pc[r] = "answered" => (answer[r] = "OK" <=> {i \in DOMAIN t : t[i].type = "RESULT"} # {})
    <3> SUFFICES ASSUME pc[r] = "answered"
                 PROVE  answer[r] = "OK" <=> {i \in DOMAIN t : t[i].type = "RESULT"} # {}
      OBVIOUS
    <3>1. Told(r) /\ answer[r] = AnswerTo(outcome[r]) /\ outcome[r] \in ErrorRecord
      BY <2>2 DEF Tale, StoryShape, TypeOK
    <3>2. answer[r] = "OK" <=> ~Failed(r)
      BY <3>1 DEF AnswerTo, CodeFor, CategoryCode, Failed, ErrorRecord, ErrorClass, McpClass
    <3>3. CASE ~Failed(r)
      <4>1. Len(t) = 3 /\ t[3].type = "RESULT" BY <3>1, <3>3 DEF Told, t, Ended
      <4> QED  BY <2>1, <3>2, <3>3, <4>1
    <3>4. CASE Failed(r)
      <4>1. ASSUME NEW i \in DOMAIN t PROVE t[i].type # "RESULT"
        <5>1. \/ Decided(t, "ALLOW") \/ Ended(t, "FAILURE") \/ Unheard(t) \/ Asked(t)
              \/ \E d \in Decision : Decided(t, d)
          BY <3>1, <3>4 DEF Told, t
        <5> QED  BY <2>1, <5>1, EventsOfATrail
      <4> QED  BY <3>2, <3>4, <4>1
    <3> QED  BY <3>3, <3>4
  <2> QED  BY <2>5, <2>6, <2>8, <2>9 DEF Events, t
<1> QED  BY <1>1, TypeCorrect, StoryInvariant, PTL

\* What the answer of a call on its way out says of it: success is reported for
\* a call that ran, a refusal of the policy or of the identity for one that did not.
LEMMA AnswerStory ==
  ASSUME TypeOK, StoryInv, NEW r \in Req, pc[r] \in {"unwinding", "answered"}
  PROVE  /\ AnswerTo(outcome[r]) = "OK" <=> ~Failed(r)
         /\ AnswerTo(outcome[r]) = "OK" => ran[r]
         /\ AnswerTo(outcome[r]) \in {"INVALID_CONTEXT", "AUTHENTICATION_FAILED"}
              => outcome[r].detail \in AtTheDoor
         /\ AnswerTo(outcome[r]) \in {"APPROVAL_REQUIRED", "UNKNOWN_TOOL", "INVALID_CONTEXT",
                                      "AUTHENTICATION_FAILED"} => ~ran[r]
<1> DEFINE a == AnswerTo(outcome[r])
<1>1. Told(r) /\ CleanShape(r) /\ outcome[r] \in ErrorRecord
  BY DEF StoryInv, Tale, StoryShape, TypeOK
<1>2. a = "OK" <=> ~Failed(r)
  BY <1>1 DEF AnswerTo, CodeFor, CategoryCode, Failed, ErrorRecord, ErrorClass, McpClass
<1>3. a \in {"INVALID_CONTEXT", "AUTHENTICATION_FAILED"} => outcome[r].detail \in AtTheDoor
  BY <1>1 DEF AnswerTo, CodeFor, CredentialRejected, CategoryCode, ErrorRecord, ErrorClass,
              McpClass, AtTheDoor
<1>4. outcome[r].detail = "" => a \notin {"APPROVAL_REQUIRED", "UNKNOWN_TOOL"}
  <2> DEFINE e == outcome[r]
  <2>1. a = AnswerTo(e) /\ e.class \in ErrorClass
    BY <1>1 DEF ErrorRecord
  <2> HIDE DEF e
  <2>2. CASE e.class = "policy_denied"
    BY <2>1, <2>2 DEF AnswerTo, CodeFor, e
  <2>3. CASE e.class \in {"none", "raw", "exit", "unauthenticated", "validation"}
    BY <2>1, <2>3 DEF AnswerTo, CodeFor
  <2>4. CASE e.class \in {"unauthorized", "upstream", "unavailable", "timeout", "internal",
                          "not_found", "rate_limited"}
    <3>1. CategoryCode[e.class] \notin {"APPROVAL_REQUIRED", "UNKNOWN_TOOL"}
      BY <2>4 DEF CategoryCode
    <3> QED  BY <2>1, <2>4, <3>1 DEF AnswerTo, CodeFor
  <2> QED  BY <2>1, <2>2, <2>3, <2>4 DEF ErrorClass, McpClass
<1>5. ~Failed(r) => ran[r] BY <1>1 DEF Told
<1> HIDE DEF a
<1>6. a \in {"APPROVAL_REQUIRED", "UNKNOWN_TOOL", "INVALID_CONTEXT", "AUTHENTICATION_FAILED"}
      => ~ran[r]
  BY <1>1, <1>3, <1>4 DEF CleanShape
<1> QED  BY <1>2, <1>3, <1>5, <1>6 DEF a

\* What a client may conclude from a refusal: these codes mean that the body
\* never ran, and a call refused for its identity or for lack of a permit spent
\* no approval and left no event (client_contract.py, wrap_tool).
THEOREM RefusalsAreClean == Spec => []RefusalIsClean
<1>1. TypeOK /\ StoryInv => RefusalIsClean
  <2> SUFFICES ASSUME TypeOK, StoryInv, NEW r \in Req, pc[r] = "answered"
               PROVE  /\ answer[r] \in {"APPROVAL_REQUIRED", "UNKNOWN_TOOL", "INVALID_CONTEXT",
                                        "AUTHENTICATION_FAILED"} => ~ran[r]
                      /\ \/ answer[r] \in {"INVALID_CONTEXT", "AUTHENTICATION_FAILED"}
                         \/ outcome[r].detail \in {"over_limit", "missing_credential"}
                         => ~ran[r] /\ grantedAt[r] = None /\ trail[r] = <<>>
    BY DEF RefusalIsClean
  <2>1. CleanShape(r) /\ answer[r] = AnswerTo(outcome[r])
    BY DEF StoryInv, Tale, StoryShape
  <2> QED  BY <2>1, AnswerStory DEF CleanShape, AtTheDoor
<1> QED  BY <1>1, TypeCorrect, StoryInvariant, PTL

\* Where the auditor does not fail, an approval that was spent on a mutation was
\* not spent in vain: nothing between the store and the body refuses the call any
\* more (execute, after _apply_approval).
THEOREM NoGrantIsWasted == Spec => []SpentGrantIsUsed
<1>1. StoryInv => SpentGrantIsUsed
  BY DEF StoryInv, Tale, UseShape, SpentGrantIsUsed
<1> QED  BY <1>1, StoryInvariant, PTL

-------------------------------------------------------------------------------
(***************************************************************************)
(* The gate keeps its promise.  Each step moves what the promise sees of    *)
(* one thread at most, and moves it as an action of the promise would.      *)
(***************************************************************************)
Phases      == [r \in Req |-> PhaseOf(r)]
Mutatings   == [r \in Req |-> MutatingOf(r)]
Permissions == [r \in Req |-> PermissionOf(r)]
Replies     == [r \in Req |-> ReplyOf(r)]

Unseen(r) == /\ PhaseOf(r)' = PhaseOf(r) /\ MutatingOf(r)' = MutatingOf(r)
             /\ PermissionOf(r)' = PermissionOf(r) /\ ReplyOf(r)' = ReplyOf(r)
             /\ ran'[r] = ran[r]

GateInv == TypeOK /\ ApprovalInv /\ StoryInv /\ PermitsConserved

\* A permission stays what it was: the entry behind it keeps its grant.
LEMMA PermissionKept ==
  ASSUME TypeOK, ApprovalInv, [Next]_vars, NEW r \in Req,
         grantedAt'[r] = grantedAt[r], token'[r] = token[r]
  PROVE  PermissionOf(r)' = PermissionOf(r)
<1>1. CASE grantedAt[r] = None BY <1>1 DEF PermissionOf
<1>2. CASE grantedAt[r] # None
  <2>1. token[r] \in Token /\ entries[token[r]] # None
    BY <1>2 DEF ApprovalInv, ThreadInv, GrantCovers
  <2>2. entries'[token[r]].grant = entries[token[r]].grant BY <2>1, EntryKept DEF Kept
  <2> QED  BY <1>2, <2>2 DEF PermissionOf
<1> QED  BY <1>1, <1>2

LEMMA StillUnseen ==
  ASSUME TypeOK, ApprovalInv, [Next]_vars, NEW r \in Req, UNCHANGED Own(r)
  PROVE  Unseen(r)
<1>1. PermissionOf(r)' = PermissionOf(r) BY PermissionKept DEF Own
<1> QED  BY <1>1 DEF Own, Unseen, PhaseOf, MutatingOf, Mutation, ReplyOf

\* A step inside the gate that neither spends a token nor enters the body.
LEMMA InsideUnseen ==
  ASSUME TypeOK, ApprovalInv, [Next]_vars, NEW r \in Req,
         UNCHANGED <<call[r], answer[r], ran[r], grantedAt[r]>>,
         token'[r] = token[r] \/ grantedAt[r] = None,
         pc[r] \notin {"idle", "answered"}, pc'[r] \notin {"idle", "answered"}
  PROVE  Unseen(r)
<1>1. PermissionOf(r)' = PermissionOf(r)
  <2>1. CASE token'[r] = token[r] BY <2>1, PermissionKept
  <2>2. CASE grantedAt[r] = None BY <2>2 DEF PermissionOf
  <2> QED  BY <2>1, <2>2
<1> QED  BY <1>1 DEF Unseen, PhaseOf, MutatingOf, Mutation, ReplyOf

LEMMA NothingSeen ==
  ASSUME TypeOK, TypeOK', \A s \in Req : Unseen(s)
  PROVE  UNCHANGED P!pvars
<1>1. ran' = ran BY DEF TypeOK, Unseen
<1> QED  BY <1>1 DEF P!pvars, Unseen

\* What the promise sees of a step of one thread.
LEMMA OneSeen ==
  ASSUME TypeOK, TypeOK', NEW r \in Req, \A s \in Req \ {r} : Unseen(s)
  PROVE  /\ Phases' = [Phases EXCEPT ![r] = PhaseOf(r)']
         /\ Mutatings' = [Mutatings EXCEPT ![r] = MutatingOf(r)']
         /\ Permissions' = [Permissions EXCEPT ![r] = PermissionOf(r)']
         /\ Replies' = [Replies EXCEPT ![r] = ReplyOf(r)']
         /\ ran' = [ran EXCEPT ![r] = ran'[r]]
<1>1. ran' = [ran EXCEPT ![r] = ran'[r]] BY DEF TypeOK, Unseen
<1> QED  BY <1>1 DEF Unseen, Phases, Mutatings, Permissions, Replies

LEMMA SameInside == P!In = Inside /\ P!Cardinality(P!In) = Cardinality(Inside)
<1>1. P!In = Inside BY DEF P!In, Inside, PhaseOf
<1>2. P!Cardinality(Inside) = Cardinality(Inside) BY DEF P!Cardinality, Cardinality
<1> QED  BY <1>1, <1>2

\* What the promise reads in an answer.
LEMMA ReplyIs ==
  ASSUME NEW a \in Answer
  PROVE  /\ ReplyTo(a) \in {"done", "refused", "error"}
         /\ ReplyTo(a) = "done" <=> a = "OK"
         /\ ReplyTo(a) = "refused" =>
              a \in {"APPROVAL_REQUIRED", "UNKNOWN_TOOL", "INVALID_CONTEXT",
                    "AUTHENTICATION_FAILED"}
<1>1. None \notin Answer BY RefinementAssumption DEF RefinementAssumption
<1> QED  BY <1>1 DEF ReplyTo

\* The promise starts where the gate does.
LEMMA InitSeen == Init => P!PromiseInit
<1> SUFFICES ASSUME Init PROVE P!PromiseInit
  OBVIOUS
<1>1. \A r \in Req : /\ PhaseOf(r) = "out" /\ MutatingOf(r) = FALSE
                     /\ PermissionOf(r) = None
  BY DEF Init, PhaseOf, MutatingOf, PermissionOf
<1>2. \A r \in Req : ReplyOf(r) = None
  <2>1. {"OK", "APPROVAL_REQUIRED", "UNKNOWN_TOOL", "INVALID_CONTEXT",
         "AUTHENTICATION_FAILED"} \subseteq Answer
    BY DEF Answer
  <2>2. None \notin Answer BY RefinementAssumption DEF RefinementAssumption
  <2> QED  BY <2>1, <2>2 DEF Init, ReplyOf, ReplyTo
<1>3. ran = [r \in Req |-> FALSE] BY DEF Init
<1> QED  BY <1>1, <1>2, <1>3 DEF P!PromiseInit

\* A call let in found a permit; one turned away found none.
LEMMA DoorSeen ==
  ASSUME GateInv, TypeOK', NEW r \in Req, \A s \in Req \ {r} : Unseen(s),
         NEW c \in Call, Admit(r, c) \/ TurnAway(r, c)
  PROVE  P!PromiseNext
<1> DEFINE m == MutatingOf(r)'
<1>1. /\ pc[r] = "idle" /\ UNCHANGED <<ran, grantedAt>>
      /\ call' = [call EXCEPT ![r] = c]
  BY DEF Admit, TurnAway, ghost
<1>2. PhaseOf(r) = "out" /\ grantedAt[r] = None
  BY <1>1 DEF GateInv, ApprovalInv, ThreadInv, Early, PhaseOf
<1>3. PermissionOf(r)' = None /\ PermissionOf(r) = None BY <1>1, <1>2 DEF PermissionOf
<1>4. m \in BOOLEAN BY DEF MutatingOf, Mutation
<1>5. /\ Phases' = [Phases EXCEPT ![r] = PhaseOf(r)'] /\ Mutatings' = [Mutatings EXCEPT ![r] = m]
      /\ Permissions' = Permissions
      /\ Replies' = [Replies EXCEPT ![r] = ReplyOf(r)'] /\ ran' = ran
  <2>1. TypeOK BY DEF GateInv
  <2>2. /\ Phases' = [Phases EXCEPT ![r] = PhaseOf(r)'] /\ Mutatings' = [Mutatings EXCEPT ![r] = m]
        /\ Permissions' = [Permissions EXCEPT ![r] = PermissionOf(r)']
        /\ Replies' = [Replies EXCEPT ![r] = ReplyOf(r)']
    BY <2>1, OneSeen
  <2> QED  BY <1>1, <1>3, <2>2 DEF Permissions
<1>6. /\ slots + P!Cardinality(P!In) = Limit /\ P!Cardinality(P!In) \in Nat
      /\ slots \in Nat /\ Limit \in Nat
  <2>1. IsFiniteSet(Inside)
    BY GateAssumption, FS_Subset DEF Inside, GateAssumption
  <2> QED  BY <2>1, FS_CardinalityType, SameInside, GateAssumption
           DEF GateInv, PermitsConserved, TypeOK, GateAssumption
<1> HIDE DEF m
<1>7. CASE Admit(r, c)
  <2>1. PhaseOf(r)' = "in" /\ ReplyOf(r)' = ReplyOf(r)
    BY <1>7 DEF GateInv, TypeOK, Admit, Goto, PhaseOf, ReplyOf
  <2>2. P!Cardinality(P!In) < Limit BY <1>6, <1>7 DEF Admit, PermitFree
  <2>3. /\ Phases[r] = "out" /\ Phases' = [Phases EXCEPT ![r] = "in"]
        /\ Replies' = Replies
    BY <1>2, <1>5, <2>1 DEF Phases, Replies
  <2>4. P!Enter(r, m)
    BY <1>5, <2>2, <2>3 DEF P!Enter, Phases, Mutatings, Permissions, Replies
  <2> QED  BY <1>4, <2>4 DEF P!PromiseNext
<1>8. CASE TurnAway(r, c)
  <2>1. PhaseOf(r)' = "done" BY <1>8 DEF GateInv, TypeOK, TurnAway, Goto, PhaseOf
  <2>2. ReplyOf(r)' = "error"
    <3>1. answer'[r] = "CONCURRENCY_LIMIT"
      BY <1>8 DEF GateInv, TypeOK, TurnAway, AnswerTo, CodeFor, CategoryCode, Error
    <3>2. None # "CONCURRENCY_LIMIT" BY RefinementAssumption DEF RefinementAssumption, Answer
    <3> QED  BY <3>1, <3>2 DEF ReplyOf, ReplyTo
  <2>3. P!Cardinality(P!In) = Limit BY <1>6, <1>8 DEF TurnAway
  <2>4. /\ Phases[r] = "out" /\ Phases' = [Phases EXCEPT ![r] = "done"]
        /\ Replies' = [Replies EXCEPT ![r] = "error"]
    BY <1>2, <1>5, <2>1, <2>2 DEF Phases, Replies
  <2>5. P!TurnAway(r, m)
    BY <1>5, <2>3, <2>4 DEF P!TurnAway, Phases, Mutatings, Permissions, Replies
  <2> QED  BY <1>4, <2>5 DEF P!PromiseNext
<1> QED  BY <1>7, <1>8

\* A granted token is the permission: nobody holds it, unless it is shared.
LEMMA GrantSeen ==
  ASSUME GateInv, GateInv', [Next]_vars, NEW r \in Req, \A s \in Req \ {r} : Unseen(s),
         GrantApproval(r)
  PROVE  P!PromiseNext
<1> DEFINE g == entries[token[r]].grant
<1>1. /\ pc[r] = "authenticated" /\ pc'[r] = "approved"
      /\ UNCHANGED <<call, token, answer, ran>> /\ grantedAt'[r] = clock
  BY DEF GateInv, TypeOK, GrantApproval, Goto
<1>2. ~ran[r] /\ grantedAt[r] = None
  BY <1>1 DEF GateInv, ApprovalInv, ThreadInv, Early
<1>3. token[r] \in Token /\ entries[token[r]] \in Entry /\ ~Spent(entries[token[r]])
  BY GrantedVerdict DEF GateInv, TypeOK, GrantApproval, VerdictFor
<1>4. g.single \in BOOLEAN BY <1>3 DEF Entry, Grant
<1>5. PermissionOf(r)' = [token |-> token[r], exclusive |-> g.single]
  <2>1. grantedAt'[r] # None
    <3>1. clock \in 0..MaxClock /\ MaxClock \in Nat
      BY StoreAssumption DEF GateInv, TypeOK, StoreTypeOK, StoreAssumption
    <3>2. clock \in Nat BY <3>1
    <3> QED  BY <1>1, <3>2, GateAssumption DEF GateAssumption
  <2>2. entries'[token[r]].grant = g
    <3>1. Kept(token[r]) BY <1>3, EntryKept, StoreAssumption DEF GateInv, StoreAssumption
    <3>2. entries[token[r]] # None BY <1>3, StoreAssumption DEF StoreAssumption
    <3> QED  BY <3>1, <3>2 DEF Kept
  <2> QED  BY <1>1, <2>1, <2>2 DEF PermissionOf
<1>6. \A s \in Req : PermissionOf(s) # None /\ PermissionOf(s).token = token[r]
                     => ~g.single /\ ~PermissionOf(s).exclusive
  <2> SUFFICES ASSUME NEW s \in Req, PermissionOf(s) # None, PermissionOf(s).token = token[r]
               PROVE  ~g.single /\ ~PermissionOf(s).exclusive
    OBVIOUS
  <2>1. /\ grantedAt[s] # None /\ token[s] = token[r]
        /\ PermissionOf(s).exclusive = entries[token[s]].grant.single
    BY DEF PermissionOf
  <2>2. GrantCovers(s) BY <2>1 DEF GateInv, ApprovalInv, ThreadInv
  <2> QED  BY <1>3, <2>1, <2>2 DEF GrantCovers, Spent
<1>7. /\ PhaseOf(r) = "in" /\ PhaseOf(r)' = PhaseOf(r) /\ MutatingOf(r)' = MutatingOf(r)
      /\ ReplyOf(r)' = ReplyOf(r) /\ PermissionOf(r) = None
  BY <1>1, <1>2 DEF PhaseOf, MutatingOf, Mutation, ReplyOf, PermissionOf
<1>8. /\ UNCHANGED <<Phases, Mutatings, Replies, ran>>
      /\ Permissions' = [Permissions EXCEPT ![r] = [token |-> token[r], exclusive |-> g.single]]
  <2>1. TypeOK /\ TypeOK' BY DEF GateInv
  <2>2. /\ Phases' = [Phases EXCEPT ![r] = PhaseOf(r)']
        /\ Mutatings' = [Mutatings EXCEPT ![r] = MutatingOf(r)']
        /\ Permissions' = [Permissions EXCEPT ![r] = PermissionOf(r)']
        /\ Replies' = [Replies EXCEPT ![r] = ReplyOf(r)']
    BY <2>1, OneSeen
  <2> QED  BY <1>1, <1>5, <1>7, <2>2 DEF Phases, Mutatings, Replies
<1>9. PICK t \in Token, x \in BOOLEAN : t = token[r] /\ x = g.single BY <1>3, <1>4
<1> HIDE DEF g
<1>10. P!Spend(r, t, x)
  <2>1. \A s \in Req : Permissions[s] = PermissionOf(s) BY DEF Permissions
  <2>2. \A s \in Req : Permissions[s] # None /\ Permissions[s].token = t
                       => ~x /\ ~Permissions[s].exclusive
    BY <1>6, <1>9, <2>1
  <2>3. Phases[r] = "in" /\ Permissions[r] = None BY <1>7, <2>1 DEF Phases
  <2>4. Permissions' = [Permissions EXCEPT ![r] = [token |-> t, exclusive |-> x]]
    BY <1>8, <1>9
  <2> QED  BY <1>2, <1>8, <2>2, <2>3, <2>4
           DEF P!Spend, P!Holds, Phases, Mutatings, Permissions, Replies
<1> QED  BY <1>10 DEF P!PromiseNext

\* Entering the body performs the call; a mutation has its permission by then.
LEMMA PerformSeen ==
  ASSUME GateInv, GateInv', [Next]_vars, NEW r \in Req, \A s \in Req \ {r} : Unseen(s),
         Decide(r), ran'[r] # ran[r]
  PROVE  P!PromiseNext
<1>1. /\ pc[r] = "requested" /\ pc'[r] = "running" /\ ~ran[r] /\ ran' = [ran EXCEPT ![r] = TRUE]
      /\ UNCHANGED <<call, token, answer, grantedAt>>
  <2>1. /\ pc[r] = "requested" /\ UNCHANGED <<call, token, answer, grantedAt>>
        /\ pc' = [pc EXCEPT ![r] = "running"] /\ ran' = [ran EXCEPT ![r] = TRUE]
    BY DEF Decide, Goto, local
  <2>2. ~ran[r] BY <2>1 DEF GateInv, StoryInv, Tale, StoryShape
  <2> QED  BY <2>1, <2>2 DEF GateInv, TypeOK
<1>2. /\ PhaseOf(r) = "in" /\ PhaseOf(r)' = PhaseOf(r) /\ MutatingOf(r)' = MutatingOf(r)
      /\ ReplyOf(r)' = ReplyOf(r) /\ PermissionOf(r)' = PermissionOf(r)
  <2>1. PermissionOf(r)' = PermissionOf(r) BY <1>1, PermissionKept DEF GateInv
  <2> QED  BY <1>1, <2>1 DEF PhaseOf, MutatingOf, Mutation, ReplyOf
<1>3. HasStore /\ MutatingOf(r) => PermissionOf(r) # None
  <2> SUFFICES ASSUME HasStore, MutatingOf(r) PROVE PermissionOf(r) # None
    OBVIOUS
  <2>1. Mutation(r)' /\ ran'[r] BY <1>1 DEF GateInv, TypeOK, MutatingOf, Mutation
  <2>2. Entitled(r)' BY <2>1 DEF GateInv, ApprovalInv, ThreadInv
  <2>3. grantedAt[r] # None BY <1>1, <2>2 DEF Entitled
  <2>4. GrantCovers(r) BY <2>3 DEF GateInv, ApprovalInv, ThreadInv
  <2>5. token[r] \in Token /\ entries[token[r]].grant.single \in BOOLEAN
    BY <2>4 DEF GrantCovers, GateInv, TypeOK, StoreTypeOK, Entry, Grant
  <2>6. PermissionOf(r) \in [token : Token, exclusive : BOOLEAN]
    BY <2>3, <2>5 DEF PermissionOf
  <2> QED  BY <2>6, RefinementAssumption DEF RefinementAssumption
<1>4. UNCHANGED <<Phases, Mutatings, Permissions, Replies>>
  <2>1. TypeOK /\ TypeOK' BY DEF GateInv
  <2>2. /\ Phases' = [Phases EXCEPT ![r] = PhaseOf(r)']
        /\ Mutatings' = [Mutatings EXCEPT ![r] = MutatingOf(r)']
        /\ Permissions' = [Permissions EXCEPT ![r] = PermissionOf(r)']
        /\ Replies' = [Replies EXCEPT ![r] = ReplyOf(r)']
    BY <2>1, OneSeen
  <2> QED  BY <1>2, <2>2 DEF Phases, Mutatings, Permissions, Replies
<1>5. Phases[r] = "in" /\ (HasStore /\ Mutatings[r] => Permissions[r] # None)
  BY <1>2, <1>3 DEF Phases, Mutatings, Permissions
<1>6. P!Perform(r)
  BY <1>1, <1>4, <1>5 DEF P!Perform, Phases, Mutatings, Permissions, Replies
<1> QED  BY <1>6 DEF P!PromiseNext

\* The answer a call leaves with says no more than what happened to it.
LEMMA LeaveSeen ==
  ASSUME GateInv, GateInv', [Next]_vars, NEW r \in Req, \A s \in Req \ {r} : Unseen(s),
         Release(r)
  PROVE  P!PromiseNext
<1> DEFINE code == AnswerTo(outcome[r])
<1>1. /\ pc[r] = "unwinding" /\ pc'[r] = "answered" /\ UNCHANGED <<call, token, ran, grantedAt>>
      /\ answer'[r] = code
  BY DEF GateInv, TypeOK, Release, Goto, local, ghost
<1>2. /\ code \in Answer /\ (code = "OK" => ran[r])
      /\ code \in {"APPROVAL_REQUIRED", "UNKNOWN_TOOL", "INVALID_CONTEXT",
                   "AUTHENTICATION_FAILED"} => ~ran[r]
  <2>1. outcome[r] \in ErrorRecord BY DEF GateInv, TypeOK
  <2> QED  BY <1>1, <2>1, AnswerType, AnswerStory DEF GateInv
<1> HIDE DEF code
<1>3. PICK a \in {"done", "refused", "error"} :
        ReplyOf(r)' = a /\ (a = "done" => ran[r]) /\ (a = "refused" => ~ran[r])
  <2>1. ReplyOf(r)' = ReplyTo(code) BY <1>1 DEF ReplyOf
  <2> QED  BY <1>2, <2>1, ReplyIs
<1>4. /\ PhaseOf(r) = "in" /\ PhaseOf(r)' = "done" /\ MutatingOf(r)' = MutatingOf(r)
      /\ PermissionOf(r)' = PermissionOf(r)
  <2>1. PermissionOf(r)' = PermissionOf(r) BY <1>1, PermissionKept DEF GateInv
  <2> QED  BY <1>1, <2>1 DEF PhaseOf, MutatingOf, Mutation
<1>5. /\ Phases[r] = "in" /\ Phases' = [Phases EXCEPT ![r] = "done"]
      /\ Replies' = [Replies EXCEPT ![r] = a]
      /\ UNCHANGED <<Mutatings, Permissions, ran>>
  <2>1. TypeOK /\ TypeOK' BY DEF GateInv
  <2>2. /\ Phases' = [Phases EXCEPT ![r] = PhaseOf(r)']
        /\ Mutatings' = [Mutatings EXCEPT ![r] = MutatingOf(r)']
        /\ Permissions' = [Permissions EXCEPT ![r] = PermissionOf(r)']
        /\ Replies' = [Replies EXCEPT ![r] = ReplyOf(r)']
    BY <2>1, OneSeen
  <2> QED  BY <1>1, <1>3, <1>4, <2>2 DEF Phases, Mutatings, Permissions, Replies
<1>6. P!Leave(r, a)
  BY <1>3, <1>5 DEF P!Leave, Phases, Mutatings, Permissions, Replies
<1> QED  BY <1>6 DEF P!PromiseNext

\* Every other step of a thread stays inside, out of the promise's sight.
LEMMA RestUnseen ==
  ASSUME GateInv, [Next]_vars, NEW r \in Req, GateStep(r) \/ ToolStep(r) \/ AuditorRaises(r),
         ~GrantApproval(r), ~Release(r), ~(Decide(r) /\ ran'[r] # ran[r])
  PROVE  Unseen(r)
<1> USE DEF TypeOK, Goto, Raise, local, ghost
<1>1. TypeOK /\ ApprovalInv BY DEF GateInv
<1> DEFINE Rest == /\ UNCHANGED <<call[r], answer[r], ran[r], grantedAt[r]>>
                   /\ token'[r] = token[r] \/ grantedAt[r] = None
                   /\ pc[r] \notin {"idle", "answered"} /\ pc'[r] \notin {"idle", "answered"}
<1>2. CASE Authenticate(r)
  <2>1. grantedAt[r] = None BY <1>1, <1>2 DEF Authenticate, ApprovalInv, ThreadInv, Early
  <2>2. Rest BY <1>1, <1>2, <2>1 DEF Authenticate
  <2> QED  BY <1>1, <2>2, InsideUnseen
<1>3. CASE NoStoreApproval(r) \/ SkipApproval(r) \/ LackApproval(r) \/ RejectApproval(r)
  <2>1. Rest
    BY <1>1, <1>3 DEF NoStoreApproval, SkipApproval, LackApproval, RejectApproval
  <2> QED  BY <1>1, <2>1, InsideUnseen
<1>4. CASE Decide(r)
  <2>1. Rest BY <1>1, <1>4 DEF Decide
  <2> QED  BY <1>1, <2>1, InsideUnseen
<1>5. CASE RecordRequest(r) \/ RecordOutcome(r)
  <2>1. Rest BY <1>1, <1>5 DEF RecordRequest, RecordOutcome, Over
  <2> QED  BY <1>1, <2>1, InsideUnseen
<1>6. CASE ToolStep(r) \/ AuditorRaises(r)
  <2>1. Rest BY <1>1, <1>6 DEF ToolStep, ToolReturns, ToolExits, ToolRaises, AuditorRaises
  <2> QED  BY <1>1, <2>1, InsideUnseen
<1> QED  BY <1>2, <1>3, <1>4, <1>5, <1>6 DEF GateStep, ApplyApproval

\* Whatever the catalog, the configuration and the interleaving, the gate does
\* nothing its promise forbids: no call beyond the limit, no mutation without a
\* permission of its own, no answer that misreports (wrap_tool and execute).
THEOREM GateKeepsPromise == Spec => KeepsPromise
<1>1. GateInv /\ GateInv' /\ [Next]_vars => [P!PromiseNext]_(P!pvars)
  <2> SUFFICES ASSUME GateInv, GateInv', [Next]_vars
               PROVE  P!PromiseNext \/ UNCHANGED P!pvars
    OBVIOUS
  <2>1. TypeOK /\ TypeOK' /\ ApprovalInv BY DEF GateInv
  <2>2. ASSUME NEW r \in Req, Acts(r) PROVE P!PromiseNext \/ UNCHANGED P!pvars
    <3>1. \A s \in Req \ {r} : Unseen(s)
      <4> SUFFICES ASSUME NEW s \in Req \ {r} PROVE Unseen(s)
        OBVIOUS
      <4>1. UNCHANGED Own(s) BY <2>1, <2>2, OthersStay
      <4> QED  BY <2>1, <4>1, StillUnseen
    <3>2. ASSUME NEW c \in Call, Admit(r, c) \/ TurnAway(r, c) PROVE P!PromiseNext
      BY <2>1, <3>1, <3>2, DoorSeen
    <3>3. CASE GrantApproval(r) BY <3>1, <3>3, GrantSeen
    <3>4. CASE Decide(r) /\ ran'[r] # ran[r] BY <3>1, <3>4, PerformSeen
    <3>5. CASE Release(r) BY <3>1, <3>5, LeaveSeen
    <3>6. CASE /\ GateStep(r) \/ ToolStep(r) \/ AuditorRaises(r)
               /\ ~GrantApproval(r) /\ ~Release(r) /\ ~(Decide(r) /\ ran'[r] # ran[r])
      <4>1. Unseen(r) BY <3>6, RestUnseen
      <4>2. \A s \in Req : Unseen(s) BY <3>1, <4>1
      <4> QED  BY <2>1, <4>2, NothingSeen
    <3> QED  BY <2>2, <3>2, <3>3, <3>4, <3>5, <3>6 DEF Acts
  <2>3. CASE \A s \in Req : UNCHANGED Own(s)
    <3>1. \A s \in Req : Unseen(s) BY <2>1, <2>3, StillUnseen
    <3> QED  BY <2>1, <3>1, NothingSeen
  <2> QED  BY <2>2, <2>3, OneActs
<1>2. TypeOK /\ ApprovalInv /\ StoryInv /\ PermitsConserved => GateInv
  BY DEF GateInv
<1> QED
  BY <1>1, <1>2, InitSeen, TypeCorrect, ApprovalInvariant, StoryInvariant, PermitsAlwaysConserved,
     PTL DEF Spec, KeepsPromise, P!Promise

-------------------------------------------------------------------------------
(***************************************************************************)
(* The gate as a caller of the approval store.                              *)
(***************************************************************************)
Tolds == [r \in Req |-> GrantTold(r)]

\* The service gives the verdict of the store, which reads of the context only
\* what names the caller: the status it carries already is not among that.
LEMMA SameVerdict ==
  ASSUME NEW t, NEW tool, NEW c \in Context, NEW s
  PROVE  /\ G!Verdict(t, tool, c) = Verdict(t, tool, c)
         /\ Verdict(t, tool, WithStatus(c, s)) = Verdict(t, tool, c)
<1>1. G!Verdict(t, tool, c) = Verdict(t, tool, c)
  BY DEF G!Verdict, G!VerdictOnEntry, G!Spent, G!IsExpired, G!Mismatch, G!NoToken,
     Verdict, VerdictOnEntry, Spent, IsExpired, Mismatch, NoToken
<1>2. /\ WithStatus(c, s).agent = c.agent /\ WithStatus(c, s).request = c.request
      /\ WithStatus(c, s).project = c.project
  BY DEF WithStatus, Context
<1>3. ASSUME NEW g PROVE Mismatch(g, tool, WithStatus(c, s)) = Mismatch(g, tool, c)
  BY <1>2 DEF Mismatch
<1>4. Verdict(t, tool, WithStatus(c, s)) = Verdict(t, tool, c)
  BY <1>3 DEF Verdict, VerdictOnEntry
<1> QED  BY <1>1, <1>4

\* The time is never "no time".
LEMMA NeverNone == StoreTypeOK => clock # None
<1> SUFFICES ASSUME StoreTypeOK PROVE clock # None
  OBVIOUS
<1>1. MaxClock \in Nat /\ None \notin Nat
  BY StoreAssumption, GateAssumption DEF StoreAssumption, GateAssumption
<1>2. clock \in 0 .. MaxClock BY DEF StoreTypeOK
<1> QED  BY <1>1, <1>2

\* A granted call keeps what it was granted for, and when.
LEMMA GrantHeld ==
  ASSUME TypeOK, ApprovalInv, [Next]_vars, NEW r \in Req, grantedAt[r] # None
  PROVE  UNCHANGED <<call[r], token[r], ctx[r], grantedAt[r]>>
<1> USE DEF Goto, Raise, local, ghost
<1>1. pc[r] \notin Early BY DEF ApprovalInv, ThreadInv
<1>2. CASE UNCHANGED Own(r)
  BY <1>2 DEF Own
<1>3. CASE Acts(r)
  <2>1. ASSUME NEW c \in Call PROVE ~(Admit(r, c) \/ TurnAway(r, c))
    BY <1>1 DEF Admit, TurnAway, Early
  <2>2. CASE GateStep(r)
    <3>1. ~Authenticate(r) /\ ~ApplyApproval(r)
      BY <1>1 DEF Early, ApplyApproval, Authenticate, NoStoreApproval, SkipApproval,
         GrantApproval, LackApproval, RejectApproval
    <3> QED  BY <2>2, <3>1 DEF GateStep, RecordRequest, Decide, RecordOutcome, Release
  <2>3. CASE ToolStep(r) \/ AuditorRaises(r)
    BY <2>3 DEF ToolStep, ToolReturns, ToolExits, ToolRaises, AuditorRaises
  <2> QED  BY <1>3, <2>1, <2>2, <2>3 DEF Acts
<1> QED  BY <1>2, <1>3, OwnSteps

\* A thread that is not granted now was told nothing new.
LEMMA NothingTold ==
  ASSUME TypeOK, ApprovalInv, [Next]_vars, NEW r \in Req, ~GrantApproval(r)
  PROVE  GrantTold(r)' = GrantTold(r)
<1>1. CASE grantedAt[r] # None
  BY <1>1, GrantHeld DEF GrantTold
<1>2. CASE grantedAt[r] = None
  <2> USE DEF Goto, Raise, local, ghost
  <2>1. CASE UNCHANGED Own(r)
    BY <1>2, <2>1 DEF Own, GrantTold
  <2>2. CASE Acts(r)
    <3>1. UNCHANGED grantedAt
      <4>1. ASSUME NEW c \in Call, Admit(r, c) \/ TurnAway(r, c) PROVE UNCHANGED grantedAt
        BY <4>1 DEF Admit, TurnAway
      <4>2. CASE GateStep(r)
        BY <4>2 DEF GateStep, ApplyApproval, Authenticate, NoStoreApproval, SkipApproval,
           LackApproval, RejectApproval, RecordRequest, Decide, RecordOutcome, Release
      <4>3. CASE ToolStep(r) \/ AuditorRaises(r)
        BY <4>3 DEF ToolStep, ToolReturns, ToolExits, ToolRaises, AuditorRaises
      <4> QED  BY <2>2, <4>1, <4>2, <4>3 DEF Acts
    <3> QED  BY <1>2, <3>1 DEF GrantTold
  <2> QED  BY <2>1, <2>2, OwnSteps
<1> QED  BY <1>1, <1>2

\* A granted thread put its question, and the answer came with the grant.
LEMMA GrantAsks ==
  ASSUME TypeOK, TypeOK', ApprovalInv, [Next]_vars, NEW r \in Req, GrantApproval(r)
  PROVE  G!ServiceNext
<1> DEFINE q == [token |-> token[r], tool |-> call[r].tool, by |-> ctx'[r]]
<1>1. /\ pc[r] = "authenticated" /\ VerdictFor(r) = "granted" /\ Consume(token[r])
      /\ clock' = clock /\ call' = call /\ token' = token
      /\ ctx'[r] = WithStatus(ctx[r], "granted") /\ grantedAt'[r] = clock
  BY DEF GrantApproval, TypeOK
<1>2. ctx[r] \in Context /\ ctx'[r] \in Context /\ call[r].tool \in Tool /\ token[r] \in Presented
  BY <1>1 DEF TypeOK, CallType
<1>3. token[r] \in Token
  BY <1>1, <1>2, GrantedVerdict DEF VerdictFor, TypeOK
<1>4. q \in Questions BY <1>2, <1>3 DEF Questions
<1>5. G!Verdict(q.token, q.tool, q.by) = "granted"
  BY <1>1, <1>2, SameVerdict DEF VerdictFor
<1>6. G!Consume(q.token)
  BY <1>1 DEF Consume, Consumed, G!Consume, G!Consumed
<1>7. Tolds[r] = None
  BY <1>1 DEF Tolds, GrantTold, ApprovalInv, ThreadInv, Early
<1>8. Tolds' = [Tolds EXCEPT ![r] = [question |-> q, status |-> "granted"]]
  <2>1. clock # None BY NeverNone DEF TypeOK
  <2>2. GrantTold(r)' = [question |-> q, status |-> "granted"]
    BY <1>1, <2>1 DEF GrantTold
  <2>3. ASSUME NEW s \in Req \ {r} PROVE GrantTold(s)' = GrantTold(s)
    <3>1. UNCHANGED Own(s) BY OthersStay DEF Acts, GateStep, ApplyApproval
    <3> QED  BY <3>1 DEF Own, GrantTold
  <2> QED  BY <2>2, <2>3 DEF Tolds
<1> HIDE DEF q
<1>9. G!Ask(r, q)
  BY <1>1, <1>5, <1>6, <1>7, <1>8 DEF G!Ask, G!Told, Tolds
<1> QED  BY <1>4, <1>9 DEF G!ServiceNext

\* The gate touches the approval store as a caller of its service and as nothing
\* else, whatever the calls, the catalog and the interleaving: execute never
\* reads a verdict twice, spends a token without the answer that allows it, or
\* asks again once it was granted.
THEOREM GateAsksTheService == Spec => AsksTheService
<1>1. Init => G!ServiceInit
  BY DEF Init, StoreInit, G!ServiceInit, G!StoreInit, GrantTold
<1>2. TypeOK /\ TypeOK' /\ ApprovalInv /\ [Next]_vars => [G!ServiceNext]_(G!service)
  <2> SUFFICES ASSUME TypeOK, TypeOK', ApprovalInv, [Next]_vars
               PROVE  G!ServiceNext \/ UNCHANGED G!service
    OBVIOUS
  <2>1. ASSUME NEW r \in Req, GrantApproval(r) PROVE G!ServiceNext
    BY <2>1, GrantAsks
  <2>2. CASE \A r \in Req : ~GrantApproval(r)
    <3>1. UNCHANGED Tolds BY <2>2, NothingTold DEF Tolds
    <3>2. ASSUME NEW t \in Token, NEW q \in Issuable, HostIssues(t, q) PROVE G!ServiceNext
      <4>1. G!Issue(t, q)
        BY <3>2 DEF HostIssues, Issue, NewEntry, GrantFor, G!Issue, G!NewEntry, G!GrantFor
      <4> QED  BY <3>1, <4>1 DEF G!ServiceNext, Tolds
    <3>3. CASE TimePasses
      <4>1. G!Tick BY <3>3 DEF TimePasses, Tick, G!Tick
      <4> QED  BY <3>1, <4>1 DEF G!ServiceNext, Tolds
    <3>4. CASE UNCHANGED store
      BY <3>1, <3>4 DEF G!service, store, Tolds
    <3>5. \/ \E t \in Token, q \in Issuable : HostIssues(t, q)
          \/ TimePasses \/ UNCHANGED store
      <4>1. ASSUME NEW r \in Req, Acts(r) PROVE UNCHANGED store
        <5>1. ASSUME NEW c \in Call, Admit(r, c) \/ TurnAway(r, c) PROVE UNCHANGED store
          BY <5>1 DEF Admit, TurnAway
        <5>2. CASE GateStep(r)
          BY <2>2, <5>2 DEF GateStep, ApplyApproval, Authenticate, NoStoreApproval, SkipApproval,
             LackApproval, RejectApproval, RecordRequest, Decide, RecordOutcome, Release
        <5>3. CASE ToolStep(r) \/ AuditorRaises(r)
          BY <5>3 DEF ToolStep, ToolReturns, ToolExits, ToolRaises, AuditorRaises
        <5> QED  BY <4>1, <5>1, <5>2, <5>3 DEF Acts
      <4>2. ASSUME NEW t \in EnvTokens, HostExports(t) PROVE UNCHANGED store
        BY <4>2 DEF HostExports
      <4>3. CASE UNCHANGED vars BY <4>3 DEF vars, store
      <4> QED  BY <4>1, <4>2, <4>3 DEF Next, Acts
    <3> QED  BY <3>2, <3>3, <3>4, <3>5
  <2> QED  BY <2>1, <2>2
<1> QED
  BY <1>1, <1>2, TypeCorrect, ApprovalInvariant, PTL DEF Spec, AsksTheService, G!Service

-------------------------------------------------------------------------------
(***************************************************************************)
(* What runs, what an approval was spent on, and how long a call can take.  *)
(***************************************************************************)

\* A call that is past the policy keeps what it was judged by.
JudgedInv == \A r \in Req : ran[r] => DecisionFor(r) = "ALLOW"

LEMMA JudgedStep ==
  ASSUME TypeOK, StoryInv, JudgedInv, [Next]_vars, NEW r \in Req, ran'[r]
  PROVE  DecisionFor(r)' = "ALLOW"
<1> USE DEF Goto, Raise, local, ghost
<1>1. CASE UNCHANGED Own(r)
  BY <1>1 DEF Own, JudgedInv, DecisionFor
<1>2. CASE Acts(r)
  <2>1. CASE Decide(r)
    <3>1. call' = call /\ ctx' = ctx BY <2>1 DEF Decide
    <3>2. ~ran[r] BY <2>1 DEF Decide, StoryInv, Tale, StoryShape
    <3>3. MayRun(DecisionFor(r)) BY <2>1, <3>2 DEF Decide
    <3> QED  BY <3>1, <3>3 DEF MayRun, DecisionFor
  <2>2. CASE ~Decide(r)
    <3>1. ran[r]
      <4>1. ASSUME NEW c \in Call, Admit(r, c) \/ TurnAway(r, c) PROVE UNCHANGED ran
        BY <4>1 DEF Admit, TurnAway
      <4>2. CASE GateStep(r)
        BY <2>2, <4>2 DEF GateStep, ApplyApproval, Authenticate, NoStoreApproval, SkipApproval,
           GrantApproval, LackApproval, RejectApproval, RecordRequest, RecordOutcome, Release
      <4>3. CASE ToolStep(r) \/ AuditorRaises(r)
        BY <4>3 DEF ToolStep, ToolReturns, ToolExits, ToolRaises, AuditorRaises
      <4> QED  BY <1>2, <4>1, <4>2, <4>3 DEF Acts
    <3>2. pc[r] \notin Early \cup {"approved", "requested"}
      BY <3>1 DEF StoryInv, Tale, StoryShape
    <3>3. UNCHANGED <<call, ctx>>
      <4>1. ASSUME NEW c \in Call PROVE ~(Admit(r, c) \/ TurnAway(r, c))
        BY <3>2 DEF Admit, TurnAway, Early
      <4>2. CASE GateStep(r)
        <5>1. ~Authenticate(r) /\ ~ApplyApproval(r)
          BY <3>2 DEF Early, ApplyApproval, Authenticate, NoStoreApproval, SkipApproval,
             GrantApproval, LackApproval, RejectApproval
        <5> QED  BY <4>2, <5>1 DEF GateStep, RecordRequest, Decide, RecordOutcome, Release
      <4>3. CASE ToolStep(r) \/ AuditorRaises(r)
        BY <4>3 DEF ToolStep, ToolReturns, ToolExits, ToolRaises, AuditorRaises
      <4> QED  BY <1>2, <4>1, <4>2, <4>3 DEF Acts
    <3> QED  BY <3>1, <3>3 DEF JudgedInv, DecisionFor
  <2> QED  BY <2>1, <2>2
<1> QED  BY <1>1, <1>2, OwnSteps

\* The body of a tool is entered only if the catalog knows the tool and rates it
\* below HIGH_RISK, and a mutation only on the status "granted": no place in
\* execute reaches the body past DefaultConservativePolicy.
OnlyAllowedRan ==
  \A r \in Req : ran[r] =>
    /\ Known(call[r].tool)
    /\ RiskOf(call[r].tool) # "HIGH_RISK"
    /\ Mutation(r) => ctx[r].approval = "granted"
THEOREM OnlyAllowedToolsRun == Spec => []OnlyAllowedRan
<1>1. Init => JudgedInv
  BY DEF Init, JudgedInv
<1>2. TypeOK /\ StoryInv /\ JudgedInv /\ [Next]_vars => JudgedInv'
  BY JudgedStep DEF JudgedInv
<1>3. TypeOK /\ StoryInv /\ JudgedInv => OnlyAllowedRan
  <2> SUFFICES ASSUME TypeOK, StoryInv, JudgedInv, NEW r \in Req, ran[r]
               PROVE  /\ Known(call[r].tool) /\ RiskOf(call[r].tool) # "HIGH_RISK"
                      /\ Mutation(r) => ctx[r].approval = "granted"
    BY DEF OnlyAllowedRan
  <2>1. Evaluate(call[r].tool, ctx[r]) = "ALLOW" BY DEF JudgedInv, DecisionFor
  <2>2. RiskOf(call[r].tool) # "HIGH_RISK" /\ (Mutation(r) => ctx[r].approval = "granted")
    BY <2>1 DEF Evaluate, Mutation
  <2> QED  BY <2>2 DEF RiskOf
<1> QED  BY <1>1, <1>2, <1>3, TypeCorrect, StoryInvariant, PTL DEF Spec

\* A token is marked as spent only for a call that holds its grant: an approval
\* is never lost to a refusal, a failed check or a call that went another way.
SpentOnACall ==
  \A t \in Token : entries[t] # None /\ entries[t].consumed =>
    \E r \in Req : grantedAt[r] # None /\ token[r] = t
THEOREM NoApprovalIsLost == Spec => []SpentOnACall
<1>1. Init => SpentOnACall
  BY DEF Init, StoreInit, SpentOnACall
<1>2. TypeOK /\ TypeOK' /\ ApprovalInv /\ ApprovalInv' /\ SpentOnACall /\ [Next]_vars => SpentOnACall'
  <2> SUFFICES ASSUME TypeOK, TypeOK', ApprovalInv, ApprovalInv', SpentOnACall, [Next]_vars,
                      NEW t \in Token, entries'[t] # None, entries'[t].consumed
               PROVE  \E r \in Req : grantedAt'[r] # None /\ token'[r] = t
    BY DEF SpentOnACall
  <2>1. CASE entries[t] # None /\ entries[t].consumed
    <3>1. PICK r \in Req : grantedAt[r] # None /\ token[r] = t
      BY <2>1 DEF SpentOnACall
    <3> QED  BY <3>1, GrantHeld
  <2>2. CASE ~(entries[t] # None /\ entries[t].consumed)
    <3>1. ~UNCHANGED entries BY <2>2
    <3>2. ASSUME NEW u \in Token, NEW q \in Issuable, HostIssues(u, q) PROVE FALSE
      <4>1. PICK g : entries' = [entries EXCEPT ![u] = NewEntry(g)]
        BY <3>2 DEF HostIssues, Issue
      <4>2. entries \in [Token -> Entry \cup {None}] BY DEF TypeOK, StoreTypeOK
      <4> QED  BY <2>2, <4>1, <4>2 DEF NewEntry
    <3>3. PICK r \in Req : GrantApproval(r)
      BY <3>1, <3>2, StoreWriters
    <3>4. /\ entries' = [entries EXCEPT ![token[r]] = Consumed(entries[token[r]])]
          /\ grantedAt'[r] = clock /\ token' = token
      BY <3>3 DEF GrantApproval, Consume, TypeOK
    <3>5. token[r] = t
      BY <2>2, <3>4 DEF TypeOK, StoreTypeOK
    <3>6. clock # None BY NeverNone DEF TypeOK
    <3> QED  BY <3>4, <3>5, <3>6
  <2> QED  BY <2>1, <2>2
<1> QED  BY <1>1, <1>2, TypeCorrect, ApprovalInvariant, PTL DEF Spec

\* The places of a call, and the steps it still has before it at most.
StepsLeft == [idle |-> 8, admitted |-> 7, authenticated |-> 6, approved |-> 5, requested |-> 4,
              running |-> 3, returned |-> 2, raised |-> 2, unwinding |-> 1, answered |-> 0]

\* A call passes each stage of wrap_tool and execute once, in their order, and
\* every step it takes brings its answer closer: nothing in the gate retries,
\* loops or sends a call back, whatever the other calls, the host, the auditor
\* and the clock do.
ComesCloser(r) ==
  /\ pc'[r] # pc[r] => StepsLeft[pc'[r]] < StepsLeft[pc[r]]
  /\ GateStep(r) \/ ToolStep(r) => pc'[r] # pc[r]
THEOREM CallsOnlyGoForward == Spec => [][\A r \in Req : ComesCloser(r)]_vars
<1>1. TypeOK /\ TypeOK' /\ [Next]_vars => \A r \in Req : ComesCloser(r)
  <2> SUFFICES ASSUME TypeOK, TypeOK', [Next]_vars, NEW r \in Req PROVE ComesCloser(r)
    OBVIOUS
  <2> DEFINE Step(from, to) == pc[r] \in from /\ pc'[r] \in to
  <2> USE DEF Goto, Raise
  <2>1. ASSUME NEW c \in Call, Admit(r, c) \/ TurnAway(r, c)
        PROVE  Step({"idle"}, {"admitted", "answered"})
    BY <2>1 DEF Admit, TurnAway, TypeOK
  <2>2. CASE Authenticate(r)
    <3>1. Step({"admitted"}, {"authenticated", "unwinding"}) BY <2>2 DEF Authenticate, TypeOK
    <3> QED  BY <3>1 DEF ComesCloser, StepsLeft
  <2>3. CASE ApplyApproval(r)
    <3>1. Step({"authenticated"}, {"approved", "unwinding"})
      BY <2>3 DEF ApplyApproval, NoStoreApproval, SkipApproval, GrantApproval, LackApproval,
         RejectApproval, TypeOK
    <3> QED  BY <3>1 DEF ComesCloser, StepsLeft
  <2>4. CASE RecordRequest(r) \/ Decide(r)
    <3>1. \/ Step({"approved"}, {"requested"}) \/ Step({"requested"}, {"running", "unwinding"})
      BY <2>4 DEF RecordRequest, Decide, TypeOK
    <3> QED  BY <3>1 DEF ComesCloser, StepsLeft
  <2>5. CASE ToolStep(r) \/ RecordOutcome(r) \/ Release(r) \/ AuditorRaises(r)
    <3>1. \/ Step({"running"}, {"returned", "raised", "unwinding"})
          \/ Step({"approved", "requested", "returned", "raised"}, {"unwinding"})
          \/ Step({"unwinding"}, {"answered"})
      BY <2>5 DEF ToolStep, ToolReturns, ToolExits, ToolRaises, RecordOutcome, Over, Release,
         AuditorRaises, TypeOK
    <3> QED  BY <3>1 DEF ComesCloser, StepsLeft
  <2>6. CASE UNCHANGED Own(r) /\ ~GateStep(r) /\ ~ToolStep(r)
    BY <2>6 DEF Own, ComesCloser
  <2>7. ASSUME NEW c \in Call, Admit(r, c) \/ TurnAway(r, c) PROVE ComesCloser(r)
    <3>1. Step({"idle"}, {"admitted", "answered"}) BY <2>1, <2>7
    <3> QED  BY <3>1 DEF ComesCloser, StepsLeft
  <2> QED
    BY <2>2, <2>3, <2>4, <2>5, <2>6, <2>7, OwnSteps DEF Acts, GateStep
<1> QED  BY <1>1, TypeCorrect, PTL DEF Spec
==============================================================================
