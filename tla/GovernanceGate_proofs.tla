------------------------ MODULE GovernanceGate_proofs ------------------------
(***************************************************************************)
(* Theorems about GovernanceGate: its types, the conservation of permits,   *)
(* and the rules of approval, for every catalog, every set of threads,      *)
(* calls, tokens and grants, and every configuration.                       *)
(***************************************************************************)
EXTENDS GovernanceGate, FiniteSetTheorems, TLAPS

-------------------------------------------------------------------------------
(***************************************************************************)
(* What the operators return.                                               *)
(***************************************************************************)

\* The secret a call presents, wherever it comes from, is a secret or none.
LEMMA SecretType == ASSUME NEW c \in CallType PROVE SecretOf(c) \in Opt(Secret)
BY GateAssumption DEF SecretOf, PresentedSecret, CallType, Opt, Secret, GateAssumption

\* Every status a refused credential can have is a detail of the error contract.
LEMMA RefusedStatus ==
  ASSUME NEW s \in Opt(Secret), RequireAuth, AuthStatus(s) # "authenticated"
  PROVE  AuthStatus(s) \in Detail
BY AuthAssumption DEF AuthStatus, SharedSecretStatus, Detail, Opt, Secret, AuthAssumption

\* Authentication fails with an error of the contract, or not at all.
LEMMA AuthErrorType ==
  ASSUME NEW c \in CallType
  PROVE  AuthError(c.asserted, SecretOf(c)) \in ErrorRecord
BY SecretType, RefusedStatus
DEF AuthError, BindError, Error, NoError, ErrorRecord, ErrorClass, McpClass, Detail

\* The context authentication binds is a context.
LEMMA BoundContextType ==
  ASSUME NEW c \in CallType PROVE BoundContext(c.asserted) \in Context
BY DEF BoundContext, AssertedOrEmpty, EmptyContext, Context, CallType, Opt

\* The status the store gave keeps the context a context.
LEMMA WithStatusType ==
  ASSUME NEW c \in Context, NEW s \in ApprovalStatus PROVE WithStatus(c, s) \in Context
BY DEF WithStatus, Context, Opt

\* Every error of the contract has an answer.
LEMMA AnswerType == ASSUME NEW e \in ErrorRecord PROVE AnswerTo(e) \in Answer
BY DEF AnswerTo, CodeFor, CategoryCode, Answer, ErrorRecord, ErrorClass, McpClass

\* The policy decides every call.
LEMMA EvaluateType ==
  ASSUME NEW tool \in Tool, NEW c \in Context PROVE Evaluate(tool, c) \in Decision
BY GateAssumption DEF Evaluate, RiskOf, Known, RiskLevel, Decision, GateAssumption

\* A refusal is an error of the contract.
LEMMA RefusalType ==
  ASSUME NEW tool, NEW d \in Decision, ~MayRun(d) PROVE Refusal(tool, d) \in ErrorRecord
BY DEF Refusal, MayRun, Decision, Error, ErrorRecord, ErrorClass, McpClass, Detail

\* What a grant says of the entry it was read from: it was issued, not spent,
\* not expired and made for this call.
LEMMA GrantedVerdict ==
  ASSUME NEW t \in Presented, NEW tool, NEW by,
         StoreTypeOK, Verdict(t, tool, by) = "granted"
  PROVE  /\ t \in Token /\ entries[t] \in Entry
         /\ ~Spent(entries[t]) /\ ~IsExpired(entries[t].grant, clock)
         /\ ~Mismatch(entries[t].grant, tool, by)
BY DEF Verdict, NoToken, VerdictOnEntry, StoreTypeOK, Presented, Opt

\* Consuming an entry gives an entry with the same grant, marked if single-use.
LEMMA ConsumedEntry ==
  ASSUME NEW e \in Entry
  PROVE  /\ Consumed(e) \in Entry /\ Consumed(e).grant = e.grant
         /\ e.consumed => Consumed(e).consumed
         /\ e.grant.single => Consumed(e).consumed
BY DEF Consumed, Entry

\* A new entry is well formed.
LEMMA NewEntryType ==
  ASSUME NEW q \in IssueArgs, NEW born \in Nat PROVE NewEntry(GrantFor(q, born)) \in Entry
BY DEF NewEntry, GrantFor, IssueArgs, Grant, Entry

-------------------------------------------------------------------------------
(***************************************************************************)
(* Types.                                                                   *)
(***************************************************************************)

\* The initial state is well typed.
LEMMA TypeInit == Init => TypeOK
<1> SUFFICES ASSUME Init PROVE TypeOK
  OBVIOUS
<1>1. StoreTypeOK
  BY StoreAssumption DEF Init, StoreInit, StoreTypeOK, StoreAssumption, Opt
<1>2. EmptyContext \in Context /\ NoError \in ErrorRecord
  BY DEF EmptyContext, Context, Opt, NoError, Error, ErrorRecord, ErrorClass, Detail
<1>3. slots \in Nat /\ envToken \in Presented \ {Empty}
  BY GateAssumption, StoreAssumption DEF Init, GateAssumption, StoreAssumption, Presented, Opt
<1>4. <<>> \in Seq(Event)
  OBVIOUS
<1>5. trail \in [Req -> Seq(Event)]
  BY <1>4 DEF Init
<1> QED
  BY <1>1, <1>2, <1>3, <1>5 DEF Init, TypeOK, Opt, PC, Presented

\* Every step keeps the types.
LEMMA TypeStep == TypeOK /\ [Next]_vars => TypeOK'
<1> SUFFICES ASSUME TypeOK, [Next]_vars PROVE TypeOK'
  OBVIOUS
<1> USE DEF TypeOK, PC, store, local, ghost, Goto, Raise
<1>1. ASSUME NEW r \in Req, NEW c \in Call, Admit(r, c) PROVE TypeOK'
  <2>1. c \in CallType
    BY GateAssumption DEF GateAssumption
  <2>2. slots' \in Nat
    BY <1>1 DEF Admit, PermitFree
  <2> QED  BY <1>1, <2>1, <2>2 DEF Admit, StoreTypeOK, Opt
<1>2. ASSUME NEW r \in Req, NEW c \in Call, TurnAway(r, c) PROVE TypeOK'
  <2> DEFINE e == Error("rate_limited", "over_limit")
  <2>1. c \in CallType
    BY GateAssumption DEF GateAssumption
  <2>2. e \in ErrorRecord /\ AnswerTo(e) \in Answer
    BY AnswerType DEF Error, ErrorRecord, ErrorClass, McpClass, Detail
  <2> QED  BY <1>2, <2>1, <2>2 DEF TurnAway, StoreTypeOK, Opt
<1>3. ASSUME NEW r \in Req, Authenticate(r) PROVE TypeOK'
  <2>1. call[r] \in CallType
    BY <1>3 DEF Authenticate
  <2>2. ApprovalToken(call[r]) \in Presented
    BY <2>1 DEF ApprovalToken, CallType, Presented, Opt
  <2>3. BoundContext(call[r].asserted) \in Context
    BY <2>1, BoundContextType
  <2>4. AuthError(call[r].asserted, SecretOf(call[r])) \in ErrorRecord
    BY <2>1, AuthErrorType
  <2>5. token' \in [Req -> Presented]
    BY <1>3, <2>2 DEF Authenticate
  <2>6. ctx' \in [Req -> Context]
    BY <1>3, <2>3 DEF Authenticate
  <2>7. outcome' \in [Req -> ErrorRecord] /\ pc' \in [Req -> PC]
    BY <1>3, <2>4 DEF Authenticate
  <2>8. UNCHANGED <<entries, clock, slots, envToken, call, trail, answer, ran, grantedAt>>
    BY <1>3 DEF Authenticate
  <2>9. \A s \in Req : pc'[s] # "idle" => pc[s] # "idle"
    BY <1>3 DEF Authenticate
  <2> QED  BY <2>5, <2>6, <2>7, <2>8, <2>9 DEF StoreTypeOK
<1>4. ASSUME NEW r \in Req, NoStoreApproval(r) \/ SkipApproval(r) PROVE TypeOK'
  <2>1. Error("validation", "approval_no_store") \in ErrorRecord
    BY DEF Error, ErrorRecord, ErrorClass, McpClass, Detail
  <2>2. outcome' \in [Req -> ErrorRecord] /\ pc' \in [Req -> PC]
    <3>1. CASE NoStoreApproval(r) /\ TokenUnusable(r)
      <4>1. /\ outcome' = [outcome EXCEPT ![r] = Error("validation", "approval_no_store")]
            /\ pc' = [pc EXCEPT ![r] = "unwinding"]
        BY <3>1 DEF NoStoreApproval
      <4> QED  BY <2>1, <4>1
    <3>2. CASE NoStoreApproval(r) /\ ~TokenUnusable(r)
      BY <3>2 DEF NoStoreApproval
    <3>3. CASE SkipApproval(r)
      BY <3>3 DEF SkipApproval
    <3> QED  BY <1>4, <3>1, <3>2, <3>3
  <2>3. UNCHANGED <<entries, clock, slots, envToken, call, token, ctx, trail, answer, ran,
                    grantedAt>>
    BY <1>4 DEF NoStoreApproval, SkipApproval
  <2>4. \A s \in Req : pc'[s] # "idle" => pc[s] # "idle"
    BY <1>4 DEF NoStoreApproval, SkipApproval
  <2> QED  BY <2>2, <2>3, <2>4 DEF StoreTypeOK
<1>5. ASSUME NEW r \in Req, GrantApproval(r) PROVE TypeOK'
  <2>1. token[r] \in Token /\ entries[token[r]] \in Entry
    BY <1>5, GrantedVerdict DEF GrantApproval, VerdictFor
  <2>2. Consumed(entries[token[r]]) \in Entry
    BY <2>1, ConsumedEntry
  <2>3. StoreTypeOK'
    BY <1>5, <2>1, <2>2 DEF GrantApproval, Consume, StoreTypeOK, Opt
  <2>4. WithStatus(ctx[r], "granted") \in Context
    <3>1. ctx[r] \in Context /\ "granted" \in ApprovalStatus
      BY DEF ApprovalStatus
    <3>2. QED  BY <3>1, WithStatusType
  <2>5. clock \in Nat
    BY StoreAssumption DEF StoreTypeOK, StoreAssumption
  <2> QED  BY <1>5, <2>3, <2>4, <2>5 DEF GrantApproval, Opt
<1>6. ASSUME NEW r \in Req, LackApproval(r) PROVE TypeOK'
  <2>1. WithStatus(ctx[r], "missing") \in Context
    <3>1. ctx[r] \in Context /\ "missing" \in ApprovalStatus
      BY DEF ApprovalStatus
    <3>2. QED  BY <3>1, WithStatusType
  <2> QED  BY <1>6, <2>1 DEF LackApproval, StoreTypeOK
<1>7. ASSUME NEW r \in Req, RejectApproval(r) PROVE TypeOK'
  <2>1. Error("validation", "approval_rejected") \in ErrorRecord
    BY DEF Error, ErrorRecord, ErrorClass, McpClass, Detail
  <2> QED  BY <1>7, <2>1 DEF RejectApproval, StoreTypeOK
<1>8. ASSUME NEW r \in Req, NEW t \in EventType, NEW d \in Opt(Decision), Record(r, t, d)
      PROVE  trail' \in [Req -> Seq(Event)]
  <2>1. [type |-> t, decision |-> d] \in Event
    BY <1>8 DEF Event
  <2>2. Append(trail[r], [type |-> t, decision |-> d]) \in Seq(Event)
    BY <2>1
  <2> QED  BY <1>8, <2>2 DEF Record
<1>9. ASSUME NEW r \in Req, pc[r] # "idle" PROVE DecisionFor(r) \in Decision
  BY <1>9, EvaluateType DEF DecisionFor, CallType
<1>10. ASSUME NEW r \in Req, RecordRequest(r) PROVE TypeOK'
  <2>1. trail' \in [Req -> Seq(Event)]
    BY <1>10, <1>8 DEF RecordRequest, EventType, Opt
  <2> QED  BY <1>10, <2>1 DEF RecordRequest, StoreTypeOK
<1>11. ASSUME NEW r \in Req, Decide(r) PROVE TypeOK'
  <2>1. DecisionFor(r) \in Decision
    BY <1>11, <1>9 DEF Decide
  <2>2. trail' \in [Req -> Seq(Event)]
    BY <1>11, <2>1, <1>8 DEF Decide, EventType, Opt
  <2>3. ~MayRun(DecisionFor(r)) => Refusal(call[r].tool, DecisionFor(r)) \in ErrorRecord
    BY <2>1, RefusalType
  <2>4. ran' \in [Req -> BOOLEAN] /\ pc' \in [Req -> PC]
    BY <1>11 DEF Decide
  <2>5. outcome' \in [Req -> ErrorRecord]
    BY <1>11, <2>3 DEF Decide
  <2> QED  BY <1>11, <2>2, <2>4, <2>5 DEF Decide, StoreTypeOK
<1>12. ASSUME NEW r \in Req, RecordOutcome(r) PROVE TypeOK'
  <2>1. DecisionFor(r) \in Decision /\ OutcomeEvent(r) \in EventType
    BY <1>12, <1>9 DEF RecordOutcome, Over, OutcomeEvent, EventType
  <2>2. trail' \in [Req -> Seq(Event)]
    BY <1>12, <2>1, <1>8 DEF RecordOutcome, Opt
  <2>3. pc' \in [Req -> PC] /\ \A s \in Req : pc'[s] # "idle" => pc[s] # "idle"
    BY <1>12 DEF RecordOutcome, Over
  <2>4. UNCHANGED <<entries, clock, slots, envToken, call, token, ctx, outcome, answer, ran,
                    grantedAt>>
    BY <1>12 DEF RecordOutcome
  <2> QED  BY <2>2, <2>3, <2>4 DEF StoreTypeOK
<1>13. ASSUME NEW r \in Req, AuditorRaises(r) \/ ToolReturns(r) \/ ToolExits(r) PROVE TypeOK'
  <2>1. Error("raw", "") \in ErrorRecord /\ Error("exit", "") \in ErrorRecord
    BY DEF Error, ErrorRecord, ErrorClass, Detail
  <2>2. outcome' \in [Req -> ErrorRecord] /\ pc' \in [Req -> PC]
    BY <1>13, <2>1 DEF AuditorRaises, ToolReturns, ToolExits
  <2>3. UNCHANGED <<entries, clock, slots, envToken, call, token, ctx, trail, answer, ran,
                    grantedAt>>
    BY <1>13 DEF AuditorRaises, ToolReturns, ToolExits
  <2>4. \A s \in Req : pc'[s] # "idle" => pc[s] # "idle"
    BY <1>13 DEF AuditorRaises, ToolReturns, ToolExits
  <2> QED  BY <2>2, <2>3, <2>4 DEF StoreTypeOK
<1>14. ASSUME NEW r \in Req, NEW e \in ToolErrors, ToolRaises(r, e) PROVE TypeOK'
  <2>1. e \in ErrorRecord
    BY GateAssumption DEF GateAssumption, ErrorRecord, Detail
  <2> QED  BY <1>14, <2>1 DEF ToolRaises, StoreTypeOK
<1>15. ASSUME NEW r \in Req, Release(r) PROVE TypeOK'
  <2>1. AnswerTo(outcome[r]) \in Answer /\ slots' \in Nat
    BY <1>15, AnswerType DEF Release, Returned
  <2> QED  BY <1>15, <2>1 DEF Release, StoreTypeOK, Opt
<1>16. ASSUME NEW t \in Token, NEW q \in Issuable, HostIssues(t, q) PROVE TypeOK'
  <2>1. PICK born \in 0 .. clock : entries' = [entries EXCEPT ![t] = NewEntry(GrantFor(q, born))]
    BY <1>16 DEF HostIssues, Issue
  <2>2. NewEntry(GrantFor(q, born)) \in Entry
    BY StoreAssumption, NewEntryType DEF StoreAssumption, StoreTypeOK
  <2>3. StoreTypeOK'
    BY <1>16, <2>1, <2>2 DEF HostIssues, Issue, StoreTypeOK, Opt
  <2> QED  BY <1>16, <2>3 DEF HostIssues
<1>17. ASSUME NEW t \in EnvTokens, HostExports(t) PROVE TypeOK'
  BY <1>17, GateAssumption, StoreAssumption
  DEF HostExports, StoreTypeOK, Presented, Opt, GateAssumption, StoreAssumption
<1>18. ASSUME TimePasses PROVE TypeOK'
  BY <1>18, StoreAssumption DEF TimePasses, Tick, StoreTypeOK, StoreAssumption
<1>19. CASE UNCHANGED vars
  BY <1>19 DEF vars, StoreTypeOK
<1> QED
  BY <1>1, <1>2, <1>3, <1>4, <1>5, <1>6, <1>7, <1>10, <1>11, <1>12, <1>13, <1>14, <1>15,
     <1>16, <1>17, <1>18, <1>19
  DEF Next, GateStep, ToolStep, ApplyApproval

\* Every reachable state is well typed: every error a call can carry has an
\* answer in the contract, every decision and every event is one of the declared.
THEOREM TypeCorrect == Spec => []TypeOK
BY TypeInit, TypeStep, PTL DEF Spec

-------------------------------------------------------------------------------
(***************************************************************************)
(* The store: entries are added and marked, never changed otherwise.        *)
(***************************************************************************)

\* Only a grant and an issue write the store.
LEMMA StoreWriters ==
  ASSUME [Next]_vars
  PROVE  \/ UNCHANGED entries
         \/ \E r \in Req : GrantApproval(r)
         \/ \E t \in Token, q \in Issuable : HostIssues(t, q)
BY DEF Next, vars, GateStep, ToolStep, ApplyApproval, Admit, TurnAway, Authenticate,
  NoStoreApproval, SkipApproval, LackApproval, RejectApproval, RecordRequest, Decide,
  RecordOutcome, AuditorRaises, Release, ToolReturns, ToolExits, ToolRaises, HostExports,
  TimePasses, Tick, store

\* An issued entry keeps its grant and its mark.
Kept(t) == /\ entries'[t] # None
           /\ entries'[t].grant = entries[t].grant
           /\ entries[t].consumed => entries'[t].consumed

LEMMA EntryKept ==
  ASSUME TypeOK, [Next]_vars, NEW t \in Token, entries[t] # None
  PROVE  Kept(t)
<1>1. CASE UNCHANGED entries
  BY <1>1 DEF Kept
<1>2. ASSUME NEW r \in Req, GrantApproval(r) PROVE Kept(t)
  <2>1. entries' = [entries EXCEPT ![token[r]] = Consumed(entries[token[r]])]
    BY <1>2 DEF GrantApproval, Consume
  <2>2. entries[t] \in Entry /\ entries \in [Token -> Entry \cup {None}]
    BY DEF TypeOK, StoreTypeOK
  <2>3. entries'[t] = IF t = token[r] THEN Consumed(entries[t]) ELSE entries[t]
    BY <2>1, <2>2
  <2> QED  BY <2>2, <2>3, ConsumedEntry, StoreAssumption DEF Kept, StoreAssumption
<1>3. ASSUME NEW u \in Token, NEW q \in Issuable, HostIssues(u, q) PROVE Kept(t)
  <2>1. entries[u] = None /\ \E e : entries' = [entries EXCEPT ![u] = e]
    BY <1>3 DEF HostIssues, Issue
  <2> QED  BY <2>1 DEF Kept, TypeOK, StoreTypeOK
<1> QED  BY <1>1, <1>2, <1>3, StoreWriters

\* A grant keeps its binding and its expiry for ever, and a consumed token is
\* never accepted as new: InMemoryApprovalStore neither edits nor evicts.
THEOREM NoGrantRevives == Spec => GrantsNeverRevive
<1>1. TypeOK /\ [Next]_vars => [\A t \in Token : entries[t] # None =>
                                 /\ entries'[t] # None
                                 /\ entries'[t].grant = entries[t].grant
                                 /\ entries[t].consumed => entries'[t].consumed]_vars
  BY EntryKept DEF Kept
<1> QED  BY <1>1, TypeCorrect, PTL DEF Spec, GrantsNeverRevive

-------------------------------------------------------------------------------
(***************************************************************************)
(* The semaphore.                                                           *)
(***************************************************************************)

\* A step lets a thread in with a permit, lets it out with one, or neither.
LEMMA Crossing ==
  ASSUME TypeOK, [Next]_vars
  PROVE  \/ \E r \in Req \ Inside : Inside' = Inside \cup {r} /\ slots' = slots - 1
         \/ \E r \in Inside : Inside' = Inside \ {r} /\ slots' = slots + 1
         \/ Inside' = Inside /\ slots' = slots
<1> DEFINE Goal == \/ \E r \in Req \ Inside : Inside' = Inside \cup {r} /\ slots' = slots - 1
                   \/ \E r \in Inside : Inside' = Inside \ {r} /\ slots' = slots + 1
                   \/ Inside' = Inside /\ slots' = slots
<1> USE DEF Inside, Goto, Raise, TypeOK
<1>1. ASSUME NEW r \in Req, NEW c \in Call, Admit(r, c) PROVE Goal
  <2>1. pc[r] = "idle" /\ pc' = [pc EXCEPT ![r] = "admitted"] /\ slots' = slots - 1
    BY <1>1 DEF Admit
  <2>2. r \in Req \ Inside /\ Inside' = Inside \cup {r}
    BY <2>1
  <2> QED  BY <2>1, <2>2
<1>2. ASSUME NEW r \in Req, NEW c \in Call, TurnAway(r, c) PROVE Goal
  BY <1>2 DEF TurnAway
<1>3. ASSUME NEW r \in Req, Release(r) PROVE Goal
  BY <1>3 DEF Release, Returned
<1>4. ASSUME NEW r \in Req, Authenticate(r) \/ ApplyApproval(r) PROVE Goal
  <2>1. /\ pc[r] \in {"admitted", "authenticated"} /\ slots' = slots
        /\ \E l \in {"authenticated", "approved", "unwinding"} : pc' = [pc EXCEPT ![r] = l]
    BY <1>4 DEF Authenticate, ApplyApproval, NoStoreApproval, SkipApproval, GrantApproval,
                LackApproval, RejectApproval
  <2> QED  BY <2>1
<1>5. ASSUME NEW r \in Req, RecordRequest(r) \/ Decide(r) \/ RecordOutcome(r) \/ AuditorRaises(r)
      PROVE  Goal
  BY <1>5 DEF RecordRequest, Decide, RecordOutcome, Over, AuditorRaises
<1>6. ASSUME NEW r \in Req, ToolStep(r) PROVE Goal
  BY <1>6 DEF ToolStep, ToolReturns, ToolExits, ToolRaises
<1>7. CASE \/ \E t \in Token, q \in Issuable : HostIssues(t, q)
           \/ \E t \in EnvTokens : HostExports(t)
           \/ TimePasses \/ UNCHANGED vars
  BY <1>7 DEF HostIssues, HostExports, TimePasses, vars
<1> QED
  BY <1>1, <1>2, <1>3, <1>4, <1>5, <1>6, <1>7 DEF Next, GateStep

\* However calls end (a refusal, an error or an exit of the body, an auditor
\* that raises), wrap_tool gives back exactly the permits it took.
THEOREM PermitsAlwaysConserved == Spec => []PermitsConserved
<1>1. Init => PermitsConserved
  <2> SUFFICES ASSUME Init PROVE PermitsConserved
    OBVIOUS
  <2>1. Inside = {} /\ slots = Limit /\ Limit \in Nat
    BY GateAssumption DEF Init, Inside, GateAssumption
  <2>2. Cardinality(Inside) = 0
    BY <2>1, FS_EmptySet
  <2> QED  BY <2>1, <2>2 DEF PermitsConserved
<1>2. TypeOK /\ PermitsConserved /\ [Next]_vars => PermitsConserved'
  <2> SUFFICES ASSUME TypeOK, PermitsConserved, [Next]_vars PROVE PermitsConserved'
    OBVIOUS
  <2>1. IsFiniteSet(Inside)
    BY GateAssumption, FS_Subset DEF Inside, GateAssumption
  <2>2. Cardinality(Inside) \in Nat /\ slots \in Nat /\ Limit \in Nat
    BY <2>1, FS_CardinalityType, GateAssumption DEF TypeOK, GateAssumption
  <2>3. ASSUME NEW r \in Req \ Inside, Inside' = Inside \cup {r}, slots' = slots - 1
        PROVE  PermitsConserved'
    <3>1. Cardinality(Inside \cup {r}) = Cardinality(Inside) + 1
      BY <2>1, <2>3, FS_AddElement
    <3> QED  BY <2>2, <2>3, <3>1 DEF PermitsConserved
  <2>4. ASSUME NEW r \in Inside, Inside' = Inside \ {r}, slots' = slots + 1
        PROVE  PermitsConserved'
    <3>1. Cardinality(Inside \ {r}) = Cardinality(Inside) - 1
      BY <2>1, <2>4, FS_RemoveElement
    <3> QED  BY <2>2, <2>4, <3>1 DEF PermitsConserved
  <2>5. CASE Inside' = Inside /\ slots' = slots
    BY <2>5 DEF PermitsConserved
  <2> QED  BY <2>3, <2>4, <2>5, Crossing
<1> QED  BY <1>1, <1>2, TypeCorrect, PTL DEF Spec

-------------------------------------------------------------------------------
(***************************************************************************)
(* Approval.  The property speaks of threads whose body ran; the inductive  *)
(* invariant follows a thread from the store to its body: nothing is        *)
(* granted before authentication, a granted thread stays covered by its     *)
(* entry, and a thread on its way to the policy is either entitled or will  *)
(* be refused.                                                              *)
(***************************************************************************)
Early == {"idle", "admitted", "authenticated"}

Entitled(r) == IF HasStore THEN grantedAt[r] # None
               ELSE token[r] \in {None, Empty} /\ ctx[r].approval = "granted"

ThreadInv(r) ==
  /\ pc[r] \in Early => ~ran[r] /\ grantedAt[r] = None
  /\ grantedAt[r] # None => GrantCovers(r)
  /\ pc[r] \in {"approved", "requested"} /\ Mutation(r) /\ ctx[r].approval = "granted" => Entitled(r)
  /\ ran[r] /\ Mutation(r) => Entitled(r)

ApprovalInv == \A r \in Req : ThreadInv(r)

\* What a step may do to a thread it does not move towards its body.
Quiet(r) ==
  /\ UNCHANGED <<call[r], token[r], ctx[r], ran[r], grantedAt[r]>>
  /\ \/ pc'[r] = pc[r]
     \/ pc[r] = "approved" /\ pc'[r] = "requested"
     \/ pc'[r] \notin Early \cup {"approved", "requested"}

\* The steps that matter to the approval of the thread taking them.
Moves(r) == \/ \E c \in Call : Admit(r, c) \/ TurnAway(r, c)
            \/ Authenticate(r)
            \/ NoStoreApproval(r) \/ SkipApproval(r) \/ GrantApproval(r) \/ LackApproval(r)
            \/ Decide(r)

\* A step moves one thread at most.
LEMMA OneMover ==
  ASSUME TypeOK, [Next]_vars
  PROVE  \/ \A s \in Req : Quiet(s)
         \/ \E r \in Req : Moves(r) /\ \A s \in Req \ {r} : Quiet(s)
<1> DEFINE Goal == \/ \A s \in Req : Quiet(s)
                   \/ \E r \in Req : Moves(r) /\ \A s \in Req \ {r} : Quiet(s)
<1> USE DEF TypeOK, Goto, Raise, Quiet, local, ghost, Early
<1>1. ASSUME NEW r \in Req, NEW c \in Call, Admit(r, c) \/ TurnAway(r, c) PROVE Goal
  <2>1. \A s \in Req \ {r} : Quiet(s)
    BY <1>1 DEF Admit, TurnAway
  <2> QED  BY <1>1, <2>1 DEF Moves
<1>2. ASSUME NEW r \in Req, Authenticate(r) PROVE Goal
  <2>1. \A s \in Req \ {r} : Quiet(s)
    BY <1>2 DEF Authenticate
  <2> QED  BY <1>2, <2>1 DEF Moves
<1>3. ASSUME NEW r \in Req, NoStoreApproval(r) \/ SkipApproval(r) \/ LackApproval(r) PROVE Goal
  <2>1. \A s \in Req \ {r} : Quiet(s)
    BY <1>3 DEF NoStoreApproval, SkipApproval, LackApproval
  <2> QED  BY <1>3, <2>1 DEF Moves
<1>4. ASSUME NEW r \in Req, GrantApproval(r) PROVE Goal
  <2>1. \A s \in Req \ {r} : Quiet(s)
    BY <1>4 DEF GrantApproval
  <2> QED  BY <1>4, <2>1 DEF Moves
<1>5. ASSUME NEW r \in Req, Decide(r) PROVE Goal
  <2>1. \A s \in Req \ {r} : Quiet(s)
    BY <1>5 DEF Decide
  <2> QED  BY <1>5, <2>1 DEF Moves
<1>6. ASSUME NEW r \in Req, RejectApproval(r) \/ RecordRequest(r) \/ RecordOutcome(r) PROVE Goal
  BY <1>6 DEF RejectApproval, RecordRequest, RecordOutcome
<1>7. ASSUME NEW r \in Req, AuditorRaises(r) \/ Release(r) \/ ToolStep(r) PROVE Goal
  BY <1>7 DEF AuditorRaises, Release, ToolStep, ToolReturns, ToolExits, ToolRaises
<1>8. CASE \/ \E t \in Token, q \in Issuable : HostIssues(t, q)
           \/ \E t \in EnvTokens : HostExports(t)
           \/ TimePasses \/ UNCHANGED vars
  BY <1>8 DEF HostIssues, HostExports, TimePasses, vars
<1> QED
  BY <1>1, <1>2, <1>3, <1>4, <1>5, <1>6, <1>7, <1>8 DEF Next, GateStep, ApplyApproval

\* An entry keeps covering the thread it was granted to.
LEMMA CoverKept ==
  ASSUME TypeOK, [Next]_vars, NEW r \in Req, GrantCovers(r),
         call'[r] = call[r], token'[r] = token[r], grantedAt'[r] = grantedAt[r],
         ctx'[r].agent = ctx[r].agent, ctx'[r].request = ctx[r].request,
         ctx'[r].project = ctx[r].project
  PROVE  GrantCovers(r)'
<1>1. Kept(token[r])
  BY EntryKept DEF GrantCovers
<1> QED  BY <1>1 DEF GrantCovers, Kept, IsExpired

LEMMA QuietKeeps ==
  ASSUME TypeOK, [Next]_vars, NEW r \in Req, ThreadInv(r), Quiet(r) PROVE ThreadInv(r)'
<1>1. grantedAt'[r] # None => GrantCovers(r)'
  BY CoverKept DEF ThreadInv, Quiet
<1> QED  BY <1>1 DEF ThreadInv, Quiet, Entitled, Mutation, Early

LEMMA MoveKeeps ==
  ASSUME TypeOK, [Next]_vars, NEW r \in Req, ThreadInv(r), Moves(r) PROVE ThreadInv(r)'
<1> USE DEF TypeOK, Goto, Raise, local, ghost, store
<1>1. ASSUME NEW c \in Call, Admit(r, c) \/ TurnAway(r, c) PROVE ThreadInv(r)'
  <2>1. /\ pc'[r] \in {"admitted", "answered"}
        /\ ~ran'[r] /\ grantedAt'[r] = None
    BY <1>1 DEF Admit, TurnAway, ThreadInv, Early
  <2> QED  BY <2>1 DEF ThreadInv
<1>2. ASSUME Authenticate(r) PROVE ThreadInv(r)'
  <2>1. /\ pc'[r] \in {"authenticated", "unwinding"}
        /\ ~ran'[r] /\ grantedAt'[r] = None
    BY <1>2 DEF Authenticate, ThreadInv, Early
  <2> QED  BY <2>1 DEF ThreadInv
<1>3. ASSUME NoStoreApproval(r) PROVE ThreadInv(r)'
  <2>1. /\ pc'[r] \in {"approved", "unwinding"}
        /\ ~ran'[r] /\ grantedAt'[r] = None
        /\ UNCHANGED <<call, token, ctx>> /\ ~HasStore
    BY <1>3 DEF NoStoreApproval, ThreadInv, Early
  <2>2. pc'[r] = "approved" => ~TokenUnusable(r)
    BY <1>3 DEF NoStoreApproval
  <2> QED  BY <2>1, <2>2 DEF ThreadInv, Entitled, TokenUnusable, Mutation, Early
<1>4. ASSUME SkipApproval(r) PROVE ThreadInv(r)'
  <2>1. /\ pc'[r] = "approved" /\ ~ran'[r] /\ grantedAt'[r] = None
        /\ UNCHANGED call /\ ~Mutation(r)
    BY <1>4 DEF SkipApproval, NeedsApproval, ThreadInv, Mutation, Early
  <2> QED  BY <2>1 DEF ThreadInv, Mutation, Early
<1>5. ASSUME GrantApproval(r) PROVE ThreadInv(r)'
  <2> DEFINE e == entries[token[r]]
  <2>1. /\ pc'[r] = "approved" /\ ~ran'[r] /\ grantedAt'[r] = clock
        /\ call' = call /\ token' = token /\ HasStore
    BY <1>5 DEF GrantApproval, ThreadInv, Early
  <2>2. /\ token[r] \in Token /\ e \in Entry
        /\ ~IsExpired(e.grant, clock) /\ ~Mismatch(e.grant, call[r].tool, ctx[r])
    BY <1>5, GrantedVerdict DEF GrantApproval, VerdictFor
  <2>3. entries'[token[r]] = Consumed(e)
    BY <1>5, <2>2 DEF GrantApproval, Consume, StoreTypeOK
  <2>4. ctx'[r] = [ctx[r] EXCEPT !.approval = "granted"]
    BY <1>5 DEF GrantApproval, WithStatus
  <2>5. /\ ctx'[r].agent = ctx[r].agent /\ ctx'[r].request = ctx[r].request
        /\ ctx'[r].project = ctx[r].project
    BY <2>4 DEF Context
  <2>6. /\ Consumed(e).grant = e.grant /\ Consumed(e) # None
        /\ e.grant.single => Consumed(e).consumed
    BY <2>2, ConsumedEntry, StoreAssumption DEF StoreAssumption
  <2>7. GrantCovers(r)'
    BY <2>1, <2>2, <2>3, <2>5, <2>6 DEF GrantCovers, Mismatch, IsExpired
  <2>8. clock # None
    <3>1. clock \in Nat
      BY StoreAssumption DEF StoreAssumption, StoreTypeOK
    <3>2. None \notin Nat
      BY GateAssumption DEF GateAssumption
    <3> QED  BY <3>1, <3>2
  <2> QED  BY <2>1, <2>7, <2>8 DEF ThreadInv, Entitled, Early
<1>6. ASSUME LackApproval(r) PROVE ThreadInv(r)'
  <2>1. /\ pc'[r] = "approved" /\ ~ran'[r] /\ grantedAt'[r] = None
        /\ ctx'[r].approval = "missing"
    BY <1>6 DEF LackApproval, WithStatus, ThreadInv, Early, Context
  <2> QED  BY <2>1 DEF ThreadInv, Early
<1>7. ASSUME Decide(r) PROVE ThreadInv(r)'
  <2>1. /\ pc[r] = "requested" /\ pc'[r] \in {"running", "unwinding"}
        /\ call' = call /\ token' = token /\ ctx' = ctx /\ grantedAt' = grantedAt
        /\ ran'[r] => ran[r] \/ DecisionFor(r) = "ALLOW"
    BY <1>7 DEF Decide, MayRun
  <2>2. DecisionFor(r) = "ALLOW" /\ Mutation(r) => ctx[r].approval = "granted"
    BY DEF DecisionFor, Evaluate, Mutation
  <2>3. ran'[r] /\ Mutation(r) => Entitled(r)
    BY <2>1, <2>2 DEF ThreadInv
  <2>4. grantedAt'[r] # None => GrantCovers(r)'
    BY <2>1, CoverKept DEF ThreadInv
  <2> QED  BY <2>1, <2>3, <2>4 DEF ThreadInv, Entitled, Mutation, Early
<1> QED  BY <1>1, <1>2, <1>3, <1>4, <1>5, <1>6, <1>7 DEF Moves

\* The invariant holds along every behaviour.
LEMMA ApprovalInvariant == Spec => []ApprovalInv
<1>1. Init => ApprovalInv
  BY DEF Init, ApprovalInv, ThreadInv
<1>2. TypeOK /\ ApprovalInv /\ [Next]_vars => ApprovalInv'
  BY OneMover, QuietKeeps, MoveKeeps DEF ApprovalInv
<1> QED  BY <1>1, <1>2, TypeCorrect, PTL DEF Spec

\* With a store, a mutation runs on an unexpired grant that the store gave it for
\* this tool, request and project, and for its agent if it names one, and that is
\* marked if it is single-use.
THEOREM MutationsAreGranted == Spec => []MutationRunsOnItsGrant
<1>1. ApprovalInv => MutationRunsOnItsGrant
  BY DEF ApprovalInv, ThreadInv, Entitled, MutationRunsOnItsGrant
<1> QED  BY <1>1, ApprovalInvariant, PTL

\* A mutation that comes with a token runs only if a store granted that token,
\* whatever status it asserts.
THEOREM TokensAreChecked == Spec => []TokenIsNeverDropped
<1>1. ApprovalInv => TokenIsNeverDropped
  BY DEF ApprovalInv, ThreadInv, Entitled, TokenIsNeverDropped
<1> QED  BY <1>1, ApprovalInvariant, PTL

\* Whatever the interleaving of the threads, a single-use token serves one call.
THEOREM SingleUse == Spec => []SingleUseGrantedOnce
<1>1. Init => SingleUseGrantedOnce
  BY DEF Init, SingleUseGrantedOnce
<1>2. TypeOK /\ ApprovalInv /\ SingleUseGrantedOnce /\ [Next]_vars => SingleUseGrantedOnce'
  <2> SUFFICES ASSUME TypeOK, ApprovalInv, SingleUseGrantedOnce, [Next]_vars,
                      NEW r \in Req, NEW s \in Req, r # s,
                      grantedAt'[r] # None, grantedAt'[s] # None, token'[r] = token'[s]
               PROVE  ~entries'[token'[r]].grant.single
    BY DEF SingleUseGrantedOnce
  <2>1. ASSUME NEW x \in Req, ~GrantApproval(x), grantedAt'[x] # None
        PROVE  grantedAt[x] # None /\ token'[x] = token[x]
    <3>1. CASE Quiet(x)
      BY <2>1, <3>1 DEF Quiet
    <3>2. CASE Moves(x)
      <4>1. pc[x] \in Early => grantedAt[x] = None
        BY DEF ApprovalInv, ThreadInv
      <4> QED  BY <2>1, <3>2, <4>1
               DEF Moves, Admit, TurnAway, Authenticate, NoStoreApproval, SkipApproval,
                   LackApproval, Decide, local, ghost, Early
    <3> QED  BY <3>1, <3>2, OneMover
  <2>2. ASSUME NEW x \in Req, NEW y \in Req, x # y, GrantApproval(x),
               grantedAt[y] # None, token[x] = token[y]
        PROVE  ~entries[token[x]].grant.single
    <3>1. ~Spent(entries[token[x]])
      BY <2>2, GrantedVerdict DEF GrantApproval, VerdictFor, TypeOK
    <3>2. GrantCovers(y)
      BY <2>2 DEF ApprovalInv, ThreadInv
    <3> QED  BY <2>2, <3>1, <3>2 DEF GrantCovers, Spent
  <2>3. ~(GrantApproval(r) /\ GrantApproval(s))
    BY DEF GrantApproval, Goto, TypeOK
  <2>4. token'[r] = token[r] /\ token'[s] = token[s]
    BY <2>1 DEF GrantApproval
  <2>5. ~entries[token[r]].grant.single
    <3>1. CASE GrantApproval(r)
      BY <3>1, <2>1, <2>2, <2>3, <2>4
    <3>2. CASE GrantApproval(s)
      BY <3>2, <2>1, <2>2, <2>3, <2>4
    <3>3. CASE ~GrantApproval(r) /\ ~GrantApproval(s)
      BY <3>3, <2>1, <2>4 DEF SingleUseGrantedOnce
    <3> QED  BY <3>1, <3>2, <3>3
  <2>6. token[r] \in Token /\ entries[token[r]] # None
    <3>1. CASE GrantApproval(r)
      BY <3>1, GrantedVerdict, StoreAssumption DEF GrantApproval, VerdictFor, TypeOK, StoreAssumption
    <3>2. CASE ~GrantApproval(r)
      BY <3>2, <2>1 DEF ApprovalInv, ThreadInv, GrantCovers
    <3> QED  BY <3>1, <3>2
  <2> QED  BY <2>4, <2>5, <2>6, EntryKept DEF Kept
<1> QED  BY <1>1, <1>2, TypeCorrect, ApprovalInvariant, PTL DEF Spec

-------------------------------------------------------------------------------
(***************************************************************************)
(* What the two judges of a call accept, told apart from how they find out. *)
(***************************************************************************)

\* Authentication lets a call pass in two cases and no other: with the secret of
\* the deployment, when it asserts to be nobody else; and, where authentication
\* is not required, without it, be the credential absent or wrong.  In the
\* second case the asserted identity is not looked at (bind_context).
THEOREM PassesExactlyThese ==
  ASSUME Attached, NEW x \in Opt(Context), NEW s \in Opt(Secret)
  PROVE  AuthError(x, s) = NoError <=>
           \/ SecretSet /\ s = "right" /\ ~Impersonates(AssertedOrEmpty(x))
           \/ ~RequireAuth /\ ~(SecretSet /\ s = "right")
<1>1. AuthStatus(s) = "authenticated" <=> SecretSet /\ s = "right"
  BY DEF AuthStatus, SharedSecretStatus, Opt, Secret
<1>2. AuthError(x, s) = NoError <=>
        /\ ~(RequireAuth /\ AuthStatus(s) # "authenticated")
        /\ ~(AuthStatus(s) = "authenticated" /\ Impersonates(AssertedOrEmpty(x)))
  BY DEF AuthError, BindError, Error, NoError
<1>3. RequireAuth => SecretSet
  BY AuthAssumption DEF AuthAssumption
<1> QED  BY <1>1, <1>2, <1>3

\* The store grants what its grants say and nothing else: a token it issued,
\* whose grant is for this tool, names no other agent, request or project (an
\* agent it names is not compared where the call names none), has not run out
\* and, if it is for one use, was not used (validate_and_consume).
\* No order of its checks can refuse a call this describes or grant another.
THEOREM GrantsExactlyThese ==
  ASSUME StoreTypeOK, NEW t \in Presented, NEW tool \in Tool, NEW by \in Context
  PROVE  Verdict(t, tool, by) = "granted" <=>
           /\ t \in Token /\ entries[t] # None
           /\ LET g == entries[t].grant IN
              /\ g.tool = tool
              /\ g.subject \in {None, by.agent} \/ by.agent = None
              /\ g.request \in {None, by.request}
              /\ g.project \in {None, by.project}
              /\ clock < g.expires
              /\ ~(g.single /\ entries[t].consumed)
<1>1. t \in NoToken <=> t \notin Token
  BY StoreAssumption DEF StoreAssumption, NoToken, Presented, Opt
<1>2. CASE t \in Token /\ entries[t] # None
  <2> DEFINE g == entries[t].grant
  <2>1. g.expires \in Nat /\ clock \in Nat
    <3>1. entries[t] \in Entry BY <1>2 DEF StoreTypeOK
    <3>2. clock \in 0 .. MaxClock /\ MaxClock \in Nat
      BY StoreAssumption DEF StoreTypeOK, StoreAssumption
    <3> QED  BY <3>1, <3>2 DEF Entry, Grant
  <2>2. IsExpired(g, clock) <=> ~(clock < g.expires)
    BY <2>1 DEF IsExpired
  <2>3. Mismatch(g, tool, by) <=>
          ~ /\ g.tool = tool
            /\ g.subject \in {None, by.agent} \/ by.agent = None
            /\ g.request \in {None, by.request}
            /\ g.project \in {None, by.project}
    BY DEF Mismatch
  <2>4. Verdict(t, tool, by) = "granted" <=>
          ~Spent(entries[t]) /\ ~IsExpired(g, clock) /\ ~Mismatch(g, tool, by)
    BY <1>1, <1>2 DEF Verdict, VerdictOnEntry
  <2> QED  BY <1>2, <2>2, <2>3, <2>4 DEF Spent
<1>3. CASE ~(t \in Token /\ entries[t] # None)
  <2>1. Verdict(t, tool, by) # "granted"
    BY <1>1, <1>3 DEF Verdict, VerdictOnEntry
  <2> QED  BY <1>3, <2>1
<1> QED  BY <1>2, <1>3

\* A refusal is for good: what the store once refused for a token it had issued,
\* it never grants later for the same tool and caller, however often the call is
\* tried again and whatever else is issued, spent or runs out in between.
RefusedForGood ==
  \A t \in Token, tool \in Tool, by \in Context :
    entries[t] # None /\ Verdict(t, tool, by) # "granted" => Verdict(t, tool, by)' # "granted"
THEOREM RefusalsAreFinal == Spec => [][RefusedForGood]_vars
<1>1. TypeOK /\ TypeOK' /\ [Next]_vars => RefusedForGood
  <2> SUFFICES ASSUME TypeOK, TypeOK', [Next]_vars,
                      NEW t \in Token, NEW tool \in Tool, NEW by \in Context,
                      entries[t] # None, Verdict(t, tool, by) # "granted"
               PROVE  Verdict(t, tool, by)' # "granted"
    BY DEF RefusedForGood
  <2> DEFINE e == entries[t]
             f == entries'[t]
  <2>1. f # None /\ f.grant = e.grant /\ (e.consumed => f.consumed)
    BY EntryKept DEF Kept
  <2>2. t \notin NoToken
    BY StoreAssumption DEF StoreAssumption, NoToken
  <2>3. Spent(e) \/ IsExpired(e.grant, clock) \/ Mismatch(e.grant, tool, by)
    BY <2>2 DEF Verdict, VerdictOnEntry
  <2>4. CASE Spent(e)
    <3>1. Spent(f) BY <2>1, <2>4 DEF Spent
    <3> QED  BY <2>1, <2>2, <3>1 DEF Verdict, VerdictOnEntry
  <2>5. CASE IsExpired(e.grant, clock)
    <3>1. clock \in Nat /\ clock' \in Nat /\ MaxClock \in Nat /\ e.grant.expires \in Nat
      <4>1. entries[t] \in Entry BY DEF TypeOK, StoreTypeOK
      <4>2. clock \in 0 .. MaxClock /\ clock' \in 0 .. MaxClock /\ MaxClock \in Nat
        BY StoreAssumption DEF TypeOK, StoreTypeOK, StoreAssumption
      <4> QED  BY <4>1, <4>2 DEF Entry, Grant
    <3>2. clock' = clock \/ clock' = clock + 1
      BY DEF Next, vars, GateStep, ToolStep, ApplyApproval, Admit, TurnAway, Authenticate,
        NoStoreApproval, SkipApproval, GrantApproval, LackApproval, RejectApproval,
        RecordRequest, Decide, RecordOutcome, AuditorRaises, Release, ToolReturns, ToolExits,
        ToolRaises, HostIssues, Issue, HostExports, TimePasses, Tick, store
    <3>3. IsExpired(f.grant, clock') BY <2>1, <2>5, <3>1, <3>2 DEF IsExpired
    <3> QED  BY <2>1, <2>2, <3>3 DEF Verdict, VerdictOnEntry
  <2>6. CASE Mismatch(e.grant, tool, by)
    <3>1. Mismatch(f.grant, tool, by) BY <2>1, <2>6
    <3> QED  BY <2>1, <2>2, <3>1 DEF Verdict, VerdictOnEntry
  <2> QED  BY <2>3, <2>4, <2>5, <2>6
<1> QED  BY <1>1, TypeCorrect, PTL DEF Spec
==============================================================================
