-------------------------- MODULE ToolCommands_proofs --------------------------
(***************************************************************************)
(* Theorems about ToolCommands, for any calls, operations, answers, scopes  *)
(* and limit.                                                               *)
(*                                                                          *)
(* A killed child says nothing of what it asked for before, so the          *)
(* properties need to know where an order can come from: a body runs once   *)
(* in a call that was granted it, it starts one child, and a child asks     *)
(* once.  CommandsInv puts that together from what the gate holds of a call *)
(* (CallShape), what the body and its child may be in at the same time      *)
(* (ChildShape), and what the provider was asked (OrderShape).              *)
(***************************************************************************)
EXTENDS ToolCommands, FiniteSetTheorems, TLAPS

\* What the gate knows of call r, and how far its body is.
CallShape(r) ==
  /\ phase[r] = "out" => permission[r] = None /\ ~performed[r]
  /\ phase[r] # "out" => op[r] \in Operation /\ mutating[r] = op[r].orders
  /\ phase[r] = "done" => body[r] \in {"none", "over"}
  /\ performed[r] <=> body[r] # "none"
  /\ performed[r] /\ Guarded /\ mutating[r] => permission[r] # None
  /\ reply[r] = "refused" => phase[r] = "done" /\ ~performed[r]

\* What the body of r and its child may be in at the same time.
ChildShape(r) ==
  /\ body[r] \in {"none", "ready"} => child[r] = "none"
  /\ body[r] = "waiting" => child[r] # "none"
  /\ Alive(r) => body[r] = "waiting"
  /\ body[r] # "over" => failure[r] = ""
  /\ child[r] = "killed" => failure[r] = "expired"
  /\ failure[r] \in {"invalid", "missing", "denied"} => child[r] = "none"

\* What r has asked for by now.
OrderShape(r) ==
  /\ child[r] \in {"none", "alive"} => orders[r] = 0 /\ effects[r] = 0
  /\ orders[r] + effects[r] <= 1
  /\ orders[r] + effects[r] > 0 => performed[r] /\ mutating[r]

\* Where the result of r comes from.
ResultShape(r) ==
  /\ child[r] = "exited" /\ op[r].program = "gateway" /\ output[r] \notin Unusable =>
       line[r] \in Reply
  /\ result[r] # None => /\ child[r] = "exited" /\ body[r] = "over"
                         /\ line[r] \in Reply /\ result[r] = Interpret(line[r])

\* The open scopes of thread r lead back to none.
ScopeShape(r) ==
  /\ current[r] = Innermost(r)
  /\ \A i \in 1..Len(frames[r]) :
       frames[r][i].before = IF i = 1 THEN NoId ELSE frames[r][i - 1].id
  /\ phase[r] = "in" /\ child[r] # "none" /\ op[r].program = "gateway" => sent[r] = current[r]

Shape(r) == CallShape(r) /\ ChildShape(r) /\ OrderShape(r) /\ ResultShape(r) /\ ScopeShape(r)

\* What a gate that keeps its promise may show of call r.
PromiseShape(r) ==
  /\ phase[r] = "out" => permission[r] = None /\ ~performed[r]
  /\ phase[r] # "done" => reply[r] = None
  /\ reply[r] = "done" => performed[r]
  /\ reply[r] = "refused" => ~performed[r]
  /\ Guarded /\ mutating[r] /\ performed[r] => permission[r] # None

\* A permission that is exclusive is nobody else's.
GrantShape ==
  \A r, s \in Req :
    r # s /\ permission[r] # None /\ permission[r].exclusive => ~ Holds(s, permission[r].token)

Room == Cardinality(In) <= Limit

PromiseInv == GateTypeOK /\ (\A r \in Req : PromiseShape(r)) /\ GrantShape /\ Room

\* A call that was answered is over.
AnswersAreFinal ==
  \A r \in Req : phase[r] = "done" =>
    UNCHANGED <<phase[r], mutating[r], permission[r], performed[r], reply[r]>>

CommandsInv == TypeOK /\ (\A r \in Req : Shape(r)) /\ PromiseInv

-------------------------------------------------------------------------------
(***************************************************************************)
(* What follows from the promise alone, whoever keeps it.                   *)
(***************************************************************************)
LEMMA PromiseBegins == PromiseInit => PromiseInv
  <1> SUFFICES ASSUME PromiseInit PROVE PromiseInv
    OBVIOUS
  <1>1. None \notin {"done", "refused", "error"}
    BY CommandsAssumption DEF CommandsAssumption
  <1>2. GateTypeOK /\ GrantShape
    BY DEF PromiseInit, GateTypeOK, GrantShape
  <1>3. \A r \in Req : PromiseShape(r)
    BY <1>1 DEF PromiseInit, PromiseShape
  <1>4. Room
    <2>1. In = {}
      BY DEF In, PromiseInit
    <2>2. Cardinality(In) = 0
      BY <2>1, FS_EmptySet
    <2>3. Limit \in Nat
      BY CommandsAssumption DEF CommandsAssumption
    <2>4. QED BY <2>2, <2>3 DEF Room
  <1>5. QED BY <1>2, <1>3, <1>4 DEF PromiseInv

\* The types of what the gate keeps.
LEMMA GateTypeKept ==
  ASSUME PromiseInv, [PromiseNext]_pvars
  PROVE  GateTypeOK'
  <1>1. GateTypeOK
    BY DEF PromiseInv
  <1>2. ASSUME NEW r \in Req, NEW m \in BOOLEAN, Enter(r, m) \/ TurnAway(r, m)
        PROVE  GateTypeOK'
    BY <1>1, <1>2 DEF GateTypeOK, Enter, TurnAway
  <1>3. ASSUME NEW r \in Req, NEW t \in Token, NEW x \in BOOLEAN, Spend(r, t, x)
        PROVE  GateTypeOK'
    BY <1>1, <1>3 DEF GateTypeOK, Spend
  <1>4. ASSUME NEW r \in Req, Perform(r)
        PROVE  GateTypeOK'
    BY <1>1, <1>4 DEF GateTypeOK, Perform
  <1>5. ASSUME NEW r \in Req, NEW a \in {"done", "refused", "error"}, Leave(r, a)
        PROVE  GateTypeOK'
    BY <1>1, <1>5 DEF GateTypeOK, Leave
  <1>6. CASE UNCHANGED pvars
    BY <1>1, <1>6 DEF GateTypeOK, pvars
  <1>7. QED BY <1>2, <1>3, <1>4, <1>5, <1>6 DEF PromiseNext

\* The answer tells whether the call was performed, and a mutation is permitted.
LEMMA PromiseShapeKept ==
  ASSUME PromiseInv, [PromiseNext]_pvars, NEW q \in Req
  PROVE  PromiseShape(q)'
  <1>1. GateTypeOK /\ PromiseShape(q)
    BY DEF PromiseInv
  <1>2. None \notin [token : Token, exclusive : BOOLEAN] \cup {"done", "refused", "error"}
    BY CommandsAssumption DEF CommandsAssumption
  <1>3. ASSUME NEW r \in Req, NEW m \in BOOLEAN, Enter(r, m) \/ TurnAway(r, m)
        PROVE  PromiseShape(q)'
    BY <1>1, <1>2, <1>3 DEF PromiseShape, GateTypeOK, Enter, TurnAway
  <1>4. ASSUME NEW r \in Req, NEW t \in Token, NEW x \in BOOLEAN, Spend(r, t, x)
        PROVE  PromiseShape(q)'
    BY <1>1, <1>2, <1>4 DEF PromiseShape, GateTypeOK, Spend
  <1>5. ASSUME NEW r \in Req, Perform(r)
        PROVE  PromiseShape(q)'
    BY <1>1, <1>2, <1>5 DEF PromiseShape, GateTypeOK, Perform
  <1>6. ASSUME NEW r \in Req, NEW a \in {"done", "refused", "error"}, Leave(r, a)
        PROVE  PromiseShape(q)'
    BY <1>1, <1>2, <1>6 DEF PromiseShape, GateTypeOK, Leave
  <1>7. CASE UNCHANGED pvars
    BY <1>1, <1>7 DEF PromiseShape, pvars
  <1>8. QED BY <1>3, <1>4, <1>5, <1>6, <1>7 DEF PromiseNext

\* A permission is given to one call, or to calls that share it.
LEMMA GrantKept ==
  ASSUME PromiseInv, [PromiseNext]_pvars
  PROVE  GrantShape'
  <1>1. permission \in [Req -> [token : Token, exclusive : BOOLEAN] \cup {None}] /\ GrantShape
    BY DEF PromiseInv, GateTypeOK
  <1>2. None \notin [token : Token, exclusive : BOOLEAN]
    BY CommandsAssumption DEF CommandsAssumption
  <1>3. ASSUME NEW r \in Req, NEW t \in Token, NEW x \in BOOLEAN, Spend(r, t, x)
        PROVE  GrantShape'
    <2>1. /\ permission' = [permission EXCEPT ![r] = [token |-> t, exclusive |-> x]]
          /\ \A s \in Req : Holds(s, t) => ~x /\ ~permission[s].exclusive
      BY <1>3 DEF Spend
    <2>2. QED BY <1>1, <1>2, <2>1 DEF GrantShape, Holds
  <1>4. CASE UNCHANGED permission
    BY <1>1, <1>4 DEF GrantShape, Holds
  <1>5. QED
    BY <1>3, <1>4 DEF PromiseNext, Enter, TurnAway, Perform, Leave, pvars

\* No more calls are inside than the gate lets in.
LEMMA RoomKept ==
  ASSUME PromiseInv, [PromiseNext]_pvars
  PROVE  Room'
  <1>1. /\ phase \in [Req -> {"out", "in", "done"}] /\ Room
        /\ IsFiniteSet(Req) /\ Limit \in Nat
    BY CommandsAssumption DEF PromiseInv, GateTypeOK, CommandsAssumption
  <1>2. In \subseteq Req /\ In' \subseteq Req
    BY DEF In
  <1>3. /\ IsFiniteSet(In) /\ Cardinality(In) \in Nat
        /\ IsFiniteSet(In') /\ Cardinality(In') \in Nat
    BY <1>1, <1>2, FS_Subset, FS_CardinalityType
  <1>4. CASE In' \subseteq In
    <2>1. Cardinality(In') <= Cardinality(In)
      BY <1>3, <1>4, FS_Subset
    <2>2. QED BY <1>1, <1>3, <2>1 DEF Room
  <1>5. ASSUME NEW r \in Req, NEW m \in BOOLEAN, Enter(r, m)
        PROVE  Room'
    <2>1. In' = In \cup {r} /\ r \notin In /\ Cardinality(In) < Limit
      BY <1>1, <1>5 DEF Enter, In
    <2>2. Cardinality(In') = Cardinality(In) + 1
      BY <1>3, <2>1, FS_AddElement
    <2>3. QED BY <1>1, <1>3, <2>1, <2>2 DEF Room
  <1>6. ASSUME NEW r \in Req, NEW a, NEW m, TurnAway(r, m) \/ Leave(r, a)
        PROVE  Room'
    <2>1. In' \subseteq In
      BY <1>1, <1>6 DEF TurnAway, Leave, In
    <2>2. QED BY <1>4, <2>1
  <1>7. CASE UNCHANGED phase
    <2>1. In' = In
      BY <1>7 DEF In
    <2>2. QED BY <1>4, <2>1
  <1>8. QED
    BY <1>5, <1>6, <1>7 DEF PromiseNext, Spend, Perform, pvars

LEMMA PromiseKept == PromiseInv /\ [PromiseNext]_pvars => PromiseInv'
  BY GateTypeKept, PromiseShapeKept, GrantKept, RoomKept DEF PromiseInv

\* What the promise is worth, for any system that keeps it: never more calls
\* inside than the limit, a guarded mutation performed only on a permission, an
\* exclusive permission held by one call, and an answer that says "done" only of a
\* call that was performed and "refused" only of one that was not (wrap_tool).
THEOREM PromiseIsWorthKeeping == Promise => []PromiseInv
  BY PromiseBegins, PromiseKept, PTL DEF Promise

LEMMA FinalStep == PromiseInv /\ [PromiseNext]_pvars => AnswersAreFinal
  <1> SUFFICES ASSUME PromiseInv, [PromiseNext]_pvars, NEW q \in Req, phase[q] = "done"
               PROVE  UNCHANGED <<phase[q], mutating[q], permission[q], performed[q], reply[q]>>
    BY DEF AnswersAreFinal
  <1>1. GateTypeOK
    BY DEF PromiseInv
  <1>2. ASSUME NEW r \in Req, phase[r] # "done",
               \/ \E m \in BOOLEAN : Enter(r, m) \/ TurnAway(r, m)
               \/ \E t \in Token, x \in BOOLEAN : Spend(r, t, x)
               \/ Perform(r)
               \/ \E a \in {"done", "refused", "error"} : Leave(r, a)
        PROVE  UNCHANGED <<phase[q], mutating[q], permission[q], performed[q], reply[q]>>
    BY <1>1, <1>2 DEF GateTypeOK, Enter, TurnAway, Spend, Perform, Leave
  <1>3. CASE PromiseNext
    BY <1>2, <1>3 DEF PromiseNext, Enter, TurnAway, Spend, Perform, Leave
  <1>4. QED BY <1>3 DEF pvars

\* An answer is the last thing that happens to a call: under the promise, no
\* permission is spent and nothing is performed for it afterwards (wrap_tool).
THEOREM PromiseEndsWithTheAnswer == Promise => [][AnswersAreFinal]_pvars
  BY PromiseIsWorthKeeping, FinalStep, PTL DEF Promise

-------------------------------------------------------------------------------
\* What is reported of an answer is an OperationsResult.
LEMMA InterpretType ==
  ASSUME NEW p \in Reply
  PROVE  Interpret(p) \in ResultType
  <1>1. p.status \in Status \cup {"missing"}
    BY CommandsAssumption DEF CommandsAssumption, ReplyType
  <1>2. "unknown" \in Status
    BY DEF Status, Canonical
  <1>3. QED BY <1>1, <1>2 DEF ResultType, Interpret

\* A failure is raised as one of the classes the gate knows.
LEMMA ErrorOfType ==
  ASSUME NEW o \in Operation, NEW why \in Why \ {""}
  PROVE  ErrorOf(o.program, why) \in ErrorClass
  <1>1. o.program \in Program
    BY CommandsAssumption DEF CommandsAssumption, OperationType
  <1>2. CASE o.program = "runflare" \/ why \in {"denied", "undecodable"}
    BY <1>2 DEF ErrorOf, ErrorClass
  <1>3. CASE o.program = "gateway" /\ why \notin {"denied", "undecodable"}
    BY <1>3 DEF ErrorOf, ErrorClass, McpClass, Why, Unusable
  <1>4. QED BY <1>1, <1>2, <1>3 DEF Program

\* A step is one of these.
LEMMA StepCases ==
  ASSUME [Next]_vars
  PROVE  \/ \E r \in Req : \/ \E o \in Operation : Call(r, o)
                           \/ \E t \in Token, x \in BOOLEAN : Approve(r, t, x)
                           \/ Refuse(r) \/ Begin(r) \/ Launch(r) \/ Expire(r) \/ Collect(r) \/ Finish(r)
                           \/ ChildAsks(r) \/ ChildExits(r) \/ ProviderPerforms(r) \/ Trace(r)
         \/ \E p \in Program : Reinstall(p)
         \/ UNCHANGED vars
  BY DEF Next, BodyStep

\* Every step is one the promise allows, or none it can see.
LEMMA PromiseSeen == [Next]_vars => [PromiseNext]_pvars
  <1> SUFFICES ASSUME [Next]_vars PROVE [PromiseNext]_pvars
    OBVIOUS
  <1>1. ASSUME NEW r \in Req, NEW o \in Operation, Call(r, o)
        PROVE  PromiseNext
    <2>1. o.orders \in BOOLEAN
      BY CommandsAssumption DEF CommandsAssumption, OperationType
    <2>2. Enter(r, o.orders) \/ TurnAway(r, o.orders)
      BY <1>1 DEF Call
    <2>3. QED BY <2>1, <2>2 DEF PromiseNext
  <1>2. ASSUME NEW r \in Req, NEW t \in Token, NEW x \in BOOLEAN, Approve(r, t, x)
        PROVE  PromiseNext
    BY <1>2 DEF Approve, PromiseNext
  <1>3. ASSUME NEW r \in Req, Begin(r)
        PROVE  PromiseNext
    BY <1>3 DEF Begin, PromiseNext
  <1>4. ASSUME NEW r \in Req, Refuse(r) \/ Finish(r)
        PROVE  PromiseNext
    <2>1. \E a \in {"done", "refused", "error"} : Leave(r, a)
      BY <1>4 DEF Refuse, Finish
    <2>2. QED BY <2>1 DEF PromiseNext
  <1>5. QED
    BY <1>1, <1>2, <1>3, <1>4, StepCases, ZenonT(60)
    DEF Launch, Expire, Collect, ChildAsks, ChildExits, ProviderPerforms, Trace, Reinstall, vars

LEMMA InitInv == Init => CommandsInv
  <1> SUFFICES ASSUME Init PROVE CommandsInv
    OBVIOUS
  <1> USE DEF Init, PromiseInit, TracingInit
  <1>1. TypeOK
    <2>1. GateTypeOK
      BY DEF GateTypeOK
    <2>2. ScopeTypeOK
      <3>1. Req = Thread /\ \A r \in Req : MaxScopes[r] \in Nat
        BY CommandsAssumption, TracingAssumption DEF CommandsAssumption, TracingAssumption
      <3>2. opened = [r \in Req |-> 0] /\ current = [r \in Req |-> NoId] /\ frames = [r \in Req |-> <<>>]
        BY <3>1
      <3> HIDE DEF Init, PromiseInit, TracingInit
      <3>3. <<>> \in Seq(Frame)
        OBVIOUS
      <3>4. QED BY <3>1, <3>2, <3>3 DEF ScopeTypeOK
    <2>3. BodyTypeOK
      BY DEF BodyTypeOK, Why
    <2>4. WorldTypeOK
      <3>1. MaxChanges \in Nat
        BY CommandsAssumption DEF CommandsAssumption
      <3>2. /\ present = [p \in Program |-> TRUE] /\ changes = 0
            /\ orders = [r \in Req |-> 0] /\ effects = [r \in Req |-> 0]
        OBVIOUS
      <3> HIDE DEF Init, PromiseInit, TracingInit
      <3>3. QED BY <3>1, <3>2 DEF WorldTypeOK
    <2>5. \A r \in Req : failure[r] = ""
      OBVIOUS
    <2>6. QED BY <2>1, <2>2, <2>3, <2>4, <2>5 DEF TypeOK
  <1>2. ASSUME NEW r \in Req PROVE Shape(r)
    <2>1. /\ phase[r] = "out" /\ permission[r] = None /\ performed[r] = FALSE /\ reply[r] = None
          /\ body[r] = "none" /\ child[r] = "none" /\ failure[r] = "" /\ result[r] = None
      OBVIOUS
    <2>1a. orders[r] = 0 /\ effects[r] = 0
      OBVIOUS
    <2>2. frames[r] = <<>> /\ current[r] = NoId
      BY CommandsAssumption DEF CommandsAssumption
    <2> HIDE DEF Init, PromiseInit, TracingInit
    <2>3. CallShape(r) /\ ChildShape(r)
      <3>1. None # "refused" \* a call that has no answer was not refused
        BY CommandsAssumption DEF CommandsAssumption
      <3>2. QED BY <2>1, <3>1 DEF CallShape, ChildShape, Alive
    <2>4. OrderShape(r) /\ ResultShape(r)
      <3>1. orders[r] + effects[r] = 0
        BY <2>1a
      <3>2. OrderShape(r)
        BY <2>1a, <3>1 DEF OrderShape
      <3>3. ResultShape(r)
        BY <2>1 DEF ResultShape
      <3>4. QED BY <3>2, <3>3
    <2>5. ScopeShape(r)
      <3>1. 1..Len(frames[r]) = {}
        BY <2>2
      <3>2. QED BY <2>1, <2>2, <3>1 DEF ScopeShape, Innermost
    <2>6. QED BY <2>3, <2>4, <2>5 DEF Shape
  <1>3. PromiseInv
    BY PromiseBegins
  <1>4. QED BY <1>1, <1>2, <1>3 DEF CommandsInv

\* What the gate knows of a call.
LEMMA CallKept ==
  ASSUME CommandsInv, [Next]_vars, NEW q \in Req
  PROVE  CallShape(q)'
  <1>1. /\ phase \in [Req -> {"out", "in", "done"}]
        /\ op \in [Req -> Operation \cup {None}]
        /\ mutating \in [Req -> BOOLEAN]
        /\ permission \in [Req -> [token : Token, exclusive : BOOLEAN] \cup {None}]
        /\ performed \in [Req -> BOOLEAN]
        /\ reply \in [Req -> {"done", "refused", "error", None}]
        /\ body \in [Req -> {"none", "ready", "waiting", "over"}]
    BY DEF CommandsInv, TypeOK, GateTypeOK, ScopeTypeOK, BodyTypeOK, WorldTypeOK
  <1>2. CallShape(q)
    BY DEF CommandsInv, Shape
  <1>3. ASSUME NEW r \in Req, NEW o \in Operation, Call(r, o)
       PROVE  CallShape(q)'
    BY <1>1, <1>2, <1>3 DEF CallShape, Call, Enter, TurnAway, tvars, world
  <1>4. ASSUME NEW r \in Req, NEW t \in Token, NEW x \in BOOLEAN, Approve(r, t, x)
       PROVE  CallShape(q)'
    BY <1>1, <1>2, <1>4 DEF CallShape, Approve, Spend, tvars, bodyvars, world
  <1>5. ASSUME NEW r \in Req, Refuse(r)
       PROVE  CallShape(q)'
    BY <1>1, <1>2, <1>5 DEF CallShape, Refuse, Leave, tvars, bodyvars, world
  <1>6. ASSUME NEW r \in Req, Begin(r)
       PROVE  CallShape(q)'
    BY <1>1, <1>2, <1>6 DEF CallShape, Begin, Perform, Raise, tvars, world
  <1>7. ASSUME NEW r \in Req, Launch(r)
       PROVE  CallShape(q)'
    BY <1>1, <1>2, <1>7 DEF CallShape, Launch, Raise, pvars, tvars, world
  <1>8. ASSUME NEW r \in Req, Expire(r)
       PROVE  CallShape(q)'
    BY <1>1, <1>2, <1>8 DEF CallShape, Expire, Kill, Raise, pvars, tvars, world
  <1>9. ASSUME NEW r \in Req, Collect(r)
       PROVE  CallShape(q)'
    BY <1>1, <1>2, <1>9 DEF CallShape, Collect, Raise, pvars, tvars, world
  <1>10. ASSUME NEW r \in Req, Finish(r)
       PROVE  CallShape(q)'
    BY <1>1, <1>2, <1>10 DEF CallShape, Finish, Leave, tvars, bodyvars, world
  <1>11. CASE UNCHANGED <<phase, op, mutating, permission, performed, reply, body>>
    BY <1>2, <1>11 DEF CallShape
  <1>12. QED
    BY <1>3, <1>4, <1>5, <1>6, <1>7, <1>8, <1>9, <1>10, <1>11, StepCases, ZenonT(60) DEF ChildAsks,
       pvars, tvars, ChildExits, world, ProviderPerforms, bodyvars, Trace, OpenScope,
       CloseScope, Reinstall, vars

\* What a body and its child may be in.
LEMMA ChildKept ==
  ASSUME CommandsInv, [Next]_vars, NEW q \in Req
  PROVE  ChildShape(q)'
  <1>1. /\ body \in [Req -> {"none", "ready", "waiting", "over"}]
        /\ child \in [Req -> {"none", "alive", "asked", "exited", "killed"}]
        /\ failure \in [Req -> Why]
        /\ output \in [Req -> Unusable \cup {"none", "text", "object"}]
    BY DEF CommandsInv, TypeOK, GateTypeOK, ScopeTypeOK, BodyTypeOK, WorldTypeOK
  <1>2. ChildShape(q)
    BY DEF CommandsInv, Shape
  <1>3. ASSUME NEW r \in Req, Begin(r)
       PROVE  ChildShape(q)'
    BY <1>1, <1>2, <1>3 DEF ChildShape, Alive, Unusable, Begin, Perform, Raise, tvars, world
  <1>4. ASSUME NEW r \in Req, Launch(r)
       PROVE  ChildShape(q)'
    BY <1>1, <1>2, <1>4 DEF ChildShape, Alive, Unusable, Launch, Raise, pvars, tvars, world
  <1>5. ASSUME NEW r \in Req, Expire(r)
       PROVE  ChildShape(q)'
    BY <1>1, <1>2, <1>5 DEF ChildShape, Alive, Unusable, Expire, Kill, Raise, pvars, tvars,
       world
  <1>6. ASSUME NEW r \in Req, Collect(r)
       PROVE  ChildShape(q)'
    BY <1>1, <1>2, <1>6 DEF ChildShape, Alive, Unusable, Collect, Raise, pvars, tvars, world
  <1>7. ASSUME NEW r \in Req, ChildAsks(r)
       PROVE  ChildShape(q)'
    BY <1>1, <1>2, <1>7 DEF ChildShape, Alive, Unusable, ChildAsks, pvars, tvars
  <1>8. ASSUME NEW r \in Req, ChildExits(r)
       PROVE  ChildShape(q)'
    BY <1>1, <1>2, <1>8 DEF ChildShape, Alive, Unusable, ChildExits, pvars, tvars, world
  <1>9. CASE UNCHANGED <<body, child, failure>>
    BY <1>2, <1>9 DEF ChildShape, Alive, Unusable
  <1>10. QED
    BY <1>3, <1>4, <1>5, <1>6, <1>7, <1>8, <1>9, StepCases, ZenonT(60) DEF Call, Enter, TurnAway,
       tvars, world, Approve, Spend, bodyvars, Refuse, Leave, Finish, ProviderPerforms,
       pvars, Trace, OpenScope, CloseScope, Reinstall, vars

\* One child, one order.
LEMMA OrderKept ==
  ASSUME CommandsInv, [Next]_vars, NEW q \in Req
  PROVE  OrderShape(q)'
  <1>1. /\ phase \in [Req -> {"out", "in", "done"}]
        /\ op \in [Req -> Operation \cup {None}]
        /\ mutating \in [Req -> BOOLEAN]
        /\ performed \in [Req -> BOOLEAN]
        /\ body \in [Req -> {"none", "ready", "waiting", "over"}]
        /\ child \in [Req -> {"none", "alive", "asked", "exited", "killed"}]
        /\ orders \in [Req -> Nat]
        /\ effects \in [Req -> Nat]
    BY DEF CommandsInv, TypeOK, GateTypeOK, ScopeTypeOK, BodyTypeOK, WorldTypeOK
  <1>2. CallShape(q) /\ ChildShape(q) /\ OrderShape(q)
    BY DEF CommandsInv, Shape
  <1>3. ASSUME NEW r \in Req, NEW o \in Operation, Call(r, o)
       PROVE  OrderShape(q)'
    BY <1>1, <1>2, <1>3 DEF CallShape, ChildShape, OrderShape, Alive, Call, Enter,
       TurnAway, tvars, world
  <1>4. ASSUME NEW r \in Req, Begin(r)
       PROVE  OrderShape(q)'
    BY <1>1, <1>2, <1>4 DEF CallShape, ChildShape, OrderShape, Alive, Begin, Perform,
       Raise, tvars, world
  <1>5. ASSUME NEW r \in Req, Launch(r)
       PROVE  OrderShape(q)'
    BY <1>1, <1>2, <1>5 DEF CallShape, ChildShape, OrderShape, Alive, Launch, Raise, pvars,
       tvars, world
  <1>6. ASSUME NEW r \in Req, Expire(r)
       PROVE  OrderShape(q)'
    BY <1>1, <1>2, <1>6 DEF CallShape, ChildShape, OrderShape, Alive, Expire, Kill, Raise,
       pvars, tvars, world
  <1>7. ASSUME NEW r \in Req, ChildAsks(r)
       PROVE  OrderShape(q)'
    <2>1. /\ child' = [child EXCEPT ![r] = "asked"] /\ child[r] = "alive" /\ op[r].orders
          /\ orders' = [orders EXCEPT ![r] = orders[r] + 1]
          /\ UNCHANGED <<effects, performed, mutating>>
      BY <1>7 DEF ChildAsks, pvars
    <2>2. CASE q = r
      <3>1. performed[q] /\ mutating[q]
        BY <1>1, <1>2, <2>1, <2>2 DEF CallShape, ChildShape, Alive
      <3>2. orders'[q] = 1 /\ effects'[q] = 0 /\ child'[q] = "asked"
        BY <1>1, <1>2, <2>1, <2>2 DEF OrderShape
      <3>3. QED BY <2>1, <3>1, <3>2 DEF OrderShape
    <2>3. CASE q # r
      BY <1>1, <1>2, <2>1, <2>3 DEF OrderShape
    <2>4. QED BY <2>2, <2>3
  <1>8. ASSUME NEW r \in Req, ChildExits(r)
       PROVE  OrderShape(q)'
    BY <1>1, <1>2, <1>8 DEF CallShape, ChildShape, OrderShape, Alive, ChildExits, pvars,
       tvars, world
  <1>9. ASSUME NEW r \in Req, ProviderPerforms(r)
       PROVE  OrderShape(q)'
    <2>1. /\ orders[r] > 0 /\ orders' = [orders EXCEPT ![r] = orders[r] - 1]
          /\ effects' = [effects EXCEPT ![r] = effects[r] + 1]
          /\ UNCHANGED <<child, performed, mutating>>
      BY <1>9 DEF ProviderPerforms, pvars, bodyvars
    <2>2. CASE q = r
      <3>1. child[q] \notin {"none", "alive"}
        BY <1>1, <1>2, <2>1, <2>2 DEF OrderShape
      <3>2. orders'[q] + effects'[q] = orders[q] + effects[q]
        BY <1>1, <2>1, <2>2
      <3>3. QED BY <1>2, <2>1, <3>1, <3>2 DEF OrderShape
    <2>3. CASE q # r
      BY <1>1, <1>2, <2>1, <2>3 DEF OrderShape
    <2>4. QED BY <2>2, <2>3
  <1>10. CASE UNCHANGED <<child, orders, effects, performed, mutating>>
    BY <1>2, <1>10 DEF OrderShape, Alive
  <1>11. QED
    BY <1>3, <1>4, <1>5, <1>6, <1>7, <1>8, <1>9, <1>10, StepCases, ZenonT(60) DEF Approve, Spend,
       tvars, bodyvars, world, Refuse, Leave, Collect, Raise, pvars, Finish, Trace,
       OpenScope, CloseScope, Reinstall, vars

\* A result is made of what an exited child printed.
LEMMA ResultKept ==
  ASSUME CommandsInv, [Next]_vars, NEW q \in Req
  PROVE  ResultShape(q)'
  <1>1. /\ op \in [Req -> Operation \cup {None}]
        /\ performed \in [Req -> BOOLEAN]
        /\ body \in [Req -> {"none", "ready", "waiting", "over"}]
        /\ child \in [Req -> {"none", "alive", "asked", "exited", "killed"}]
        /\ output \in [Req -> Unusable \cup {"none", "text", "object"}]
        /\ line \in [Req -> Reply \cup {None}]
        /\ result \in [Req -> ResultType \cup {None}]
    BY DEF CommandsInv, TypeOK, GateTypeOK, ScopeTypeOK, BodyTypeOK, WorldTypeOK
  <1>2. CallShape(q) /\ ChildShape(q) /\ ResultShape(q)
    BY DEF CommandsInv, Shape
  <1>3. ASSUME NEW r \in Req, NEW o \in Operation, Call(r, o)
       PROVE  ResultShape(q)'
    BY <1>1, <1>2, <1>3 DEF CallShape, ChildShape, ResultShape, Alive, Unusable, Call,
       Enter, TurnAway, tvars, world
  <1>4. ASSUME NEW r \in Req, Begin(r)
       PROVE  ResultShape(q)'
    BY <1>1, <1>2, <1>4 DEF CallShape, ChildShape, ResultShape, Alive, Unusable, Begin,
       Perform, Raise, tvars, world
  <1>5. ASSUME NEW r \in Req, Launch(r)
       PROVE  ResultShape(q)'
    BY <1>1, <1>2, <1>5 DEF CallShape, ChildShape, ResultShape, Alive, Unusable, Launch,
       Raise, pvars, tvars, world
  <1>6. ASSUME NEW r \in Req, Expire(r)
       PROVE  ResultShape(q)'
    BY <1>1, <1>2, <1>6 DEF CallShape, ChildShape, ResultShape, Alive, Unusable, Expire,
       Kill, Raise, pvars, tvars, world
  <1>7. ASSUME NEW r \in Req, Collect(r)
       PROVE  ResultShape(q)'
    <2>1. /\ body[r] = "waiting" /\ child[r] = "exited" /\ body' = [body EXCEPT ![r] = "over"]
          /\ UNCHANGED <<child, op, output, line>>
      BY <1>7 DEF Collect, Raise
    <2>2. \/ UNCHANGED result
          \/ /\ output[r] \notin Unusable /\ op[r].program = "gateway"
             /\ result' = [result EXCEPT ![r] = Interpret(line[r])]
      BY <1>7 DEF Collect
    <2>3. CASE q = r
      BY <1>1, <1>2, <2>1, <2>2, <2>3 DEF ResultShape
    <2>4. CASE q # r
      BY <1>1, <1>2, <2>1, <2>2, <2>4 DEF ResultShape
    <2>5. QED BY <2>3, <2>4
  <1>8. ASSUME NEW r \in Req, ChildAsks(r)
       PROVE  ResultShape(q)'
    BY <1>1, <1>2, <1>8 DEF CallShape, ChildShape, ResultShape, Alive, Unusable, ChildAsks,
       pvars, tvars
  <1>9. ASSUME NEW r \in Req, ChildExits(r)
       PROVE  ResultShape(q)'
    BY <1>1, <1>2, <1>9 DEF CallShape, ChildShape, ResultShape, Alive, Unusable,
       ChildExits, pvars, tvars, world
  <1>10. CASE UNCHANGED <<body, child, op, output, line, result>>
    BY <1>2, <1>10 DEF ResultShape, Alive, Unusable
  <1>11. QED
    BY <1>3, <1>4, <1>5, <1>6, <1>7, <1>8, <1>9, <1>10, StepCases, ZenonT(60) DEF Approve, Spend,
       tvars, bodyvars, world, Refuse, Leave, Finish, ProviderPerforms, pvars, Trace,
       OpenScope, CloseScope, Reinstall, vars

\* The scopes that are open are closed in the order they were opened.
LEMMA ScopeKept ==
  ASSUME CommandsInv, [Next]_vars, NEW q \in Req
  PROVE  ScopeShape(q)'
  <1>1. /\ phase \in [Req -> {"out", "in", "done"}]
        /\ body \in [Req -> {"none", "ready", "waiting", "over"}]
        /\ child \in [Req -> {"none", "alive", "asked", "exited", "killed"}]
        /\ sent \in [Req -> Id \cup {NoId}] /\ current \in [Req -> Id \cup {NoId}]
        /\ frames \in [Req -> Seq(Frame)]
    BY DEF CommandsInv, TypeOK, GateTypeOK, ScopeTypeOK, BodyTypeOK, WorldTypeOK
  <1>2. CallShape(q) /\ ChildShape(q) /\ ScopeShape(q)
    BY DEF CommandsInv, Shape
  <1>3. ASSUME NEW r \in Req, NEW o \in Operation, Call(r, o)
       PROVE  ScopeShape(q)'
    <2>1. UNCHANGED <<child, sent, current, frames>>
      BY <1>3 DEF Call, tvars
    <2>2. CASE q = r
      <3>1. child[q] = "none"
        BY <1>2, <1>3, <2>2 DEF CallShape, ChildShape, Call, Enter, TurnAway
      <3>2. QED BY <1>2, <2>1, <3>1 DEF ScopeShape, Innermost, Top
    <2>3. CASE q # r
      <3>1. op'[q] = op[q] /\ phase'[q] = phase[q]
        BY <1>1, <1>3, <2>3 DEF Call, Enter, TurnAway
      <3>2. QED BY <1>2, <2>1, <3>1 DEF ScopeShape, Innermost, Top
    <2>4. QED BY <2>2, <2>3
  <1>4. ASSUME NEW r \in Req, Refuse(r)
       PROVE  ScopeShape(q)'
    BY <1>1, <1>2, <1>4 DEF CallShape, ChildShape, ScopeShape, Alive, Innermost, Top,
       Refuse, Leave, tvars, bodyvars, world
  <1>5. ASSUME NEW r \in Req, Launch(r)
       PROVE  ScopeShape(q)'
    BY <1>1, <1>2, <1>5 DEF CallShape, ChildShape, ScopeShape, Alive, Innermost, Top,
       Launch, Raise, pvars, tvars, world
  <1>6. ASSUME NEW r \in Req, Expire(r)
       PROVE  ScopeShape(q)'
    BY <1>1, <1>2, <1>6 DEF CallShape, ChildShape, ScopeShape, Alive, Innermost, Top,
       Expire, Kill, Raise, pvars, tvars, world
  <1>7. ASSUME NEW r \in Req, Finish(r)
       PROVE  ScopeShape(q)'
    BY <1>1, <1>2, <1>7 DEF CallShape, ChildShape, ScopeShape, Alive, Innermost, Top,
       Finish, Leave, tvars, bodyvars, world
  <1>8. ASSUME NEW r \in Req, ChildAsks(r)
       PROVE  ScopeShape(q)'
    BY <1>1, <1>2, <1>8 DEF CallShape, ChildShape, ScopeShape, Alive, Innermost, Top,
       ChildAsks, pvars, tvars
  <1>9. ASSUME NEW r \in Req, ChildExits(r)
       PROVE  ScopeShape(q)'
    BY <1>1, <1>2, <1>9 DEF CallShape, ChildShape, ScopeShape, Alive, Innermost, Top,
       ChildExits, pvars, tvars, world
  <1>10. ASSUME NEW r \in Req, Trace(r)
       PROVE  ScopeShape(q)'
    <2>1. UNCHANGED <<phase, child, op, sent>>
      BY <1>10 DEF Trace, pvars, bodyvars
    <2>2. Req = Thread /\ frames[q] \in Seq(Frame)
      BY <1>1, CommandsAssumption DEF CommandsAssumption
    <2>3. CASE q # r
      <3>1. frames'[q] = frames[q] /\ current'[q] = current[q]
        BY <1>1, <1>10, <2>3 DEF Trace, OpenScope, CloseScope
      <3>2. QED BY <1>2, <2>1, <3>1 DEF ScopeShape, Innermost, Top
    <2>4. ASSUME q = r, phase[r] = "out", NEW id \in Id, OpenScope(r, id)
          PROVE  ScopeShape(q)'
      <3> DEFINE f == [id |-> id, before |-> current[q]]
      <3>1. frames'[q] = Append(frames[q], f) /\ current'[q] = id
        BY <1>1, <2>4 DEF OpenScope
      <3>2. f \in Frame
        BY <1>1 DEF Frame
      <3>3. Innermost(q)' = id
        BY <2>2, <3>1, <3>2 DEF Innermost, Top
      <3>4. ASSUME NEW i \in 1..Len(frames'[q])
            PROVE  frames'[q][i].before = IF i = 1 THEN NoId ELSE frames'[q][i - 1].id
        <4>1. CASE i = Len(frames[q]) + 1
          <5>1. frames'[q][i] = f
            BY <2>2, <3>1, <3>2, <4>1
          <5>2. CASE frames[q] = <<>>
            BY <1>2, <4>1, <5>1, <5>2 DEF ScopeShape, Innermost
          <5>3. CASE frames[q] # <<>>
            <6>1. i # 1 /\ frames'[q][i - 1] = Top(q)
              BY <2>2, <3>1, <3>2, <4>1, <5>3 DEF Top
            <6>2. QED BY <1>2, <5>1, <5>3, <6>1 DEF ScopeShape, Innermost
          <5>4. QED BY <5>2, <5>3
        <4>2. CASE i \in 1..Len(frames[q])
          <5>1. frames'[q][i] = frames[q][i] /\ (i # 1 => frames'[q][i - 1] = frames[q][i - 1])
            BY <2>2, <3>1, <3>2, <4>2
          <5>2. QED BY <1>2, <4>2, <5>1 DEF ScopeShape
        <4>3. QED BY <2>2, <3>1, <3>2, <3>4, <4>1, <4>2
      <3>5. phase'[q] # "in"
        BY <2>1, <2>4
      <3>6. QED BY <3>1, <3>3, <3>4, <3>5 DEF ScopeShape
    <2>5. ASSUME q = r, phase[r] # "in", CloseScope(r)
          PROVE  ScopeShape(q)'
      <3> DEFINE n == Len(frames[q])
      <3>1. /\ frames[q] # <<>> /\ frames'[q] = SubSeq(frames[q], 1, n - 1)
            /\ current'[q] = frames[q][n].before
        BY <1>1, <2>5 DEF CloseScope, Reset, Top
      <3>2. n \in Nat /\ n > 0 /\ Len(frames'[q]) = n - 1
            /\ \A i \in 1..(n - 1) : frames'[q][i] = frames[q][i]
        BY <2>2, <3>1
      <3>2a. \A i \in 1..n : frames[q][i].before = IF i = 1 THEN NoId ELSE frames[q][i - 1].id
        BY <1>2 DEF ScopeShape
      <3> HIDE DEF n
      <3>3. current'[q] = IF n = 1 THEN NoId ELSE frames[q][n - 1].id
        <4>1. n \in 1..n
          BY <3>2
        <4>2. QED BY <3>1, <3>2a, <4>1
      <3>4. current'[q] = Innermost(q)'
        <4>1. CASE n = 1
          <5>1. frames'[q] = <<>>
            BY <2>2, <3>1, <3>2, <4>1
          <5>2. QED BY <3>3, <4>1, <5>1 DEF Innermost
        <4>2. CASE n # 1
          <5>1. n - 1 \in 1..(n - 1)
            BY <3>2, <4>2
          <5>2. frames'[q][Len(frames'[q])] = frames[q][n - 1]
            BY <3>2, <5>1
          <5>3. frames'[q] # <<>>
            BY <3>2, <4>2
          <5>4. QED BY <3>3, <4>2, <5>2, <5>3 DEF Innermost, Top
        <4>3. QED BY <4>1, <4>2
      <3>5. ASSUME NEW i \in 1..(n - 1)
            PROVE  frames'[q][i].before = IF i = 1 THEN NoId ELSE frames'[q][i - 1].id
        <4>1. i \in 1..n /\ (i # 1 => i - 1 \in 1..(n - 1))
          BY <3>2, <3>5
        <4>2. frames'[q][i] = frames[q][i] /\ (i # 1 => frames'[q][i - 1] = frames[q][i - 1])
          BY <3>2, <3>5, <4>1
        <4>3. QED BY <3>2a, <4>1, <4>2
      <3>6. phase'[q] # "in"
        BY <2>1, <2>5
      <3>7. QED BY <3>2, <3>4, <3>5, <3>6 DEF ScopeShape
    <2>6. QED BY <1>10, <2>3, <2>4, <2>5 DEF Trace
  <1>11. CASE UNCHANGED <<phase, child, op, sent, current, frames>>
    BY <1>2, <1>11 DEF ScopeShape, Alive, Innermost, Top
  <1>12. QED
    BY <1>3, <1>4, <1>5, <1>6, <1>7, <1>8, <1>9, <1>10, <1>11, StepCases, ZenonT(60) DEF Approve,
       Spend, tvars, bodyvars, world, Begin, Perform, Raise, Collect, pvars,
       ProviderPerforms, Reinstall, vars

\* The types of the scopes.
LEMMA ScopeTypeKept ==
  ASSUME CommandsInv, [Next]_vars
  PROVE  ScopeTypeOK'
  <1>1. ScopeTypeOK
    BY DEF CommandsInv, TypeOK
  <1>2. ASSUME NEW r \in Req, Trace(r)
       PROVE  ScopeTypeOK'
    <2>1. Req = Thread /\ (\A q \in Req : MaxScopes[q] \in Nat) /\ frames[r] \in Seq(Frame)
      BY <1>1, CommandsAssumption, TracingAssumption
      DEF ScopeTypeOK, CommandsAssumption, TracingAssumption
    <2>2. ASSUME NEW id \in Id, OpenScope(r, id)
          PROVE  ScopeTypeOK'
      <3>1. [id |-> id, before |-> current[r]] \in Frame
        BY <1>1 DEF ScopeTypeOK, Frame
      <3>2. frames' \in [Req -> Seq(Frame)] /\ current' \in [Req -> Id \cup {NoId}]
        BY <1>1, <2>2, <3>1 DEF ScopeTypeOK, OpenScope
      <3>3. opened' = [opened EXCEPT ![r] = opened[r] + 1] /\ opened[r] < MaxScopes[r]
        BY <2>2 DEF OpenScope
      <3>4. opened' \in [Req -> Nat] /\ \A q \in Req : opened'[q] <= MaxScopes[q]
        BY <1>1, <2>1, <3>3 DEF ScopeTypeOK
      <3>5. QED BY <3>2, <3>4 DEF ScopeTypeOK
    <2>3. ASSUME CloseScope(r)
          PROVE  ScopeTypeOK'
      <3>1. Len(frames[r]) \in 1..Len(frames[r]) /\ Top(r) \in Frame
        BY <2>1, <2>3 DEF CloseScope, Top
      <3>2. SubSeq(frames[r], 1, Len(frames[r]) - 1) \in Seq(Frame)
        BY <2>1, <3>1
      <3>3. Reset(Top(r)) \in Id \cup {NoId}
        BY <3>1 DEF Reset, Frame
      <3>4. QED BY <1>1, <2>3, <3>2, <3>3 DEF ScopeTypeOK, CloseScope
    <2>4. QED BY <1>2, <2>2, <2>3 DEF Trace
  <1>3. CASE UNCHANGED <<current, frames, opened>>
    BY <1>1, <1>3 DEF ScopeTypeOK
  <1>4. QED
    BY <1>2, <1>3, StepCases, ZenonT(60) DEF Call, Enter, TurnAway, tvars, world, Approve, Spend,
       bodyvars, Refuse, Leave, Begin, Perform, Raise, Launch, pvars, Expire, Kill,
       Collect, Finish, ChildAsks, ChildExits, ProviderPerforms, Reinstall, vars

\* The types of a body and its child.
LEMMA BodyTypeKept ==
  ASSUME CommandsInv, [Next]_vars
  PROVE  BodyTypeOK'
  <1>1. BodyTypeOK
    BY DEF CommandsInv, TypeOK
  <1>2. ASSUME NEW r \in Req, NEW o \in Operation, Call(r, o)
       PROVE  BodyTypeOK'
    BY <1>1, <1>2 DEF BodyTypeOK, Call, Enter, TurnAway, tvars, world, Why, Unusable
  <1>3. ASSUME NEW r \in Req, Begin(r)
       PROVE  BodyTypeOK'
    BY <1>1, <1>3 DEF BodyTypeOK, Begin, Perform, Raise, tvars, world, Why, Unusable
  <1>4. ASSUME NEW r \in Req, Launch(r)
       PROVE  BodyTypeOK'
    <2>1. /\ sent' = sent \/ sent' = [sent EXCEPT ![r] = current[r]]
          /\ child' = child \/ child' = [child EXCEPT ![r] = "alive"]
          /\ body' \in {[body EXCEPT ![r] = "over"], [body EXCEPT ![r] = "waiting"]}
          /\ failure' \in {failure, [failure EXCEPT ![r] = "missing"], [failure EXCEPT ![r] = "denied"]}
          /\ UNCHANGED <<op, output, line, result>>
      BY <1>4 DEF Launch, Raise
    <2>2. current[r] \in Id \cup {NoId}
      BY DEF CommandsInv, TypeOK, ScopeTypeOK
    <2>3. /\ sent' \in [Req -> Id \cup {NoId}] /\ failure' \in [Req -> Why]
      BY <1>1, <2>1, <2>2 DEF BodyTypeOK, Why
    <2>4. /\ child' \in [Req -> {"none", "alive", "asked", "exited", "killed"}]
          /\ body' \in [Req -> {"none", "ready", "waiting", "over"}]
      BY <1>1, <2>1 DEF BodyTypeOK
    <2>5. QED BY <1>1, <2>1, <2>3, <2>4 DEF BodyTypeOK
  <1>5. ASSUME NEW r \in Req, Expire(r)
       PROVE  BodyTypeOK'
    BY <1>1, <1>5 DEF BodyTypeOK, Expire, Kill, Raise, pvars, tvars, world, Why, Unusable
  <1>6. ASSUME NEW r \in Req, Collect(r)
       PROVE  BodyTypeOK'
    <2>1. /\ body' = [body EXCEPT ![r] = "over"]
          /\ failure' = failure \/ (output[r] \in Unusable /\ failure' = [failure EXCEPT ![r] = output[r]])
          /\ UNCHANGED <<op, child, output, line, sent>>
      BY <1>6 DEF Collect, Raise
    <2>2. \/ UNCHANGED result
          \/ /\ output[r] \notin Unusable /\ op[r].program = "gateway" /\ child[r] = "exited"
             /\ result' = [result EXCEPT ![r] = Interpret(line[r])]
      BY <1>6 DEF Collect
    <2>3. result' \in [Req -> ResultType \cup {None}]
      <3>1. CASE UNCHANGED result
        BY <1>1, <3>1 DEF BodyTypeOK
      <3>2. CASE ~ UNCHANGED result
        <4>1. line[r] \in Reply
          BY <2>2, <3>2 DEF CommandsInv, Shape, ResultShape
        <4>2. Interpret(line[r]) \in ResultType
          BY <4>1, InterpretType
        <4>3. QED BY <1>1, <2>2, <3>2, <4>2 DEF BodyTypeOK
      <3>3. QED BY <3>1, <3>2
    <2>4. body' \in [Req -> {"none", "ready", "waiting", "over"}] /\ failure' \in [Req -> Why]
      BY <1>1, <2>1 DEF BodyTypeOK, Why
    <2>5. QED BY <1>1, <2>1, <2>3, <2>4 DEF BodyTypeOK
  <1>7. ASSUME NEW r \in Req, ChildAsks(r)
       PROVE  BodyTypeOK'
    BY <1>1, <1>7 DEF BodyTypeOK, ChildAsks, pvars, tvars, Why, Unusable
  <1>8. ASSUME NEW r \in Req, ChildExits(r)
       PROVE  BodyTypeOK'
    <2>1. /\ child' = [child EXCEPT ![r] = "exited"]
          /\ UNCHANGED <<op, body, sent, failure, result>>
      BY <1>8 DEF ChildExits
    <2>2. line' \in [Req -> Reply \cup {None}]
      BY <1>1, <1>8 DEF BodyTypeOK, ChildExits
    <2>3. output' \in [Req -> Unusable \cup {"none", "text", "object"}]
      BY <1>1, <1>8 DEF BodyTypeOK, ChildExits, Unusable
    <2>4. QED BY <1>1, <2>1, <2>2, <2>3 DEF BodyTypeOK
  <1>9. CASE UNCHANGED <<op, body, child, output, line, sent, failure, result>>
    BY <1>1, <1>9 DEF BodyTypeOK
  <1>10. QED
    BY <1>2, <1>3, <1>4, <1>5, <1>6, <1>7, <1>8, <1>9, StepCases, ZenonT(60) DEF Approve, Spend, tvars,
       bodyvars, world, Refuse, Leave, Finish, ProviderPerforms, pvars, Trace, OpenScope,
       CloseScope, Reinstall, vars

\* The types of the programs and of what the provider was asked.
LEMMA WorldTypeKept ==
  ASSUME CommandsInv, [Next]_vars
  PROVE  WorldTypeOK'
  <1>1. WorldTypeOK
    BY DEF CommandsInv, TypeOK
  <1>2. ASSUME NEW r \in Req, ChildAsks(r)
       PROVE  WorldTypeOK'
    BY <1>1, <1>2 DEF WorldTypeOK, ChildAsks, pvars, tvars
  <1>3. ASSUME NEW r \in Req, ProviderPerforms(r)
       PROVE  WorldTypeOK'
    BY <1>1, <1>3 DEF WorldTypeOK, ProviderPerforms, pvars, tvars, bodyvars
  <1>4. ASSUME NEW p \in Program, Reinstall(p)
       PROVE  WorldTypeOK'
    <2>1. MaxChanges \in Nat
      BY CommandsAssumption DEF CommandsAssumption
    <2>2. QED BY <1>1, <1>4, <2>1 DEF WorldTypeOK, Reinstall
  <1>5. CASE UNCHANGED <<present, changes, orders, effects>>
    BY <1>1, <1>5 DEF WorldTypeOK
  <1>6. QED
    BY <1>2, <1>3, <1>4, <1>5, StepCases, ZenonT(60) DEF Call, Enter, TurnAway, tvars, world, Approve,
       Spend, bodyvars, Refuse, Leave, Begin, Perform, Raise, Launch, pvars, Expire, Kill,
       Collect, Finish, ChildExits, Trace, OpenScope, CloseScope, vars

\* The invariant is kept by every step.
LEMMA InvKept ==
  ASSUME CommandsInv, [Next]_vars
  PROVE  CommandsInv'
  <1>1. PromiseInv' /\ GateTypeOK' /\ ScopeTypeOK' /\ BodyTypeOK' /\ WorldTypeOK'
    BY PromiseSeen, PromiseKept, ScopeTypeKept, BodyTypeKept, WorldTypeKept
    DEF CommandsInv, PromiseInv
  <1>2. \A q \in Req : CallShape(q)'
    BY CallKept
  <1>3. \A q \in Req : ChildShape(q)'
    BY ChildKept
  <1>4. \A q \in Req : OrderShape(q)' /\ ResultShape(q)' /\ ScopeShape(q)'
    BY OrderKept, ResultKept, ScopeKept
  <1>5. ASSUME NEW q \in Req, failure'[q] # ""
        PROVE  ErrorOf(op'[q].program, failure'[q]) \in ErrorClass
    <2>1. op'[q] \in Operation
      BY <1>1, <1>2, <1>3, <1>5 DEF CallShape, ChildShape, GateTypeOK, BodyTypeOK
    <2>2. failure'[q] \in Why \ {""}
      BY <1>1, <1>5 DEF BodyTypeOK
    <2>3. QED BY <2>1, <2>2, ErrorOfType
  <1>6. TypeOK'
    BY <1>1, <1>5 DEF TypeOK
  <1>7. QED BY <1>1, <1>2, <1>3, <1>4, <1>6 DEF CommandsInv, Shape

THEOREM CommandsInvariant == Spec => []CommandsInv
  <1>1. Init => CommandsInv
    BY InitInv
  <1>2. CommandsInv /\ [Next]_vars => CommandsInv'
    BY InvKept
  <1>3. QED BY <1>1, <1>2, PTL DEF Spec

-------------------------------------------------------------------------------
\* The calls that run commands are calls of a gate that keeps its promise, and
\* their bodies, children and scopes break nothing of it.
THEOREM CommandsKeepPromise == Spec => Promise
  <1>1. Init => PromiseInit
    BY DEF Init
  <1>2. QED BY <1>1, PromiseSeen, PTL DEF Spec, Promise

\* Every variable has the values the code can give it, and what a body raises is
\* of a class the gate knows (OperationsAdapter._invoke, RunflareCLI._run).
THEOREM TypeCorrect == Spec => []TypeOK
  <1>1. CommandsInv => TypeOK
    BY DEF CommandsInv
  <1>2. QED BY <1>1, CommandsInvariant, PTL

\* The provider is asked for at most one change per call, in a call that was
\* granted it, whatever timed out (RunflareCLI._run under wrap_tool).
THEOREM EveryOrderIsGranted == Spec => []OneOrderPerGrant
  <1>1. CommandsInv => OneOrderPerGrant
    <2> SUFFICES ASSUME CommandsInv PROVE OneOrderPerGrant
      OBVIOUS
    <2>1. ASSUME NEW r \in Req PROVE orders[r] + effects[r] <= 1
      BY DEF CommandsInv, Shape, OrderShape
    <2>2. ASSUME Guarded, NEW r \in Req, orders[r] + effects[r] > 0
          PROVE  permission[r] # None
      BY <2>2 DEF CommandsInv, Shape, OrderShape, CallShape
    <2>3. ASSUME NEW r \in Req, NEW s \in Req, r # s,
                 permission[r] # None, permission[r].exclusive
          PROVE  ~ Holds(s, permission[r].token)
      BY <2>3 DEF CommandsInv, PromiseInv, GrantShape
    <2>4. QED BY <2>1, <2>2, <2>3 DEF OneOrderPerGrant
  <1>2. QED BY <1>1, CommandsInvariant, PTL

\* A call that was refused, or whose failure says that nothing was started, has
\* changed nothing and never will (RunflareCLI._run, OperationsAdapter._invoke).
THEOREM FailuresAreHonest == Spec => []FailureIsHonest
  <1>1. CommandsInv => FailureIsHonest
    <2> SUFFICES ASSUME CommandsInv, NEW r \in Req
                 PROVE  /\ reply[r] = "refused" \/ failure[r] \in {"invalid", "missing", "denied"} =>
                             child[r] = "none" /\ orders[r] + effects[r] = 0
                        /\ child[r] = "killed" => failure[r] = "expired"
      BY DEF FailureIsHonest
    <2>1. CallShape(r) /\ ChildShape(r) /\ OrderShape(r)
      BY DEF CommandsInv, Shape
    <2>2. ASSUME reply[r] = "refused" \/ failure[r] \in {"invalid", "missing", "denied"}
          PROVE  child[r] = "none"
      <3>1. CASE reply[r] = "refused"
        <4>1. ~ performed[r]
          BY <2>1, <3>1 DEF CallShape
        <4>2. body[r] = "none"
          BY <2>1, <4>1 DEF CallShape
        <4>3. QED BY <2>1, <4>2 DEF ChildShape
      <3>2. QED BY <2>1, <2>2, <3>1 DEF ChildShape
    <2>3. child[r] = "none" => orders[r] + effects[r] = 0
      BY <2>1 DEF OrderShape
    <2>4. child[r] = "killed" => failure[r] = "expired"
      BY <2>1 DEF ChildShape
    <2>5. QED BY <2>2, <2>3, <2>4
  <1>2. QED BY <1>1, CommandsInvariant, PTL

\* No child outlives the call that started it, and no more of them run than the
\* gate lets calls in (subprocess.run under wrap_tool).
THEOREM ChildrenAreBounded == Spec => []ChildrenBounded
  <1>1. CommandsInv => ChildrenBounded
    <2> SUFFICES ASSUME CommandsInv PROVE ChildrenBounded
      OBVIOUS
    <2> DEFINE living == {r \in Req : Alive(r)}
    <2>1. ASSUME NEW r \in Req, Alive(r) PROVE phase[r] = "in"
      <3>1. body[r] = "waiting"
        BY <2>1 DEF CommandsInv, Shape, ChildShape
      <3>2. phase[r] # "done" /\ performed[r]
        BY <3>1 DEF CommandsInv, Shape, CallShape
      <3>3. phase[r] # "out"
        BY <3>2 DEF CommandsInv, Shape, CallShape
      <3>4. QED BY <3>2, <3>3 DEF CommandsInv, TypeOK, GateTypeOK
    <2>2. living \subseteq In
      BY <2>1 DEF In
    <2>3. IsFiniteSet(In) /\ Limit \in Nat
      BY FS_Subset, CommandsAssumption DEF In, CommandsAssumption
    <2>4. Cardinality(living) <= Cardinality(In)
          /\ Cardinality(living) \in Nat /\ Cardinality(In) \in Nat
      BY <2>2, <2>3, FS_Subset, FS_CardinalityType
    <2>5. Cardinality(living) <= Limit
      BY <2>3, <2>4 DEF CommandsInv, PromiseInv, Room
    <2>6. QED BY <2>1, <2>5 DEF ChildrenBounded
  <1>2. QED BY <1>1, CommandsInvariant, PTL

\* An order placed by a child is the affair of a call that is not answered yet:
\* after the answer no child of it is started, and nothing new is asked for; what
\* is left is what the provider has been asked already (subprocess.run).
NothingNewAfterTheAnswer ==
  \A r \in Req : phase[r] = "done" =>
    /\ UNCHANGED <<child[r], performed[r], permission[r], reply[r]>>
    /\ orders'[r] + effects'[r] = orders[r] + effects[r]

LEMMA QuietAfterTheAnswer == CommandsInv /\ [Next]_vars => NothingNewAfterTheAnswer
  <1> SUFFICES ASSUME CommandsInv, [Next]_vars, NEW q \in Req, phase[q] = "done"
               PROVE  /\ UNCHANGED <<child[q], performed[q], permission[q], reply[q]>>
                      /\ orders'[q] + effects'[q] = orders[q] + effects[q]
    BY DEF NothingNewAfterTheAnswer
  <1>1. GateTypeOK /\ BodyTypeOK /\ WorldTypeOK
    BY DEF CommandsInv, TypeOK
  <1>2. body[q] \in {"none", "over"} /\ ~Alive(q)
    BY DEF CommandsInv, Shape, CallShape, ChildShape
  <1>3. UNCHANGED <<performed[q], permission[q], reply[q]>>
    BY PromiseSeen, FinalStep DEF CommandsInv, AnswersAreFinal
  <1>4. child'[q] = child[q]
    <2>1. ASSUME NEW r \in Req, Launch(r) \/ Expire(r) PROVE child'[q] = child[q]
      BY <1>1, <1>2, <2>1 DEF Launch, Expire, Kill, BodyTypeOK
    <2>2. ASSUME NEW r \in Req, ChildAsks(r) \/ ChildExits(r) PROVE child'[q] = child[q]
      BY <1>1, <1>2, <2>2 DEF ChildAsks, ChildExits, BodyTypeOK, Alive
    <2>3. QED
      BY <2>1, <2>2, StepCases, ZenonT(60)
      DEF Call, Approve, Refuse, Begin, Collect, Finish, ProviderPerforms, Trace, Reinstall,
          bodyvars, vars
  <1>5. orders'[q] + effects'[q] = orders[q] + effects[q]
    <2>1. ASSUME NEW r \in Req, ChildAsks(r) PROVE orders'[q] + effects'[q] = orders[q] + effects[q]
      BY <1>1, <1>2, <2>1 DEF ChildAsks, Alive, WorldTypeOK
    <2>2. ASSUME NEW r \in Req, ProviderPerforms(r)
          PROVE  orders'[q] + effects'[q] = orders[q] + effects[q]
      BY <1>1, <2>2 DEF ProviderPerforms, WorldTypeOK
    <2>3. CASE UNCHANGED <<orders, effects>>
      BY <2>3
    <2>4. QED
      BY <2>1, <2>2, <2>3, StepCases, ZenonT(60)
      DEF Call, Approve, Refuse, Begin, Launch, Expire, Collect, Finish, ChildExits, Trace,
          Reinstall, world, vars
  <1>6. QED BY <1>3, <1>4, <1>5

\* No command outlives the answer of its call: whatever timed out, nothing is
\* started, asked for, approved or answered again once the client has its answer.
THEOREM NothingAfterTheAnswer == Spec => [][NothingNewAfterTheAnswer]_vars
  BY CommandsInvariant, QuietAfterTheAnswer, PTL DEF Spec

\* The steps a call still has before it at most.
StepsLeft(r) ==
  CASE phase[r] = "done"                            -> 0
    [] phase[r] # "done" /\ body[r] = "over"    -> 1
    [] phase[r] # "done" /\ body[r] = "waiting" -> 2
    [] phase[r] # "done" /\ body[r] = "ready"   -> 3
    [] phase[r] # "done" /\ body[r] = "none"    -> 4

\* Every step of a body brings its answer closer and no other step takes it
\* further away: no child is started twice, no timeout begins anew, and neither
\* the child, the provider, the other calls nor who removes programs can make a
\* body do a step again (RunflareCLI._run, OperationsAdapter._invoke).
ComesCloser(r) ==
  /\ StepsLeft(r)' <= StepsLeft(r)
  /\ BodyStep(r) => StepsLeft(r)' < StepsLeft(r)

LEMMA CloserStep ==
  ASSUME CommandsInv, CommandsInv', [Next]_vars, NEW q \in Req PROVE ComesCloser(q)
  <1>1. GateTypeOK /\ BodyTypeOK /\ GateTypeOK' /\ BodyTypeOK'
    BY DEF CommandsInv, TypeOK
  <1>2. phase[q] = "done" => body[q] \in {"none", "over"} /\ phase'[q] = "done"
    BY PromiseSeen, FinalStep DEF CommandsInv, AnswersAreFinal, Shape, CallShape
  <1>3. CASE phase[q] = "done"
    <2>1. ~BodyStep(q)
      BY <1>2, <1>3 DEF BodyStep, Begin, Perform, Launch, Expire, Collect, Finish, Leave
    <2> QED  BY <1>2, <1>3, <2>1 DEF ComesCloser, StepsLeft
  <1>4. CASE phase[q] # "done" /\ phase'[q] = "done"
    <2>1. body[q] \in {"none", "ready", "waiting", "over"} BY <1>1 DEF BodyTypeOK
    <2> QED  BY <1>4, <2>1 DEF ComesCloser, StepsLeft
  <1>5. CASE phase[q] # "done" /\ phase'[q] # "done"
    <2>1. CASE BodyStep(q)
      <3>1. \/ body[q] = "none" /\ body'[q] \in {"ready", "over"}
            \/ body[q] = "ready" /\ body'[q] \in {"waiting", "over"}
            \/ body[q] = "waiting" /\ body'[q] = "over"
        <4> DEFINE Moved == \/ body[q] = "none" /\ body'[q] \in {"ready", "over"}
                            \/ body[q] = "ready" /\ body'[q] \in {"waiting", "over"}
                            \/ body[q] = "waiting" /\ body'[q] = "over"
        <4> USE DEF Raise, BodyTypeOK
        <4>1. CASE Begin(q) BY <1>1, <4>1 DEF Begin
        <4>2. CASE Launch(q) BY <1>1, <4>2 DEF Launch
        <4>3. CASE Expire(q) BY <1>1, <4>3 DEF Expire
        <4>4. CASE Collect(q)
          <5>1. body'[q] = "over" /\ body[q] = "waiting"
            <6>1. CASE output[q] \in Unusable BY <1>1, <4>4, <6>1 DEF Collect
            <6>2. CASE output[q] \notin Unusable BY <1>1, <4>4, <6>2 DEF Collect
            <6>3. QED BY <6>1, <6>2
          <5>2. QED BY <5>1
        <4>5. ~Finish(q) BY <1>1, <1>5 DEF Finish, Leave, GateTypeOK
        <4>6. QED BY <2>1, <4>1, <4>2, <4>3, <4>4, <4>5 DEF BodyStep
      <3> QED  BY <1>5, <3>1 DEF ComesCloser, StepsLeft
    <2>2. CASE ~BodyStep(q)
      <3>1. body'[q] = body[q]
        <4>1. ASSUME NEW r \in Req, BodyStep(r) PROVE body'[q] = body[q]
          <5>1. r # q BY <2>2, <4>1
          <5> USE DEF Raise, BodyTypeOK
          <5>2. CASE Begin(r)   BY <1>1, <5>1, <5>2 DEF Begin
          <5>3. CASE Launch(r)  BY <1>1, <5>1, <5>3 DEF Launch
          <5>4. CASE Expire(r)  BY <1>1, <5>1, <5>4 DEF Expire
          <5>5. CASE Collect(r) BY <1>1, <5>1, <5>5 DEF Collect
          <5>6. CASE Finish(r)  BY <5>6 DEF Finish, bodyvars
          <5> QED  BY <4>1, <5>2, <5>3, <5>4, <5>5, <5>6 DEF BodyStep
        <4>2. ASSUME NEW r \in Req PROVE BodyStep(r) <=> \/ Begin(r) \/ Launch(r) \/ Expire(r)
                                                         \/ Collect(r) \/ Finish(r)
          BY DEF BodyStep
        <4> QED
          BY <4>1, <4>2, StepCases, ZenonT(60)
          DEF Call, Approve, Refuse, ChildAsks, ChildExits, ProviderPerforms, Trace, Reinstall,
              bodyvars, vars
      <3>2. body[q] \in {"none", "ready", "waiting", "over"} BY <1>1 DEF BodyTypeOK
      <3> QED  BY <1>5, <2>2, <3>1, <3>2 DEF ComesCloser, StepsLeft
    <2> QED  BY <2>1, <2>2
  <1> QED  BY <1>3, <1>4, <1>5

THEOREM CommandsWearOut == Spec => [][\A r \in Req : ComesCloser(r)]_vars
  <1>1. CommandsInv /\ CommandsInv' /\ [Next]_vars => \A r \in Req : ComesCloser(r)
    BY CloserStep
  <1>2. QED BY <1>1, CommandsInvariant, PTL DEF Spec

\* A body that was entered and not answered has a step of its own to take that
\* neither the child, the provider nor another call can keep from it: to start
\* the child or fail at that, to time out, or to answer.
NeverHeldUp ==
  \A r \in Req : performed[r] /\ phase[r] # "done" =>
    /\ phase[r] = "in"
    /\ \/ body[r] = "ready"    \* Launch: the program is there, or it is not
       \/ body[r] = "waiting"  \* Expire
       \/ body[r] = "over"     \* Finish, by Leave(r, "error")
THEOREM NoCommandIsHeldUp == Spec => []NeverHeldUp
  <1>1. CommandsInv => NeverHeldUp
    BY DEF CommandsInv, TypeOK, GateTypeOK, BodyTypeOK, Shape, CallShape, NeverHeldUp
  <1>2. QED BY <1>1, CommandsInvariant, PTL

\* The export to Yasin-Core passes its own validation, whatever is exported.
LEMMA ExportIsValid ==
  ASSUME NEW token
  PROVE  /\ ValidHealth(HealthRecord(token))
         /\ \A pid \in Pid : ValidStatus(StatusRecord(token, pid))
         /\ ValidErrorInfo(ErrorInfo(token))
  <1>1. CoreHealth(token) \in CoreHealthState
    BY DEF CoreHealth, CoreHealthState
  <1>2. CoreStatus(token) \in CoreStatusValue
    BY DEF CoreStatus, CoreStatusValue, Canonical
  <1>3. CoreError(token) \in CoreErrorCode
    BY DEF CoreError, CoreErrorCode
  <1>4. ASSUME NEW pid \in Pid
        PROVE  ValidStatus(StatusRecord(token, pid))
    BY <1>2, <1>4 DEF Pid, ValidStatus, StatusRecord, CoercePid, NoPid
  <1>5. QED BY <1>1, <1>3, <1>4 DEF ValidHealth, HealthRecord, ValidErrorInfo, ErrorInfo

\* What a gateway's answer is reported and exported as was said by it
\* (OperationsAdapter._invoke, compat/core_contracts.py).
THEOREM NothingIsMadeUp == Spec => []NothingMadeUp
  <1>1. CommandsInv => NothingMadeUp
    <2> SUFFICES ASSUME CommandsInv, NEW r \in Req, result[r] # None
                 PROVE  /\ child[r] = "exited" /\ line[r] \in Reply
                        /\ result[r].success => line[r].success = "true"
                        /\ result[r].confirmed => line[r].available # "false"
                        /\ CoreHealth(result[r].status) = "HEALTHY" => line[r].status \in HealthyToken
                        /\ CoreStatus(result[r].status) = "RUNNING" => line[r].status = "running"
      BY ExportIsValid DEF NothingMadeUp
    <2>1. /\ child[r] = "exited" /\ line[r] \in Reply
          /\ result[r] = Interpret(line[r])
      BY DEF CommandsInv, Shape, ResultShape
    <2>2. result[r].status = IF line[r].status = "missing" THEN "unknown" ELSE line[r].status
      BY <2>1 DEF Interpret
    <2>2a. result[r].success => line[r].success = "true"
      <3>1. Interpret(line[r]).success <=> line[r].success = "true"
        BY DEF Interpret
      <3>2. result[r].success = Interpret(line[r]).success
        BY <2>1
      <3>3. QED BY <3>1, <3>2
    <2>2b. result[r].confirmed => line[r].available # "false"
      <3>1. Interpret(line[r]).confirmed <=> line[r].available # "false"
        BY DEF Interpret
      <3>2. result[r].confirmed = Interpret(line[r]).confirmed
        BY <2>1
      <3>3. QED BY <3>1, <3>2
    <2>3. CoreHealth(result[r].status) = "HEALTHY" => line[r].status \in HealthyToken
      BY <2>2 DEF CoreHealth, HealthyToken, UnhealthyToken
    <2>4. CoreStatus(result[r].status) = "RUNNING" => line[r].status = "running"
      BY <2>2 DEF CoreStatus, Canonical
    <2>5. QED BY <2>1, <2>3, <2>4, <2>2a, <2>2b
  <1>2. QED BY <1>1, CommandsInvariant, PTL

\* The gateway is told the id of the innermost scope around its call, and no id
\* outlives its scope (request_scope, _build_request).
THEOREM IdIsTheInnermost == Spec => []SentUnderInnermostId
  <1>1. CommandsInv => SentUnderInnermostId
    BY DEF CommandsInv, Shape, ScopeShape, SentUnderInnermostId, Innermost
  <1>2. QED BY <1>1, CommandsInvariant, PTL

================================================================================
