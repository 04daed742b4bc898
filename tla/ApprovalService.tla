---------------------------- MODULE ApprovalService ----------------------------
(***************************************************************************)
(* The approval store as its callers see it: a question is answered and     *)
(* its token consumed in one indivisible step.                              *)
(***************************************************************************)
EXTENDS ApprovalStore

CONSTANTS
  Caller,     \* threads inside validate_and_consume
  Question    \* what they present: the token, the tool, the context of the call

VARIABLE verdict   \* what each caller was told, with its question, or None

service == <<entries, clock, verdict>>

ServiceInit == StoreInit /\ verdict = [c \in Caller |-> None]

Told(q, status) == [question |-> q, status |-> status]

Ask(c, q) ==
  /\ verdict[c] = None
  /\ LET v == Verdict(q.token, q.tool, q.by) IN
     /\ verdict' = [verdict EXCEPT ![c] = Told(q, v)]
     /\ IF v = "granted" THEN Consume(q.token) ELSE UNCHANGED entries
  /\ UNCHANGED clock

ServiceNext ==
  \/ \E c \in Caller, q \in Question : Ask(c, q)
  \/ \E t \in Token, q \in Issuable : Issue(t, q) /\ UNCHANGED verdict
  \/ Tick /\ UNCHANGED verdict

Service == ServiceInit /\ [][ServiceNext]_service
==============================================================================
