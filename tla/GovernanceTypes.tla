--------------------------- MODULE GovernanceTypes ---------------------------
(***************************************************************************)
(* The vocabulary the governance layer shares (governance/types.py and the  *)
(* identity fields of contracts/integration_context.py).                    *)
(***************************************************************************)

CONSTANTS
  Tool,      \* tool names
  Subject,   \* names an agent or a client may assert
  ReqId,     \* request ids a context may carry
  Project,   \* project ids a context may carry
  None       \* Python's None

TypesAssumption == None \notin Tool \cup Subject \cup ReqId \cup Project
ASSUME TypesAssumption

Opt(S) == S \cup {None}

RiskLevel == {"READ_ONLY", "LOW_RISK", "MUTATION", "HIGH_RISK"}
Decision  == {"ALLOW", "DENY", "APPROVAL_REQUIRED"}

\* ApprovalStatus (approval/types.py)
ApprovalStatus == {"granted", "missing", "invalid", "expired", "replayed", "mismatch"}

\* GovernanceContext, reduced to the fields a decision reads; "approval" is the
\* approval_status entry of its extra mapping, which a caller may have asserted.
Context == [agent : Opt(Subject), client : Opt(Subject), request : Opt(ReqId),
            project : Opt(Project), approval : Opt(ApprovalStatus)]
EmptyContext == [agent |-> None, client |-> None, request |-> None,
                 project |-> None, approval |-> None]
==============================================================================
