---------------------------- MODULE GateRefinement ----------------------------
(***************************************************************************)
(* The gate implements its promise.                                         *)
(***************************************************************************)
EXTENDS GovernanceGate

\* "No answer yet" is no answer, and "no permission" no permission.
RefinementAssumption == None \notin Answer \cup [token : Token, exclusive : BOOLEAN]
ASSUME RefinementAssumption

PhaseOf(r) == CASE pc[r] = "idle" -> "out" [] pc[r] = "answered" -> "done"
                [] OTHER -> "in"

MutatingOf(r) == pc[r] # "idle" /\ Mutation(r)

PermissionOf(r) ==
  IF grantedAt[r] = None THEN None
  ELSE [token |-> token[r], exclusive |-> entries[token[r]].grant.single]

\* What the client may read from its answer; the other codes are shared between
\* refusals and errors of the body (_code_for).
ReplyTo(a) ==
  CASE a = None -> None
    [] a = "OK" -> "done"
    [] a \in {"APPROVAL_REQUIRED", "UNKNOWN_TOOL", "INVALID_CONTEXT",
              "AUTHENTICATION_FAILED"} -> "refused"
    [] OTHER -> "error"
ReplyOf(r) == ReplyTo(answer[r])

P == INSTANCE GatePromise WITH
  Guarded    <- HasStore,
  phase      <- [r \in Req |-> PhaseOf(r)],
  mutating   <- [r \in Req |-> MutatingOf(r)],
  permission <- [r \in Req |-> PermissionOf(r)],
  performed  <- ran,
  reply      <- [r \in Req |-> ReplyOf(r)]

\* Every step of the gate is a step its promise allows, or none the promise can see.
KeepsPromise == P!Promise

-------------------------------------------------------------------------------
(***************************************************************************)
(* The gate uses the approval store as its service: a granted call asked    *)
(* with its token, tool and context, and its answer came with the grant.    *)
(* A refusal leaves the store alone, and the gate keeps no record of it.    *)
(***************************************************************************)
Questions == [token : Token, tool : Tool, by : Context]

GrantTold(r) ==
  IF grantedAt[r] = None THEN None
  ELSE [question |-> [token |-> token[r], tool |-> call[r].tool, by |-> ctx[r]],
        status   |-> "granted"]

G == INSTANCE ApprovalService WITH
  Caller   <- Req,
  Question <- Questions,
  verdict  <- [r \in Req |-> GrantTold(r)]

\* Whatever the gate does to the store, the store allows; and each call is
\* granted once at most.
AsksTheService == G!Service
==============================================================================
