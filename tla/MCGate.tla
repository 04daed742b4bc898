-------------------------------- MODULE MCGate --------------------------------
(***************************************************************************)
(* Small instances of GovernanceGate: one tool of each risk and a name the  *)
(* catalog does not hold; the calls and grants each run needs.              *)
(***************************************************************************)
EXTENDS GateRefinement, TLC

CONSTANTS t1, t2, alice, bob, req1, proj1, empty, blank

McTool == {"read", "mark", "wipe", "ghost"}
McRisk == [read |-> "READ_ONLY", mark |-> "MUTATION", wipe |-> "HIGH_RISK"]

Plain(tool, tok) == [tool |-> tool, token |-> tok, secret |-> None,
                     scopeSecret |-> None, asserted |-> None]
By(c, x)         == [c EXCEPT !.asserted = x]
Keyed(c, s)      == [c EXCEPT !.secret = s]
Scoped(c, s)     == [c EXCEPT !.scopeSecret = s]

Agent(a)       == [EmptyContext EXCEPT !.agent = a]
ClaimsGrant    == [Agent(alice) EXCEPT !.approval = "granted"]
Job(q, p)      == [EmptyContext EXCEPT !.request = q, !.project = p]

GrantOf(tool, ttl, single) ==
  [tool |-> tool, subject |-> None, request |-> None, project |-> None,
   ttl |-> ttl, single |-> single]
ForAgent(g, a) == [g EXCEPT !.subject = a]
ForJob(g, q, p) == [g EXCEPT !.request = q, !.project = p]

\* Grants of a mutation: bound to an agent, to a request, to a request and a
\* project; shared and single-use; one that runs out at once; and one the policy
\* denies all the same.  Calls that meet, miss or leave open each binding, with a
\* token of their own or of the environment, and race for the same one.
GrantCalls == {Plain("mark", t1), Plain("mark", t2), Plain("mark", blank), Plain("mark", None),
               Plain("read", t1), Plain("ghost", None), Plain("wipe", t1),
               By(Plain("mark", None), ClaimsGrant), By(Plain("mark", t1), Agent(alice)),
               By(Plain("mark", t1), Agent(bob)),
               By(Plain("mark", t1), Job(req1, None)), By(Plain("mark", t1), Job(req1, proj1))}
GrantIssuable == {ForJob(GrantOf("mark", 1, TRUE), req1, None),
                  ForJob(GrantOf("mark", 2, TRUE), req1, proj1),
                  ForAgent(GrantOf("mark", 2, TRUE), alice),
                  GrantOf("mark", 2, FALSE), GrantOf("wipe", 2, TRUE)}

\* Authentication: every credential, from every source, with and without an
\* asserted identity.
AuthCalls == {Keyed(By(Plain("mark", t1), x), s) :
                x \in {None, Agent(alice), Agent(bob)}, s \in Opt(Secret)}
             \cup {Scoped(Keyed(Plain("mark", t1), k), s) : k \in {None, "wrong"}, s \in Secret}
AuthIssuable == {GrantOf("mark", 1, TRUE)}

\* The promise: failing bodies and a failing auditor, approval presented by the
\* call and by the environment, one permit for two callers.
PromiseCalls == {Plain("mark", t1), Plain("mark", None), Plain("read", None), Plain("wipe", t1),
                 By(Plain("mark", None), ClaimsGrant)}
PromiseIssuable == {GrantOf("mark", 1, TRUE), GrantOf("mark", 2, FALSE), GrantOf("wipe", 2, TRUE)}
FaultErrors == {Error("raw", ""), Error("rate_limited", ""), Error("unauthenticated", "")}

\* A gate without a store, as a library user may build it.
StorelessCalls == {Plain("mark", t1), Plain("mark", None), Plain("mark", blank), Plain("read", t1),
                   By(Plain("mark", t1), ClaimsGrant), By(Plain("mark", None), ClaimsGrant),
                   By(Plain("mark", empty), ClaimsGrant), By(Plain("mark", blank), ClaimsGrant),
                   Plain("ghost", None)}

ReqSymmetry == Permutations(Req)
==============================================================================
