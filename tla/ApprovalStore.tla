---------------------------- MODULE ApprovalStore ----------------------------
(***************************************************************************)
(* InMemoryApprovalStore (approval/store.py, approval/types.py): the data   *)
(* of the store, the checks validate_and_consume makes, and its operations  *)
(* as action fragments.  Modules that use the store compose them with the   *)
(* state of the caller; ApprovalThreads justifies taking an operation as    *)
(* one step.                                                                *)
(***************************************************************************)
EXTENDS Naturals, GovernanceTypes

CONSTANTS
  Token,     \* opaque strings token_urlsafe may return
  Empty,     \* a presented ""
  Blank,     \* a presented string of spaces
  Issuable,  \* the arguments an embedding host calls issue with
  MaxClock   \* bound on the clock

IssueArgs == [tool : Tool, subject : Opt(Subject), request : Opt(ReqId),
              project : Opt(Project), ttl : Nat, single : BOOLEAN]
Grant     == [tool : Tool, subject : Opt(Subject), request : Opt(ReqId),
              project : Opt(Project), expires : Nat, single : BOOLEAN]
Entry     == [grant : Grant, consumed : BOOLEAN]

StoreAssumption ==
  /\ Issuable \subseteq IssueArgs
  /\ MaxClock \in Nat
  /\ {None, Empty, Blank} \cap Token = {} /\ None \notin {Empty, Blank} /\ Empty # Blank
  /\ None \notin Entry
ASSUME StoreAssumption

VARIABLES
  entries,   \* _entries: the grant behind each token issued so far, and whether it was consumed
  clock      \* datetime.now(timezone.utc), in units of the shortest ttl

store == <<entries, clock>>

StoreTypeOK ==
  /\ entries \in [Token -> Entry \cup {None}]
  /\ clock \in 0 .. MaxClock

StoreInit ==
  /\ entries = [t \in Token |-> None]
  /\ clock = 0

Tick ==
  /\ clock < MaxClock
  /\ clock' = clock + 1
  /\ UNCHANGED entries

GrantFor_Backdated(q, born) ==   \* seeded fault: the ttl is subtracted
  [tool |-> q.tool, subject |-> q.subject, request |-> q.request, project |-> q.project,
   expires |-> born - q.ttl, single |-> q.single]
GrantFor(q, born) ==
  [tool |-> q.tool, subject |-> q.subject, request |-> q.request, project |-> q.project,
   expires |-> born + q.ttl, single |-> q.single]
NewEntry(g) == [grant |-> g, consumed |-> FALSE]

\* issue: a fresh token, a positive ttl (any other is refused and nothing changes).
\* The expiry counts from the moment the grant is built, before the lock is
\* taken, so an entry may be born with part of its life gone.
Issue(t, q) ==
  /\ entries[t] = None
  /\ q.ttl > 0
  /\ \E born \in 0 .. clock : entries' = [entries EXCEPT ![t] = NewEntry(GrantFor(q, born))]
  /\ UNCHANGED clock

-------------------------------------------------------------------------------
(***************************************************************************)
(* validate_and_consume.  Two operators carry its decision, so that a       *)
(* reader of the entry under the lock (ApprovalThreads) and a caller that   *)
(* sees one atomic step (GovernanceGate) use the same one.                  *)
(***************************************************************************)

\* ApprovalGrant.is_expired
IsExpired(g, now) == now >= g.expires

\* The subject is compared only when both sides name one; the request and the
\* project whenever the grant names one.  "by" is the context of the call.
Mismatch_AnyAgent(g, tool, by) ==  \* seeded fault: an agent-bound grant serves any agent
  \/ g.tool # tool
  \/ g.request # None /\ by.request # g.request
  \/ g.project # None /\ by.project # g.project
Mismatch(g, tool, by) ==
  \/ g.tool # tool
  \/ g.subject # None /\ by.agent # None /\ g.subject # by.agent
  \/ g.request # None /\ by.request # g.request
  \/ g.project # None /\ by.project # g.project

Spent(e) == e.consumed /\ e.grant.single

\* The verdict on an entry read at time now: the first check that fails.
VerdictOnEntry(e, tool, by, now) ==
  CASE e = None                                   -> "invalid"
    [] OTHER ->
       CASE Spent(e)                              -> "replayed"
         [] ~Spent(e) /\ IsExpired(e.grant, now)  -> "expired"
         [] ~Spent(e) /\ ~IsExpired(e.grant, now) ->
              IF Mismatch(e.grant, tool, by) THEN "mismatch" ELSE "granted"

\* What the store takes for no token at all.
NoToken == {None, Empty, Blank}

\* The verdict on a presented token, in the present state of the store.
Verdict(token, tool, by) ==
  IF token \in NoToken THEN "missing"
  ELSE VerdictOnEntry(entries[token], tool, by, clock)

\* The write back of a granted entry.
Consumed_Forgotten(e) == e               \* seeded fault: a grant is never marked
Consumed(e) == IF e.grant.single THEN [e EXCEPT !.consumed = TRUE] ELSE e

Consume_Pops(token) == entries' = [entries EXCEPT ![token] = None]  \* seeded fault: the entry is popped
Consume(token) == entries' = [entries EXCEPT ![token] = Consumed(@)]
==============================================================================
