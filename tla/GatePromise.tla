------------------------------ MODULE GatePromise ------------------------------
(***************************************************************************)
(* What the governance gate promises, without saying how: never more than   *)
(* Limit calls inside, turned away only when it is full, a mutation         *)
(* performed only on a permission nobody else holds exclusively, and an     *)
(* answer that never calls a performed call refused or a refused one done.  *)
(***************************************************************************)
EXTENDS Naturals, FiniteSets

CONSTANTS
  Req, Token, None, Limit,
  Guarded      \* a mutation takes a permission (an approval store is attached)

VARIABLES
  phase,       \* "out", "in", "done"
  mutating,    \* the call asks for a mutation
  permission,  \* None, or the token a call spent and whether it is exclusive
  performed,   \* the body was entered
  reply        \* None, "done", "refused", or "error" where the client cannot tell

pvars == <<phase, mutating, permission, performed, reply>>

In == {r \in Req : phase[r] = "in"}

PromiseInit ==
  /\ phase = [r \in Req |-> "out"]
  /\ mutating = [r \in Req |-> FALSE]
  /\ permission = [r \in Req |-> None]
  /\ performed = [r \in Req |-> FALSE]
  /\ reply = [r \in Req |-> None]

Enter(r, m) ==
  /\ phase[r] = "out" /\ Cardinality(In) < Limit
  /\ phase' = [phase EXCEPT ![r] = "in"]
  /\ mutating' = [mutating EXCEPT ![r] = m]
  /\ UNCHANGED <<permission, performed, reply>>

TurnAway(r, m) ==
  /\ phase[r] = "out" /\ Cardinality(In) = Limit
  /\ phase' = [phase EXCEPT ![r] = "done"]
  /\ mutating' = [mutating EXCEPT ![r] = m]
  /\ reply' = [reply EXCEPT ![r] = "error"]
  /\ UNCHANGED <<permission, performed>>

Holds(s, t) == permission[s] # None /\ permission[s].token = t

Spend(r, t, exclusive) ==
  /\ phase[r] = "in" /\ ~performed[r] /\ permission[r] = None
  /\ \A s \in Req : Holds(s, t) => ~exclusive /\ ~permission[s].exclusive
  /\ permission' = [permission EXCEPT ![r] = [token |-> t, exclusive |-> exclusive]]
  /\ UNCHANGED <<phase, mutating, performed, reply>>

Perform(r) ==
  /\ phase[r] = "in" /\ ~performed[r]
  /\ Guarded /\ mutating[r] => permission[r] # None
  /\ performed' = [performed EXCEPT ![r] = TRUE]
  /\ UNCHANGED <<phase, mutating, permission, reply>>

Leave(r, a) ==
  /\ phase[r] = "in"
  /\ a = "done" => performed[r]
  /\ a = "refused" => ~performed[r]
  /\ phase' = [phase EXCEPT ![r] = "done"]
  /\ reply' = [reply EXCEPT ![r] = a]
  /\ UNCHANGED <<mutating, permission, performed>>

PromiseNext ==
  \E r \in Req :
    \/ \E m \in BOOLEAN : Enter(r, m) \/ TurnAway(r, m)
    \/ \E t \in Token, x \in BOOLEAN : Spend(r, t, x)
    \/ Perform(r)
    \/ \E a \in {"done", "refused", "error"} : Leave(r, a)

Promise == PromiseInit /\ [][PromiseNext]_pvars
==============================================================================
