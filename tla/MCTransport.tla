----------------------------- MODULE MCTransport -----------------------------
(***************************************************************************)
(* Small instances of RemoteTransport: bearers with and without an          *)
(* asserted context, a probe that carries what a request would, and one     *)
(* header of each defect.                                                   *)
(***************************************************************************)
EXTENDS RemoteTransport, TLC

CONSTANTS alice, bob

Agent(a) == [EmptyContext EXCEPT !.agent = a]
Good(a)  == [defect |-> "none", context |-> Agent(a)]
Bad(d)   == [defect |-> d, context |-> EmptyContext]
Ask(k, b, x) == [kind |-> k, bearer |-> b, header |-> x]

TwoClients ==
  {Ask("mcp", b, x) : b \in {None, "right", "wrong"}, x \in {None, Good(alice)}}
  \cup {Ask("mcp", "nonascii", None), Ask("mcp", "no_bearer", None),
        Ask("mcp", "right", Good(bob)), Ask("probe", "right", Good(bob)),
        Ask("mcp", "right", Bad("not_json"))}

Headers == {Ask("mcp", "right", Bad(d)) : d \in UnreadableHeader \cup InvalidMapping}
           \cup {Ask("mcp", "right", Good(alice)), Ask("lifespan", None, None)}

Symmetry == Permutations(Task) \cup Permutations(Handler)
==============================================================================
