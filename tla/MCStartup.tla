------------------------------ MODULE MCStartup ------------------------------
(***************************************************************************)
(* A small instance of ServerStartup: one or two tools of each group, one   *)
(* of them registered and never served, and a host that brings contracts    *)
(* and classifications of its own, some under names create uses.            *)
(***************************************************************************)
EXTENDS ServerStartup

McTool == {"doc", "adr", "issue", "project", "logs", "stop", "health", "mark", "own"}
McDefines == [docs |-> {"doc", "adr"}, github |-> {"issue"}, registry |-> {"project"},
              runflare |-> {"logs", "stop"}, operations |-> {"health"}, governance |-> {"mark"}]
McServed == [McDefines EXCEPT !["runflare"] = {"logs"}]
McRisk == [n \in McTool |-> IF n \in {"mark", "stop"} THEN "MUTATION" ELSE "READ_ONLY"]

Nothing == [n \in McTool |-> None]
McHostRegistry == {Nothing, [Nothing EXCEPT !["own"] = NoRisk], [Nothing EXCEPT !["adr"] = "READ_ONLY"],
                   [Nothing EXCEPT !["health"] = "HIGH_RISK"]}
McHostCatalog == {Nothing, [Nothing EXCEPT !["mark"] = "LOW_RISK", !["own"] = "HIGH_RISK"]}
==============================================================================
