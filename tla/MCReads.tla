------------------------------- MODULE MCReads -------------------------------
(***************************************************************************)
(* A small instance of UpstreamReads: a repository of three text documents, *)
(* of which 1 and 2 may be the two forms of an ADR's name, 2 and 3 speak of *)
(* architecture in their paths, and all may be the project registry.        *)
(***************************************************************************)
EXTENDS UpstreamReads, TLC

Plain(S)   == [hits : S, kind : {"plain"}]
Other(k)   == [hits |-> 0, kind |-> k]
McMayHold  == 1 :> Plain({0, 1}) \cup {Other("module"), Other("huge")}
              @@ 2 :> Plain({0, 1, 2}) \cup {Other("wide"), Other("broken")}
              @@ 3 :> Plain({0, 1})

Want(op, S) == [op |-> op, paths |-> S, valid |-> TRUE]

DocsRequests ==
  {Want("list", {1, 3}), Want("search", {1, 2, 3}), Want("search", {2, 3}),
   Want("architecture", {2, 3}), Want("get", {1}), Want("adr", {1, 2}), Want("adr", {3}),
   Want("projects", {1, 2}), Want("project", {1, 2, 3}),
   [op |-> "search", paths |-> {1}, valid |-> FALSE]}

AllRequests == DocsRequests \cup {Want("github_item", {}), Want("github_list", {})}
==============================================================================
