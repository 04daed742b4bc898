------------------------------- MODULE MCCommands -------------------------------
(***************************************************************************)
(* A small instance of ToolCommands: two calls, one of them inside scopes.  *)
(***************************************************************************)
EXTENDS ToolCommands, TLC

CONSTANTS a, b

McScopes == a :> 0 @@ b :> 2

McOperations ==
  {[program |-> "runflare", orders |-> TRUE, valid |-> TRUE],
   [program |-> "gateway", orders |-> FALSE, valid |-> TRUE],
   [program |-> "gateway", orders |-> FALSE, valid |-> FALSE]}

\* A service that runs, with the flag left out; one that is well, although the
\* request was none of its successes; and one of which little is known.
McReplies ==
  {[success |-> "true", status |-> "running", available |-> "missing"],
   [success |-> "false", status |-> "ok", available |-> "true"],
   [success |-> "missing", status |-> "missing", available |-> "false"]}
================================================================================
