-------------------------------- MODULE Tracing --------------------------------
(***************************************************************************)
(* The request id of a thread (audit/context.py): a context variable that   *)
(* request_scope sets and sets back, which run_traced (audit/traced.py)     *)
(* opens around what it runs.  Scopes are opened by the embedding host; they *)
(* nest, and end when their block returns, raises or exits.                 *)
(***************************************************************************)
EXTENDS Naturals, Sequences

CONSTANTS
  Thread,
  Id,         \* request ids: given by the host, or of new_request_id
  NoId,       \* no request id
  MaxScopes   \* for each thread, the bound of the scopes it opens

TracingAssumption == MaxScopes \in [Thread -> Nat] /\ NoId \notin Id
ASSUME TracingAssumption

VARIABLES
  current,    \* the context variable of each thread
  frames,     \* the scopes open in each thread, the innermost last
  opened      \* how many scopes a thread has opened so far

tvars == <<current, frames, opened>>

\* A scope's own id, and what its token says was there before.
Frame == [id : Id, before : Id \cup {NoId}]

TracingInit ==
  /\ current = [t \in Thread |-> NoId]
  /\ frames = [t \in Thread |-> <<>>]
  /\ opened = [t \in Thread |-> 0]

OpenScope(t, id) ==
  /\ opened[t] < MaxScopes[t]
  /\ frames' = [frames EXCEPT ![t] = Append(@, [id |-> id, before |-> current[t]])]
  /\ current' = [current EXCEPT ![t] = id]
  /\ opened' = [opened EXCEPT ![t] = @ + 1]

\* _request_id.reset(token)
Reset_Clears(f) == NoId \* seeded fault: set_request_id(None)
Reset(f) == f.before

Top(t) == frames[t][Len(frames[t])]

\* The finally of request_scope, however the block ended.
CloseScope(t) ==
  /\ frames[t] # <<>>
  /\ current' = [current EXCEPT ![t] = Reset(Top(t))]
  /\ frames' = [frames EXCEPT ![t] = SubSeq(@, 1, Len(@) - 1)]
  /\ UNCHANGED opened

\* get_request_id() or str(uuid.uuid4()): what the gateway is told.
Innermost(t) == IF frames[t] = <<>> THEN NoId ELSE Top(t).id
================================================================================
