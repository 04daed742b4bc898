------------------------------ MODULE MCApproval ------------------------------
(***************************************************************************)
(* A small instance of ApprovalThreads: two callers and two issuers over    *)
(* two tokens.                                                              *)
(***************************************************************************)
EXTENDS ApprovalThreads, TLC

CONSTANTS t1, t2, alice, req1, proj1, empty, blank

Anyone == EmptyContext
AsAlice == [EmptyContext EXCEPT !.agent = alice]
McQuestion == {[token |-> t1, tool |-> "mark", by |-> Anyone],
               [token |-> t1, tool |-> "read", by |-> Anyone],
               [token |-> t2, tool |-> "mark", by |-> AsAlice],
               [token |-> blank, tool |-> "mark", by |-> Anyone]}
McGrant(tool, ttl, single) ==
  [tool |-> tool, subject |-> None, request |-> None, project |-> None,
   ttl |-> ttl, single |-> single]
McIssuable == {McGrant("mark", 1, TRUE), McGrant("mark", 2, FALSE)}
==============================================================================
