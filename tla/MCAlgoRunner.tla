---------------------------- MODULE MCAlgoRunner ----------------------------
(* Instances of AlgoRunner for TLC: a request that succeeds, one that fails *)
(* and one without payload.                                                 *)
EXTENDS AlgoRunner

AddReq  == [math |-> [op |-> "ADD", a |-> 1, b |-> 1]]
DivReq  == [math |-> [op |-> "DIV", a |-> 1, b |-> 0]]

MCRequests == {AddReq, DivReq, NoPayload}
MCAddOnly  == {AddReq}
MCChar     == {"x"}
=============================================================================
