---------------------------- MODULE MCIpcSystem ----------------------------
(* Instances of IpcSystem for TLC: client c1 may add and concatenate, c2 may *)
(* concatenate only, and c3 asks for a bit that no operation has, which      *)
(* clientInitialize refuses.                                                 *)
EXTENDS IpcSystem, TLC

CONSTANTS c1, c2, c3

Alone   == {c1}
Pair    == {c1, c2}
Refused == {c1, c3}

MCAnnounced ==
    [c \in Clients |-> IF c = c1 THEN {0, 4} ELSE IF c = c2 THEN {4} ELSE {0, 7}]

(* Bounds: how many commands each user types. *)
TwoOne   == [c \in Clients |-> IF c = c1 THEN 2 ELSE 1]
FourEach == [c \in Clients |-> 4]

MCChar == {"x"}

AddReq    == [math |-> [op |-> "ADD", a |-> 1, b |-> 1]]
ConcatReq == [str |-> [op |-> "CONCAT", s1 |-> <<"x">>, s2 |-> <<"x">>]]

MCRequests == {AddReq, ConcatReq}
=============================================================================
