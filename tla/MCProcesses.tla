---------------------------- MODULE MCProcesses ----------------------------
(* An instance of Processes for TLC. *)
EXTENDS Processes

(* --threads as an operator might give it; the default is 4. *)
MCThreadCounts == {-1, 0, 4}
=============================================================================
