------------------------------ MODULE JobStore ------------------------------
(***************************************************************************)
(* What server::AlgoRunner promises its caller, without threads, queue or  *)
(* locks: a table of tickets.  A non-blocking submit opens a ticket, the   *)
(* work behind it finishes some time later, and the first get that finds   *)
(* it finished takes the outcome away: an outcome is handed out once, is   *)
(* the outcome of the request submitted under that ticket, and every later *)
(* get is told that the ticket is unknown.                                 *)
(***************************************************************************)
EXTENDS JobTypes

VARIABLES
    phase,   \* the life of each ticket
    reqOf,   \* the request each ticket was issued for
    resp     \* the last response handed to the caller

vars == <<phase, reqOf, resp>>

Phase == {"unused", "pending", "finished", "consumed"}

Init ==
    /\ phase = [t \in Ticket |-> "unused"]
    /\ reqOf = [t \in Ticket |-> NoPayload]
    /\ resp = NoResp

(* A non-blocking request with a payload opens a fresh ticket ... *)
Submit(t, r) ==
    /\ phase[t] = "unused"
    /\ HasWork(r)
    /\ phase' = [phase EXCEPT ![t] = "pending"]
    /\ reqOf' = [reqOf EXCEPT ![t] = r]
    /\ UNCHANGED resp

(* ... which the response then carries, whether or not the work is done. *)
Acknowledge(t) ==
    /\ phase[t] \in {"pending", "finished"}
    /\ resp' = SubmitResp(t, NotFinished)
    /\ UNCHANGED <<phase, reqOf>>

RunBlocking(r) ==
    /\ resp' = SubmitResp(0, execute(r))
    /\ UNCHANGED <<phase, reqOf>>

Refuse ==
    /\ resp' = SubmitResp(0, InvalidInput)
    /\ UNCHANGED <<phase, reqOf>>

Finish(t) ==
    /\ phase[t] = "pending"
    /\ phase' = [phase EXCEPT ![t] = "finished"]
    /\ UNCHANGED <<reqOf, resp>>

GetFinished(t) ==
    /\ phase[t] = "finished"
    /\ phase' = [phase EXCEPT ![t] = "consumed"]
    /\ resp' = GetResp(t, execute(reqOf[t]))
    /\ UNCHANGED reqOf

GetPending(t) ==
    /\ phase[t] = "pending"
    /\ resp' = GetResp(t, NotFinished)
    /\ UNCHANGED <<phase, reqOf>>

GetUnknown(t) ==
    /\ phase[t] \in {"unused", "consumed"}
    /\ resp' = GetResp(t, InvalidInput)
    /\ UNCHANGED <<phase, reqOf>>

(* A get whose wait mode is outside the enum is refused, and leaves the     *)
(* ticket as it was.                                                        *)
GetRefused ==
    /\ resp' = GetResp(0, InvalidInput)
    /\ UNCHANGED <<phase, reqOf>>

Next ==
    \/ \E t \in Ticket, r \in Requests : Submit(t, r)
    \/ \E t \in Ticket :
          \/ Acknowledge(t) \/ Finish(t)
          \/ GetFinished(t) \/ GetPending(t) \/ GetUnknown(t)
    \/ \E r \in Requests : RunBlocking(r)
    \/ Refuse \/ GetRefused

Spec == Init /\ [][Next]_vars

=============================================================================
