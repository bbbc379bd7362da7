------------------------------ MODULE JobTypes ------------------------------
(***************************************************************************)
(* The vocabulary shared by the abstract job table (JobStore) and the      *)
(* thread pool that implements it (AlgoRunner): tickets, the requests that *)
(* are sent and the responses the caller receives.                         *)
(***************************************************************************)
EXTENDS AlgoOps

CONSTANTS
    Requests,   \* the submit payloads that are sent
    MaxJobs     \* bound: how many tickets are ever issued

ASSUME JobTypesAssumption ==
    /\ Requests \subseteq Payload
    /\ \A r \in Requests : has_math(r) => ~Traps(r.math)
    /\ MaxJobs \in Nat

(* A ticket is the number of the job in submission order.  The req_ids that *)
(* stand for tickets are distinct as long as theorem IdsDistinct of         *)
(* MCAlgoOps_proofs applies.                                                *)
Ticket == 1..MaxJobs

NoPayload  == [unset |-> TRUE]
HasWork(r) == has_math(r) \/ has_str(r)

(* The responses.  A GetResponse does not carry the ticket it answers: the  *)
(* field records which ticket was looked up, 0 when none was.               *)
Response(kind, t, o) ==
    [kind |-> kind, ticket |-> t, status |-> o.status, result |-> o.result]

SubmitResp(t, o) == Response("submit", t, o)
GetResp(t, o)    == Response("get", t, o)

NotFinished  == Fail("NOT_FINISHED")
InvalidInput == Fail("ERROR_INVALID_INPUT")
NoResp       == Response("none", 0, NotFinished)

ResponseType == [kind : {"none", "submit", "get"}, ticket : Ticket \union {0},
                 status : Status, result : Result]
=============================================================================
