------------------------------ MODULE Sessions ------------------------------
(***************************************************************************)
(* What the service promises a client that keeps in touch, without queues, *)
(* server loop or blocking: a call is asked once, executed at most once,   *)
(* in one step, on the table of tickets, and answered with the outcome of  *)
(* that execution.  Tickets belong to the client they were issued to.      *)
(*                                                                         *)
(* A client that gave up on a response, or ended, is out: of its calls     *)
(* nothing is promised, except that they only touch its own tickets.  A    *)
(* crash empties the table and may lose calls; after one, a call may also  *)
(* be refused.                                                             *)
(***************************************************************************)
EXTENDS Capabilities

CONSTANTS Clients, Announced, Unknown   \* as in IpcSystem

VARIABLES
    phase, reqOf, owner,   \* each ticket: its life, its request, its client
    call,                  \* where each client's call is
    list,                  \* the tickets each client may ask for
    crashes                \* how often the server died

table == <<phase, reqOf, owner>>
vars  == <<table, call, list, crashes>>

Idle == [at |-> "idle"]
Out  == [at |-> "out"]
Lost == [at |-> "lost"]
Asked(q)          == [at |-> "asked", q |-> q]
Answered(q, body) == [at |-> "answered", q |-> q, body |-> body]

Submission(mode, r) == [kind |-> "submit", mode |-> mode, req |-> r]
Query(t)            == [kind |-> "get", ticket |-> t]

Init ==
    /\ phase = [t \in Ticket |-> "unused"]
    /\ reqOf = [t \in Ticket |-> NoPayload]
    /\ owner = [t \in Ticket |-> Unknown]
    /\ call = [c \in Clients |-> Idle]
    /\ list = [c \in Clients |-> {}]
    /\ crashes = 0

-----------------------------------------------------------------------------
(* A client asks for a computation, or for a ticket that it lists. *)
Ask(c, q) ==
    /\ call[c] = Idle
    /\ call' = [call EXCEPT ![c] = Asked(q)]
    /\ UNCHANGED <<table, list, crashes>>

(* It takes the answer, and its list follows. *)
After(tickets, q, body) ==
    IF body.kind # q.kind THEN tickets
    ELSE IF q.kind = "submit" /\ q.mode = "NONBLOCKING" /\ body.ticket # 0
         THEN tickets \union {body.ticket}
    ELSE IF q.kind = "get" /\ body.status # "NOT_FINISHED"
         THEN tickets \ {q.ticket}
    ELSE tickets

Return(c) ==
    /\ call[c].at = "answered"
    /\ call' = [call EXCEPT ![c] = Idle]
    /\ list' = [list EXCEPT ![c] = After(@, call[c].q, call[c].body)]
    /\ UNCHANGED <<table, crashes>>

(* It gives up, ends, or never starts. *)
Leave(c) ==
    /\ call' = [call EXCEPT ![c] = Out]
    /\ list' = [list EXCEPT ![c] = {}]
    /\ UNCHANGED <<table, crashes>>

-----------------------------------------------------------------------------
(* The executions. *)

Asking(c, kind) == call[c].at = "asked" /\ call[c].q.kind = kind

Reply(c, body) ==
    /\ call' = [call EXCEPT ![c] = Answered(@.q, body)]
    /\ UNCHANGED <<list, crashes>>

Capable(c) == clientHasCapabilityFor(call[c].q.req, Announced[c])

Issue(c, t, r) ==
    /\ phase[t] = "unused"
    /\ phase' = [phase EXCEPT ![t] = "pending"]
    /\ reqOf' = [reqOf EXCEPT ![t] = r]
    /\ owner' = [owner EXCEPT ![t] = c]

Consume(c, t) ==
    /\ phase[t] = "finished"
    /\ owner[t] = c
    /\ phase' = [phase EXCEPT ![t] = "consumed"]
    /\ UNCHANGED <<reqOf, owner>>

Refuse(c) ==
    /\ Asking(c, "submit")
    /\ Capable(c) => crashes > 0
    /\ Reply(c, SubmitResp(0, InvalidInput))
    /\ UNCHANGED table

(* A restarted server takes the request for a handshake. *)
Misread(c) ==
    /\ call[c].at = "asked"
    /\ crashes > 0
    /\ Reply(c, GetResp(0, InvalidInput))
    /\ UNCHANGED table

Run(c) ==
    /\ Asking(c, "submit")
    /\ call[c].q.mode = "BLOCKING"
    /\ Capable(c)
    /\ Reply(c, SubmitResp(0, execute(call[c].q.req)))
    /\ UNCHANGED table

Open(c, t) ==
    /\ Asking(c, "submit")
    /\ call[c].q.mode = "NONBLOCKING"
    /\ Capable(c)
    /\ Issue(c, t, call[c].q.req)
    /\ Reply(c, SubmitResp(t, NotFinished))

TakeOutcome(c, t) ==
    /\ call[c] = Asked(Query(t))
    /\ Consume(c, t)
    /\ Reply(c, GetResp(t, execute(reqOf[t])))

NotYet(c, t) ==
    /\ call[c] = Asked(Query(t))
    /\ phase[t] = "pending"
    /\ owner[t] = c
    /\ Reply(c, GetResp(t, NotFinished))
    /\ UNCHANGED table

(* Only a crash takes a ticket from its client. *)
Gone(c, t) ==
    /\ call[c] = Asked(Query(t))
    /\ phase[t] = "consumed"
    /\ crashes > 0
    /\ Reply(c, GetResp(t, InvalidInput))
    /\ UNCHANGED table

Execute(c) ==
    \/ Refuse(c) \/ Misread(c) \/ Run(c)
    \/ \E t \in Ticket :
          Open(c, t) \/ TakeOutcome(c, t) \/ NotYet(c, t) \/ Gone(c, t)

(* What is left of the calls of a client that is out. *)
Stray(c) ==
    /\ call[c] = Out
    /\ \E t \in Ticket :
          \/ \E r \in Requests : Issue(c, t, r)
          \/ Consume(c, t)
    /\ UNCHANGED <<call, list, crashes>>

Finish(t) ==
    /\ phase[t] = "pending"
    /\ phase' = [phase EXCEPT ![t] = "finished"]
    /\ UNCHANGED <<reqOf, owner, call, list, crashes>>

Crash ==
    /\ crashes' = crashes + 1
    /\ phase' = [t \in Ticket |->
                    IF phase[t] = "unused" THEN "unused" ELSE "consumed"]
    /\ \E gone \in SUBSET {c \in Clients : call[c].at \in {"asked", "answered"}} :
          call' = [c \in Clients |-> IF c \in gone THEN Lost ELSE call[c]]
    /\ UNCHANGED <<reqOf, owner, list>>

Next ==
    \/ \E c \in Clients :
          \/ \E mode \in {"BLOCKING", "NONBLOCKING"}, r \in Requests :
                Ask(c, Submission(mode, r))
          \/ \E t \in list[c] : Ask(c, Query(t))
          \/ Return(c) \/ Leave(c) \/ Execute(c) \/ Stray(c)
    \/ \E t \in Ticket : Finish(t)
    \/ Crash

Spec == Init /\ [][Next]_vars
=============================================================================
