------------------------------ MODULE IpcSystem ------------------------------
(***************************************************************************)
(* The whole system: interactive clients (client/application.cpp) on       *)
(* DEALER sockets, the single-threaded server loop on a ROUTER socket      *)
(* (server/application.cpp), and the job table behind it.  The table is    *)
(* JobStore, which AlgoRunner implements.                                  *)
(*                                                                         *)
(* Each connection is a pair of FIFO queues.  Nothing is lost while the    *)
(* server stays up; when it dies, what was on its side of the connection   *)
(* is gone, and the client's socket reconnects by itself to the restarted  *)
(* server (compose.yml: restart: unless-stopped).                          *)
(***************************************************************************)
EXTENDS Capabilities

CONSTANTS
    Clients,       \* the client processes (a routing id is never reused)
    Announced,     \* the execFunFlags each passes to clientInitialize
    Unknown,       \* no capabilities are known, nobody owns the ticket
    MaxCommands,   \* bound: the commands each client's user types
    MaxRestarts    \* bound: how often the server dies

ASSUME IpcSystemAssumption ==
    /\ Announced \in [Clients -> Uint8]
    /\ \A x \in Uint8 \union Clients : x # Unknown
    /\ MaxCommands \in [Clients -> Nat]
    /\ MaxRestarts \in Nat

VARIABLES
    phase, reqOf, resp,   \* the job table, see JobStore
    mClientExecCaps,      \* what the server knows of each client
    sv,                   \* where the server loop is
    restarts,             \* how often the server died
    toServer, toClient,   \* the two directions of each connection
    cpc,                  \* where each client is
    cur,                  \* the envelope a client sent last
    pending,              \* the client's pending tickets
    owner,                \* history: the client each ticket was issued to
    late                  \* history: the client gave up on a response once

storeVars  == <<phase, reqOf, resp>>
serverVars == <<mClientExecCaps, sv, restarts, owner>>
clientVars == <<cpc, cur, pending, late>>
vars == <<storeVars, serverVars, clientVars, toServer, toClient>>

Store == INSTANCE JobStore

-----------------------------------------------------------------------------
(* Messages.  no numbers a client's commands; it is not part of the         *)
(* protocol and only serves to say which response belongs to which request. *)

FirstHandshake(flags) == [kind |-> "handshake", exec_functions |-> flags]

Submit(no, mode, r) == [kind |-> "submit", no |-> no, mode |-> mode, req |-> r]

Get(no, wait, t) == [kind |-> "get", no |-> no, wait |-> wait, ticket |-> t]

SubmitModes == {"BLOCKING", "NONBLOCKING"}
WaitModes   == {"NO_WAIT", "WAIT_UP_TO"}

NoEnvelope == [kind |-> "none", no |-> 0]

(* A client sends its handshake and at most MaxCommands[c] envelopes, each  *)
(* answered at most once.                                                   *)
MaxInFlight(c) == MaxCommands[c] + 1

(* The server loop: in recv_multipart; in run, after enqueue, before it     *)
(* answers (ack); in the timed wait of get (wait); dead.                    *)
Listening == [pc |-> "recv"]
Dead      == [pc |-> "dead"]

Init ==
    /\ Store!Init
    /\ mClientExecCaps = [c \in Clients |-> Unknown]
    /\ sv = Listening
    /\ restarts = 0
    /\ toServer = [c \in Clients |-> <<>>]
    /\ toClient = [c \in Clients |-> <<>>]
    /\ cpc = [c \in Clients |-> "start"]
    /\ cur = [c \in Clients |-> NoEnvelope]
    /\ pending = [c \in Clients |-> {}]
    /\ owner = [t \in Ticket |-> Unknown]
    /\ late = [c \in Clients |-> FALSE]

-----------------------------------------------------------------------------
(* The clients. *)

SendToServer(c, m) == toServer' = [toServer EXCEPT ![c] = Append(@, m)]

(* init: connect and send the handshake, the flags widened to uint32. *)
sendFirstHandshake(c) == SendToServer(c, FirstHandshake(Announced[c]))

(* clientInitialize: check the flags, connect, send the handshake; nothing  *)
(* is awaited.                                                              *)
ClientInit(c) ==
    /\ cpc[c] = "start"
    /\ IF verifyExecCaps(Announced[c])
       THEN /\ sendFirstHandshake(c)
            /\ cpc' = [cpc EXCEPT ![c] = "idle"]
       ELSE /\ cpc' = [cpc EXCEPT ![c] = "exited"]
            /\ UNCHANGED toServer
    /\ UNCHANGED <<storeVars, serverVars, toClient, cur, pending, late>>

(* A command sends an envelope and goes on to recvEnvelope. *)
SendEnvelope(c, env) ==
    /\ cpc[c] = "idle"
    /\ cur[c].no < MaxCommands[c]
    /\ SendToServer(c, env)
    /\ cur' = [cur EXCEPT ![c] = env]
    /\ cpc' = [cpc EXCEPT ![c] = "await"]
    /\ UNCHANGED <<storeVars, serverVars, toClient, pending, late>>

(* The arithmetic and string commands: submitBlocking, submitNonBlocking. *)
SubmitCommand(c, mode, r) == SendEnvelope(c, Submit(cur[c].no + 1, mode, r))

(* The get command refuses a ticket that is not pending without asking the  *)
(* server.                                                                  *)
GetCommand(c, wait, t) ==
    /\ t \in pending[c]
    /\ SendEnvelope(c, Get(cur[c].no + 1, wait, t))

(* A failed call: the arithmetic commands return from run and the client    *)
(* ends, the others print an error and read the next command.               *)
CallFails(c) ==
    LET ends == cur[c].kind = "submit" /\ has_math(cur[c].req)
    IN  cpc' = [cpc EXCEPT ![c] = IF ends THEN "exited" ELSE "idle"]

(* has_submit or has_get: the response has the kind the call expects; that  *)
(* is all the client can check of it.                                       *)
Expected(c, r) == r.body.kind = cur[c].kind

(* The response hands out a ticket. *)
Ticketed(c) == cur[c].kind = "submit" /\ cur[c].mode = "NONBLOCKING"

Bug_ListTicketZero(c, r) ==
    /\ Expected(c, r)
    /\ cpc' = [cpc EXCEPT ![c] = "idle"]
    /\ pending' = [pending EXCEPT ![c] =
          IF Ticketed(c) THEN @ \union {r.body.ticket} ELSE @]

Bug_KeepFinished(c, r) ==
    \/ /\ ~Expected(c, r)
       /\ CallFails(c)
       /\ UNCHANGED pending
    \/ /\ Expected(c, r)
       /\ cpc' = [cpc EXCEPT ![c] = "idle"]
       /\ pending' = [pending EXCEPT ![c] =
             IF Ticketed(c) /\ r.body.ticket # 0
             THEN @ \union {r.body.ticket} ELSE @]

(* What a command does with the response it received, whichever request     *)
(* that response was meant for.                                             *)
HandleResponse(c, r) ==
    \/ /\ ~Expected(c, r)
       /\ CallFails(c)
       /\ UNCHANGED pending
    \/ /\ Expected(c, r)
       /\ cpc' = [cpc EXCEPT ![c] = "idle"]
       /\ pending' = [pending EXCEPT ![c] =
             IF Ticketed(c) /\ r.body.ticket # 0
             THEN @ \union {r.body.ticket}
             ELSE IF cur[c].kind = "get" /\ r.body.status # "NOT_FINISHED"
             THEN @ \ {cur[c].ticket}
             ELSE @]

(* The command's locals go out of scope; only its number remains. *)
CommandDone(c) == cur' = [cur EXCEPT ![c] = [kind |-> "none", no |-> @.no]]

Receive(c) ==
    /\ cpc[c] = "await"
    /\ toClient[c] # <<>>
    /\ HandleResponse(c, Head(toClient[c]))
    /\ toClient' = [toClient EXCEPT ![c] = Tail(@)]
    /\ CommandDone(c)
    /\ UNCHANGED <<storeVars, serverVars, toServer, late>>

(* rcvtimeo passes with nothing received; a response may be on its way. *)
ReceiveTimeout(c) ==
    /\ cpc[c] = "await"
    /\ CallFails(c)
    /\ late' = [late EXCEPT ![c] = TRUE]
    /\ CommandDone(c)
    /\ UNCHANGED <<storeVars, serverVars, toServer, toClient, pending>>

(* quit, exit or end of input; the socket is closed. *)
Quit(c) ==
    /\ cpc[c] = "idle"
    /\ cpc' = [cpc EXCEPT ![c] = "exited"]
    /\ UNCHANGED <<storeVars, serverVars, toServer, toClient, cur, pending,
                   late>>

(* A signal during the receive: the exception is not caught and the process *)
(* ends (see ClientLifecycle).                                              *)
Interrupted(c) ==
    /\ cpc[c] = "await"
    /\ cpc' = [cpc EXCEPT ![c] = "exited"]
    /\ CommandDone(c)
    /\ UNCHANGED <<storeVars, serverVars, toServer, toClient, pending, late>>

-----------------------------------------------------------------------------
(* The server loop.  One message is taken from some client's queue, handled *)
(* to the end and answered before the next one is received.                 *)

Bug_SendToAnyone(c, env, body) ==
    \E d \in Clients :
        toClient' = IF cpc[d] = "exited" THEN toClient
                    ELSE [toClient EXCEPT
                            ![d] = Append(@, [req |-> env, body |-> body])]

(* ROUTER sends to the client the request came from; what is sent to a      *)
(* closed connection is dropped.                                            *)
SendToClient(c, env, body) ==
    toClient' = IF cpc[c] = "exited" THEN toClient
                ELSE [toClient EXCEPT
                        ![c] = Append(@, [req |-> env, body |-> body])]

sendBadResponse(c, env) == SendToClient(c, env, GetResp(0, InvalidInput))

Take(c) == toServer' = [toServer EXCEPT ![c] = Tail(@)]

(* The next message of client c is handled now. *)
Incoming(c, kind) ==
    /\ sv = Listening
    /\ toServer[c] # <<>>
    /\ Head(toServer[c]).kind = kind

Registered(c) == mClientExecCaps[c] # Unknown

Register(c, flags) == mClientExecCaps' = [mClientExecCaps EXCEPT ![c] = flags]

Bug_AcknowledgeHandshake(c) ==
    /\ Incoming(c, "handshake")
    /\ ~Registered(c)
    /\ Take(c)
    /\ SendToClient(c, Head(toServer[c]), SubmitResp(0, InvalidInput))
    /\ Register(c, ToUint8(Head(toServer[c]).exec_functions))
    /\ UNCHANGED <<storeVars, sv, restarts, owner, clientVars>>

(* The first message of a client is its handshake: its flags are stored     *)
(* whether or not they are valid, and only invalid ones are answered.       *)
Handshake(c) ==
    /\ Incoming(c, "handshake")
    /\ ~Registered(c)
    /\ Take(c)
    /\ LET env   == Head(toServer[c])
           flags == ToUint8(env.exec_functions)
       IN  /\ IF verifyExecCaps(flags) THEN UNCHANGED toClient
              ELSE sendBadResponse(c, env)
           /\ Register(c, flags)
    /\ UNCHANGED <<storeVars, sv, restarts, owner, clientVars>>

Bug_TrustUnparsed(c, parses) ==
    /\ sv = Listening
    /\ toServer[c] # <<>>
    /\ Head(toServer[c]).kind \in {"submit", "get"}
    /\ ~Registered(c)
    /\ Take(c)
    /\ sendBadResponse(c, Head(toServer[c]))
    /\ Register(c, 0..7)
    /\ UNCHANGED <<storeVars, sv, restarts, owner, clientVars>>

(* Any other first message is parsed as a FirstHandshake all the same.  A   *)
(* get parses, with exec_functions = 0; a submit lands in client_name and   *)
(* parses, with exec_functions = 0, when its bytes happen to be UTF-8.      *)
NotAHandshake(c, parses) ==
    /\ sv = Listening
    /\ toServer[c] # <<>>
    /\ Head(toServer[c]).kind \in {"submit", "get"}
    /\ Head(toServer[c]).kind = "get" => parses
    /\ ~Registered(c)
    /\ Take(c)
    /\ sendBadResponse(c, Head(toServer[c]))
    /\ IF parses THEN Register(c, {}) ELSE UNCHANGED mClientExecCaps
    /\ UNCHANGED <<storeVars, sv, restarts, owner, clientVars>>

Bug_ForbidSilently(c) ==
    /\ Incoming(c, "submit")
    /\ Registered(c)
    /\ ~clientHasCapabilityFor(Head(toServer[c]).req, mClientExecCaps[c])
    /\ Take(c)
    /\ UNCHANGED <<storeVars, serverVars, clientVars, toClient>>

(* handleEnvelope, submit. *)
SubmitForbidden(c) ==
    /\ Incoming(c, "submit")
    /\ Registered(c)
    /\ LET env == Head(toServer[c])
       IN  /\ ~clientHasCapabilityFor(env.req, mClientExecCaps[c])
           /\ SendToClient(c, env, SubmitResp(0, InvalidInput))
    /\ Take(c)
    /\ UNCHANGED <<storeVars, serverVars, clientVars>>

SubmitBlocking(c) ==
    /\ Incoming(c, "submit")
    /\ Registered(c)
    /\ LET env == Head(toServer[c])
       IN  /\ clientHasCapabilityFor(env.req, mClientExecCaps[c])
           /\ env.mode = "BLOCKING"
           /\ Store!RunBlocking(env.req)
           /\ SendToClient(c, env, resp')
    /\ Take(c)
    /\ UNCHANGED <<serverVars, clientVars>>

SubmitNonBlocking(c, t) ==
    /\ Incoming(c, "submit")
    /\ Registered(c)
    /\ LET env == Head(toServer[c])
       IN  /\ clientHasCapabilityFor(env.req, mClientExecCaps[c])
           /\ env.mode = "NONBLOCKING"
           /\ \A u \in Ticket : u < t => phase[u] # "unused"
           /\ Store!Submit(t, env.req)
           /\ sv' = [pc |-> "ack", client |-> c, env |-> env, ticket |-> t]
    /\ owner' = [owner EXCEPT ![t] = c]
    /\ Take(c)
    /\ UNCHANGED <<mClientExecCaps, restarts, clientVars, toClient>>

Bug_AnswerStale ==
    /\ SendToClient(sv.client, sv.env, resp)
    /\ sv' = Listening
    /\ UNCHANGED <<mClientExecCaps, restarts, owner, clientVars, toServer>>

(* A response that ends the call the server loop is in. *)
Answer == /\ SendToClient(sv.client, sv.env, resp')
          /\ sv' = Listening
          /\ UNCHANGED <<mClientExecCaps, restarts, owner, clientVars, toServer>>

AnswerTicket ==
    /\ sv.pc = "ack"
    /\ Store!Acknowledge(sv.ticket)
    /\ Answer

(* handleEnvelope, get: answered at once ... *)
GetNow(c) ==
    /\ Incoming(c, "get")
    /\ Registered(c)
    /\ LET env == Head(toServer[c])
       IN  /\ \/ Store!GetFinished(env.ticket)
              \/ Store!GetUnknown(env.ticket)
              \/ env.wait = "NO_WAIT" /\ Store!GetPending(env.ticket)
           /\ SendToClient(c, env, resp')
    /\ Take(c)
    /\ UNCHANGED <<serverVars, clientVars>>

(* ... or, waiting for an unfinished job, with the whole loop held up. *)
GetBlocks(c) ==
    /\ Incoming(c, "get")
    /\ Registered(c)
    /\ LET env == Head(toServer[c])
       IN  /\ env.wait = "WAIT_UP_TO"
           /\ phase[env.ticket] = "pending"
           /\ sv' = [pc |-> "wait", client |-> c, env |-> env,
                     ticket |-> env.ticket]
    /\ Take(c)
    /\ UNCHANGED <<storeVars, mClientExecCaps, restarts, owner, clientVars,
                   toClient>>

GetWakes ==
    /\ sv.pc = "wait"
    /\ Store!GetFinished(sv.ticket)
    /\ Answer

Bug_ExpireSilently ==
    /\ sv.pc = "wait"
    /\ Store!GetPending(sv.ticket)
    /\ sv' = Listening
    /\ UNCHANGED <<mClientExecCaps, restarts, owner, clientVars, toServer,
                   toClient>>

GetExpires ==
    /\ sv.pc = "wait"
    /\ Store!GetPending(sv.ticket)
    /\ Answer

(* A worker finishes a job. *)
WorkerFinishes(t) ==
    /\ sv # Dead
    /\ Store!Finish(t)
    /\ UNCHANGED <<serverVars, clientVars, toServer, toClient>>

(* The ways to cut each queue in two. *)
Cuts(queues) ==
    {n \in [Clients -> UNION {0..Len(queues[c]) : c \in Clients}] :
        \A c \in Clients : n[c] <= Len(queues[c])}

(* The server process dies.  Requests it had received are lost, those still *)
(* in a client's socket are not; responses that had reached a client stay.  *)
ServerDies ==
    /\ sv # Dead
    /\ restarts < MaxRestarts
    /\ restarts' = restarts + 1
    /\ sv' = Dead
    /\ mClientExecCaps' = [c \in Clients |-> Unknown]
    /\ phase' = [t \in Ticket |->
                    IF phase[t] = "unused" THEN "unused" ELSE "consumed"]
    /\ \E lost \in Cuts(toServer), kept \in Cuts(toClient) :
          /\ toServer' = [c \in Clients |->
                SubSeq(toServer[c], lost[c] + 1, Len(toServer[c]))]
          /\ toClient' = [c \in Clients |-> SubSeq(toClient[c], 1, kept[c])]
    /\ UNCHANGED <<reqOf, resp, owner, clientVars>>

ServerRestarts ==
    /\ sv = Dead
    /\ sv' = Listening
    /\ UNCHANGED <<storeVars, mClientExecCaps, restarts, owner, clientVars,
                   toServer, toClient>>

-----------------------------------------------------------------------------
ClientStep(c) ==
    \/ ClientInit(c) \/ Receive(c) \/ ReceiveTimeout(c)
    \/ Interrupted(c) \/ Quit(c)
    \/ \E r \in Requests, mode \in SubmitModes : SubmitCommand(c, mode, r)
    \/ \E t \in Ticket, wait \in WaitModes : GetCommand(c, wait, t)

Serve(c) ==
    \/ Handshake(c)
    \/ \E parses \in BOOLEAN : NotAHandshake(c, parses)
    \/ SubmitForbidden(c) \/ SubmitBlocking(c)
    \/ \E t \in Ticket : SubmitNonBlocking(c, t)
    \/ GetNow(c) \/ GetBlocks(c)

FinishCall == AnswerTicket \/ GetWakes \/ GetExpires

(* Every user has quit: the server waits for nobody. *)
Quiet ==
    /\ \A c \in Clients : cpc[c] = "exited"
    /\ UNCHANGED vars

Next ==
    \/ \E c \in Clients : ClientStep(c) \/ Serve(c)
    \/ FinishCall
    \/ \E t \in Ticket : WorkerFinishes(t)
    \/ ServerDies \/ ServerRestarts
    \/ Quiet

Spec == Init /\ [][Next]_vars

(* The server loop runs while it can and the wait of a get ends; ROUTER     *)
(* takes from its clients in turn, so no client waits for ever (strong,     *)
(* because a call of another client disables Serve in between); a dead      *)
(* server is restarted; a client reads a response that is there.  Nothing   *)
(* is assumed of users, workers, or the client's receive timeout.           *)
Fairness ==
    /\ WF_vars(FinishCall)
    /\ WF_vars(ServerRestarts)
    /\ \A c \in Clients : SF_vars(Serve(c)) /\ WF_vars(Receive(c))

FairSpec == Spec /\ Fairness

-----------------------------------------------------------------------------
(* The system as Sessions sees it. *)

Elements(s) == {s[i] : i \in 1..Len(s)}

(* The client runs and never gave up on a response. *)
InTouch(c) == late[c] = FALSE /\ cpc[c] # "exited"

(* The server loop is in a call of client c. *)
BusyWith(c) == sv.pc \in {"ack", "wait"} /\ sv.client = c

QuestionOf(env) ==
    IF env.kind = "submit"
    THEN [kind |-> "submit", mode |-> env.mode, req |-> env.req]
    ELSE [kind |-> "get", ticket |-> env.ticket]

(* A non-blocking submit has been executed when its ticket exists, a get    *)
(* when it is answered, however long the answer takes to reach the client.  *)
CallOf(c) ==
    IF ~InTouch(c) THEN [at |-> "out"]
    ELSE IF cpc[c] # "await" THEN [at |-> "idle"]
    ELSE IF BusyWith(c) /\ sv.pc = "ack"
         THEN [at |-> "answered", q |-> QuestionOf(cur[c]),
               body |-> SubmitResp(sv.ticket, NotFinished)]
    ELSE IF toClient[c] # <<>>
         THEN [at |-> "answered", q |-> QuestionOf(cur[c]),
               body |-> toClient[c][1].body]
    ELSE IF BusyWith(c) \/ cur[c] \in Elements(toServer[c])
         THEN [at |-> "asked", q |-> QuestionOf(cur[c])]
    ELSE [at |-> "lost"]

ListOf(c) == IF InTouch(c) THEN pending[c] ELSE {}

Calls == [c \in Clients |-> CallOf(c)]
Lists == [c \in Clients |-> ListOf(c)]

Sess == INSTANCE Sessions WITH
            call <- Calls, list <- Lists, crashes <- restarts

-----------------------------------------------------------------------------
(* Properties. *)

Envelope ==
    [kind : {"none"}, no : Nat]
        \union [kind : {"submit"}, no : Nat, mode : SubmitModes,
                req : Requests]
        \union [kind : {"get"}, no : Nat, wait : WaitModes,
                ticket : Ticket]

(* Every variable has its type; in particular the server only waits for or  *)
(* acknowledges a ticket that is still in the table.                        *)
TypeOK ==
    /\ phase \in [Ticket -> Store!Phase]
    /\ reqOf \in [Ticket -> Requests \union {NoPayload}]
    /\ resp \in ResponseType
    /\ mClientExecCaps \in [Clients -> {Unknown} \union Uint8]
    /\ sv.pc \in {"recv", "ack", "wait", "dead"}
    /\ sv.pc \in {"ack", "wait"} =>
          /\ sv.client \in Clients
          /\ sv.env \in Envelope
          /\ phase[sv.ticket] \in {"pending", "finished"}
    /\ restarts \in 0..MaxRestarts
    /\ \A c \in Clients :
          /\ Len(toServer[c]) <= MaxInFlight(c)
          /\ Elements(toServer[c]) \subseteq
                Envelope \union {FirstHandshake(Announced[c])}
          /\ Len(toClient[c]) <= MaxInFlight(c)
          /\ \A r \in Elements(toClient[c]) :
                r.req \in Envelope /\ r.body \in ResponseType
    /\ cpc \in [Clients -> {"start", "idle", "await", "exited"}]
    /\ cur \in [Clients -> Envelope]
    /\ pending \in [Clients -> SUBSET Ticket]
    /\ owner \in [Ticket -> Clients \union {Unknown}]
    /\ late \in [Clients -> BOOLEAN]

(* As long as a client's receive never timed out, the response it is about  *)
(* to read is the one to the request it just sent, server restarts          *)
(* included: one request, one response, and none for the handshake.         *)
InStepUnlessLate ==
    \A c \in Clients : ~late[c] =>
        /\ cpc[c] \in {"start", "idle"} => toClient[c] = <<>>
        /\ cpc[c] = "await" =>
              Len(toClient[c]) <= 1
                /\ \A r \in Elements(toClient[c]) : r.req = cur[c]

(* The server never computes for a client what that client did not announce *)
(* in its handshake, whatever the server took for a handshake after a       *)
(* restart.                                                                 *)
ServesAnnouncedOnly ==
    /\ \A c \in Clients : \A r \in Elements(toClient[c]) :
          r.req.kind = "submit" /\ r.body.status # "ERROR_INVALID_INPUT" =>
              ExecFunFlags[OpOf(r.req.req)] \in Announced[c]
    /\ \A t \in Ticket : owner[t] # Unknown =>
          ExecFunFlags[OpOf(reqOf[t])] \in Announced[owner[t]]

(* What the server knows of a client is what the client announced; only     *)
(* after a restart may it be the empty mask, never another one.             *)
CapsAsAnnounced ==
    \A c \in Clients :
        Registered(c) /\ mClientExecCaps[c] # Announced[c] =>
            mClientExecCaps[c] = {} /\ restarts > 0

(* A client lists, and so can get, only tickets that were issued to it,     *)
(* even when it reads responses it had given up on.                         *)
TicketsPrivate ==
    \A c \in Clients : \A t \in pending[c] : owner[t] = c

(* Between commands a client that was never late lists exactly the tickets  *)
(* the server still holds for it: no ticket leaks and none is dead.         *)
ListAgreesWithTable ==
    \A c \in Clients :
        cpc[c] = "idle" /\ ~late[c] /\ restarts = 0 =>
            pending[c] = {t \in Ticket : owner[t] = c
                                /\ phase[t] \in {"pending", "finished"}}

(* The next response to c is the outcome of ticket t. *)
Delivered(c, t) ==
    LET n == Len(toClient[c]) + 1
    IN  /\ Len(toClient'[c]) = n
        /\ toClient'[c][n].req.kind = "get"
        /\ toClient'[c][n].req.ticket = t
        /\ toClient'[c][n].body = GetResp(t, execute(reqOf[t]))

(* The outcome of a job leaves the table only in a response to the client   *)
(* it was issued to, carrying what that client's request computes, unless   *)
(* the server dies or that client has ended.                                *)
OutcomeGoesToOwner ==
    [][\A t \in Ticket :
          phase[t] # "consumed" /\ phase'[t] = "consumed" /\ sv' # Dead =>
             cpc[owner[t]] = "exited" \/ Delivered(owner[t], t)]_vars

(* What client c may be told when it asks q.                                *)
RightAnswer(c, q, body) ==
    \/ /\ body.status = "ERROR_INVALID_INPUT"
       /\ \/ restarts > 0
          \/ q.kind = "submit" /\ ~clientHasCapabilityFor(q.req, Announced[c])
    \/ /\ q.kind = "submit" /\ q.mode = "BLOCKING"
       /\ body = SubmitResp(0, execute(q.req))
    \/ /\ q.kind = "submit" /\ q.mode = "NONBLOCKING"
       /\ \E t \in Ticket : /\ owner[t] = c /\ reqOf[t] = q.req
                            /\ body = SubmitResp(t, NotFinished)
    \/ /\ q.kind = "get"
       /\ \/ body = GetResp(q.ticket, NotFinished)
          \/ /\ phase[q.ticket] = "consumed"
             /\ body = GetResp(q.ticket, execute(reqOf[q.ticket]))

(* What a client that was never late is about to read is right for what it  *)
(* asked: the result of its own computation, a ticket opened for it, or the *)
(* outcome of the request behind the ticket, which is then used up.  Only a *)
(* crash or a missing capability has it refused.                            *)
AnswersAreRight ==
    \A c \in Clients :
        InTouch(c) /\ toClient[c] # <<>> =>
            RightAnswer(c, cur[c], toClient[c][1].body)

(* To a client that keeps in touch the server, its queues and its blocking  *)
(* loop are one atomic job table: every call is executed at most once, in   *)
(* one step, and answered with the outcome of that step; clients that gave  *)
(* up cannot disturb the others.                                            *)
ImplementsSessions == Sess!Spec

(* A request that is waiting to be received is answered without the help of *)
(* the client's timeout, although other clients' waiting gets hold up the   *)
(* loop, unless the server dies; one that survived in the client's socket   *)
(* is answered by the restarted server.                                     *)
RequestsAnswered ==
    \A c \in Clients :
        (cpc[c] = "await" /\ cur[c] \in Elements(toServer[c]))
            ~> (cpc[c] # "await" \/ sv = Dead)

-----------------------------------------------------------------------------
(* What the code's comments and README say. *)

(* client/application.h, getResult: "Retrieves the result for a previously  *)
(* submitted non-blocking request using its ticket ID": the get response a  *)
(* client reads is the response to its get.                                 *)
GetReadsItsOwnAnswer ==
    \A c \in Clients :
        cpc[c] = "await" /\ cur[c].kind = "get" /\ toClient[c] # <<>>
            /\ Head(toClient[c]).body.kind = "get"
          => Head(toClient[c]).req = cur[c]

(* README: "Validates an initial FirstHandshake from clients": a client is  *)
(* registered with valid capabilities only.                                 *)
RegisteredAreValid ==
    \A c \in Clients :
        Registered(c) => verifyExecCaps(mClientExecCaps[c])
=============================================================================
