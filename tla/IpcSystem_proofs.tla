-------------------------- MODULE IpcSystem_proofs --------------------------
(***************************************************************************)
(* The safety properties of the protocol for any number of clients,        *)
(* commands, tickets and restarts.                                         *)
(***************************************************************************)
EXTENDS IpcSystem, AlgoOps_proofs, SequenceTheorems

-----------------------------------------------------------------------------
(* The vocabulary of the job table. *)

(* The instance computes what the module computes. *)
LEMMA StoreExecute == \A r : Store!execute(r) = execute(r)
BY DEF Store!execute, execute, Store!has_math, has_math, Store!has_str,
       has_str, Store!runMath, runMath, Store!runStr, runStr, Store!Fail,
       Fail, Store!Succeed, Succeed, Store!VALUE_NOT_SET, VALUE_NOT_SET,
       Store!Wrap, Wrap, Store!IntMin, IntMin, Store!TruncDiv, TruncDiv,
       Store!Abs, Abs, Store!Occurrences, Occurrences, Store!OccursAt,
       OccursAt, Store!find, find

(* ... and speaks of the same tickets and responses. *)
LEMMA StoreVocabulary ==
    /\ Store!Ticket = Ticket
    /\ Store!NoPayload = NoPayload
    /\ Store!NoResp = NoResp
    /\ Store!NotFinished = NotFinished
    /\ Store!InvalidInput = InvalidInput
    /\ \A r : Store!HasWork(r) <=> HasWork(r)
    /\ \A t, o : Store!SubmitResp(t, o) = SubmitResp(t, o)
    /\ \A t, o : Store!GetResp(t, o) = GetResp(t, o)
BY DEF Store!Ticket, Ticket, Store!NoPayload, NoPayload, Store!NoResp, NoResp,
       Store!NotFinished, NotFinished, Store!InvalidInput, InvalidInput,
       Store!HasWork, HasWork, Store!has_math, has_math, Store!has_str,
       has_str, Store!SubmitResp, SubmitResp, Store!GetResp, GetResp,
       Store!Response, Response, Store!Fail, Fail, Store!VALUE_NOT_SET,
       VALUE_NOT_SET

(* What the tickets' requests and the clients' compute is an outcome. *)
LEMMA RequestOutcome ==
    ASSUME NEW r \in Requests \union {NoPayload}
    PROVE  execute(r).status \in Status /\ execute(r).result \in Result
<1>1. r \in Payload
  BY JobTypesAssumption DEF NoPayload, Payload
<1>2. execute(r) \in Outcome
  BY <1>1, ExecuteOutcome
<1> QED  BY <1>2 DEF Outcome, Status

(* A response has the kind, the ticket and the status it was made of. *)
LEMMA ResponseFields ==
    ASSUME NEW t, NEW o
    PROVE  /\ SubmitResp(t, o).kind = "submit" /\ GetResp(t, o).kind = "get"
           /\ SubmitResp(t, o).ticket = t /\ GetResp(t, o).ticket = t
           /\ SubmitResp(t, o).status = o.status
           /\ GetResp(t, o).status = o.status
BY DEF SubmitResp, GetResp, Response

(* Responses are typed when their parts are. *)
LEMMA ResponseTyped ==
    ASSUME NEW t \in Ticket \union {0}, NEW o,
           o.status \in Status, o.result \in Result
    PROVE  SubmitResp(t, o) \in ResponseType /\ GetResp(t, o) \in ResponseType
BY DEF SubmitResp, GetResp, Response, ResponseType

(* The fixed outcomes are typed. *)
LEMMA FailTyped ==
    /\ NotFinished.status \in Status /\ NotFinished.result \in Result
    /\ InvalidInput.status \in Status /\ InvalidInput.result \in Result
    /\ InvalidInput.status = "ERROR_INVALID_INPUT"
BY DEF NotFinished, InvalidInput, Fail, Status, FinalStatus, Result

(* Tickets are positive, so that 0 stands for none. *)
LEMMA TicketNat == MaxJobs \in Nat /\ Ticket \subseteq Nat \ {0}
BY JobTypesAssumption DEF Ticket

-----------------------------------------------------------------------------
(* Types.  What a client has in its queue to the server: submits, gets and  *)
(* its own handshake, which was only sent with valid flags.                 *)

Message(c) ==
    {e \in Envelope : e.kind # "none"} \union
    {h \in {FirstHandshake(Announced[c])} : verifyExecCaps(Announced[c])}

Reply == [req : Envelope, body : ResponseType]

SvState ==
    {Listening, Dead} \union
    [pc : {"ack", "wait"}, client : Clients, env : Envelope, ticket : Ticket]

ClientTypes ==
    /\ cpc \in [Clients -> {"start", "idle", "await", "exited"}]
    /\ cur \in [Clients -> Envelope]
    /\ pending \in [Clients -> SUBSET Ticket]
    /\ late \in [Clients -> BOOLEAN]

ServerTypes ==
    /\ mClientExecCaps \in [Clients -> {Unknown} \union Uint8]
    /\ sv \in SvState
    /\ restarts \in 0..MaxRestarts
    /\ owner \in [Ticket -> Clients \union {Unknown}]

StoreTypes ==
    /\ phase \in [Ticket -> Store!Phase]
    /\ reqOf \in [Ticket -> Requests \union {NoPayload}]
    /\ resp \in ResponseType

ToServerTypes ==
    /\ toServer \in [Clients -> Seq(UNION {Message(c) : c \in Clients})]
    /\ \A c \in Clients : toServer[c] \in Seq(Message(c))

ToClientTypes == toClient \in [Clients -> Seq(Reply)]

(* The ticket the loop is busy with is in the table. *)
BusyTicket ==
    sv.pc \in {"ack", "wait"} => phase[sv.ticket] \in {"pending", "finished"}

TypeInv ==
    /\ ClientTypes /\ ServerTypes /\ StoreTypes
    /\ ToServerTypes /\ ToClientTypes /\ BusyTicket

(* The fields of an envelope, by its kind. *)
LEMMA EnvelopeFields ==
    ASSUME NEW e \in Envelope
    PROVE  /\ e.no \in Nat
           /\ e.kind \in {"none", "submit", "get"}
           /\ e.kind = "submit" => e.req \in Requests /\ e.mode \in SubmitModes
           /\ e.kind = "get" => e.ticket \in Ticket /\ e.wait \in WaitModes
BY DEF Envelope

(* A message is an envelope or a handshake with the announced flags. *)
LEMMA MessageFields ==
    ASSUME NEW c \in Clients, NEW m \in Message(c)
    PROVE  /\ m.kind \in {"submit", "get", "handshake"}
           /\ m.kind # "handshake" => m \in Envelope
           /\ m.kind = "handshake" =>
                 /\ m.exec_functions = Announced[c]
                 /\ verifyExecCaps(Announced[c])
BY EnvelopeFields DEF Message, FirstHandshake

(* What the server loop may be doing. *)
LEMMA SvFields ==
    ASSUME sv \in SvState
    PROVE  /\ sv.pc \in {"recv", "dead", "ack", "wait"}
           /\ sv.pc \in {"ack", "wait"} =>
                 /\ sv.client \in Clients /\ sv.env \in Envelope
                 /\ sv.ticket \in Ticket
                 /\ sv # Listening /\ sv # Dead
           /\ sv = Listening => sv.pc = "recv"
           /\ sv = Dead => sv.pc = "dead"
BY DEF SvState, Listening, Dead

(* Appending to a client's queue. *)
LEMMA SendToServerTyped ==
    ASSUME ToServerTypes, NEW c \in Clients, NEW m \in Message(c),
           SendToServer(c, m)
    PROVE  /\ ToServerTypes'
           /\ toServer'[c] = Append(toServer[c], m)
           /\ \A d \in Clients \ {c} : toServer'[d] = toServer[d]
<1>1. Append(toServer[c], m) \in Seq(Message(c))
  BY AppendProperties DEF ToServerTypes
<1>2. Append(toServer[c], m) \in Seq(UNION {Message(d) : d \in Clients})
  <2>1. m \in UNION {Message(d) : d \in Clients}
    OBVIOUS
  <2> QED  BY <2>1, AppendProperties DEF ToServerTypes
<1> QED  BY <1>1, <1>2 DEF SendToServer, ToServerTypes, Message

(* Taking its first message. *)
LEMMA TakeTyped ==
    ASSUME ToServerTypes, NEW c \in Clients, toServer[c] # <<>>, Take(c)
    PROVE  /\ ToServerTypes'
           /\ Head(toServer[c]) \in Message(c)
           /\ toServer'[c] = Tail(toServer[c])
           /\ \A d \in Clients \ {c} : toServer'[d] = toServer[d]
<1>1. Tail(toServer[c]) \in Seq(Message(c)) /\ Head(toServer[c]) \in Message(c)
  BY HeadTailProperties DEF ToServerTypes
<1>2. Tail(toServer[c]) \in Seq(UNION {Message(d) : d \in Clients})
  BY HeadTailProperties DEF ToServerTypes
<1> QED  BY <1>1, <1>2 DEF Take, ToServerTypes, Message

(* Sending a response: to the client that asked, or dropped. *)
LEMMA SendToClientTyped ==
    ASSUME ToClientTypes, NEW c \in Clients, NEW env \in Envelope,
           NEW body \in ResponseType, SendToClient(c, env, body)
    PROVE  /\ ToClientTypes'
           /\ \/ cpc[c] = "exited" /\ toClient' = toClient
              \/ /\ cpc[c] # "exited"
                 /\ toClient'[c] =
                       Append(toClient[c], [req |-> env, body |-> body])
                 /\ \A d \in Clients \ {c} : toClient'[d] = toClient[d]
<1>1. [req |-> env, body |-> body] \in Reply
  BY DEF Reply
<1>2. Append(toClient[c], [req |-> env, body |-> body]) \in Seq(Reply)
  BY <1>1, AppendProperties DEF ToClientTypes
<1> QED  BY <1>2 DEF SendToClient, ToClientTypes

-----------------------------------------------------------------------------
(* The calls into the job table. *)

(* A blocking run answers without a ticket. *)
LEMMA RunBlockingCall ==
    ASSUME StoreTypes, NEW r \in Requests, Store!RunBlocking(r)
    PROVE  /\ StoreTypes'
           /\ resp' = SubmitResp(0, execute(r))
           /\ UNCHANGED <<phase, reqOf>>
<1>1. resp' = SubmitResp(0, execute(r)) /\ UNCHANGED <<phase, reqOf>>
  BY StoreExecute, StoreVocabulary DEF Store!RunBlocking
<1>2. SubmitResp(0, execute(r)) \in ResponseType
  BY RequestOutcome, ResponseTyped
<1> QED  BY <1>1, <1>2 DEF StoreTypes

(* A submit opens a ticket, which its acknowledgement carries. *)
LEMMA SubmitCall ==
    ASSUME StoreTypes, NEW r \in Requests, NEW t \in Ticket, Store!Submit(t, r)
    PROVE  /\ StoreTypes'
           /\ phase[t] = "unused"
           /\ phase' = [phase EXCEPT ![t] = "pending"]
           /\ reqOf' = [reqOf EXCEPT ![t] = r]
BY DEF Store!Submit, StoreTypes, Store!Phase

(* The acknowledgement is the only submit response with a ticket. *)
LEMMA AcknowledgeCall ==
    ASSUME StoreTypes, NEW t \in Ticket, Store!Acknowledge(t)
    PROVE  /\ StoreTypes'
           /\ resp' = SubmitResp(t, NotFinished)
           /\ UNCHANGED <<phase, reqOf>>
<1>1. resp' = SubmitResp(t, NotFinished) /\ UNCHANGED <<phase, reqOf>>
  BY StoreVocabulary DEF Store!Acknowledge
<1>2. SubmitResp(t, NotFinished) \in ResponseType
  BY FailTyped, ResponseTyped
<1> QED  BY <1>1, <1>2 DEF StoreTypes

(* A get answers with a get response and at most consumes its ticket. *)
LEMMA GetCall ==
    ASSUME StoreTypes, NEW t \in Ticket,
           Store!GetFinished(t) \/ Store!GetPending(t) \/ Store!GetUnknown(t)
    PROVE  /\ StoreTypes'
           /\ resp'.kind = "get"
           /\ UNCHANGED reqOf
           /\ \A u \in Ticket : phase'[u] = "unused" <=> phase[u] = "unused"
<1>1. CASE Store!GetFinished(t)
  <2>1. /\ phase[t] = "finished" /\ UNCHANGED reqOf
        /\ phase' = [phase EXCEPT ![t] = "consumed"]
        /\ resp' = GetResp(t, execute(reqOf[t]))
    BY <1>1, StoreExecute, StoreVocabulary DEF Store!GetFinished
  <2>2. reqOf[t] \in Requests \union {NoPayload}
    BY DEF StoreTypes
  <2>3. resp' \in ResponseType /\ resp'.kind = "get"
    BY <2>1, <2>2, RequestOutcome, ResponseTyped, ResponseFields
  <2> QED  BY <2>1, <2>3 DEF StoreTypes, Store!Phase
<1>2. CASE Store!GetPending(t) \/ Store!GetUnknown(t)
  <2>1. /\ UNCHANGED <<phase, reqOf>>
        /\ resp' \in {GetResp(t, NotFinished), GetResp(t, InvalidInput)}
    BY <1>2, StoreVocabulary DEF Store!GetPending, Store!GetUnknown
  <2>2. resp' \in ResponseType /\ resp'.kind = "get"
    BY <2>1, FailTyped, ResponseTyped, ResponseFields
  <2> QED  BY <2>1, <2>2 DEF StoreTypes
<1> QED  BY <1>1, <1>2

(* The error response is typed. *)
LEMMA BadResponseTyped == GetResp(0, InvalidInput) \in ResponseType
                             /\ SubmitResp(0, InvalidInput) \in ResponseType
BY FailTyped, ResponseTyped

-----------------------------------------------------------------------------
(* The initial states are typed. *)
LEMMA TypeInit == Init => TypeInv
<1> SUFFICES ASSUME Init PROVE TypeInv
  OBVIOUS
<1>1. ClientTypes
  BY Zenon DEF Init, ClientTypes, Envelope, NoEnvelope
<1>2. ServerTypes
  BY IpcSystemAssumption DEF Init, ServerTypes, SvState
<1>3. StoreTypes
  <2>1. NoResp \in ResponseType
    BY FailTyped DEF NoResp, Response, ResponseType
  <2> QED  BY <2>1, StoreVocabulary
           DEF Init, StoreTypes, Store!Init, Store!Phase
<1>4. ToServerTypes /\ ToClientTypes
  BY EmptySeq DEF Init, ToServerTypes, ToClientTypes
<1>5. BusyTicket
  BY DEF Init, Listening, BusyTicket
<1> QED  BY <1>1, <1>2, <1>3, <1>4, <1>5 DEF TypeInv

(* Every step of a client keeps the types. *)
LEMMA TypeClientStep ==
    ASSUME TypeInv, NEW c \in Clients, ClientStep(c)
    PROVE  TypeInv'
<1> USE DEF TypeInv
<1>1. ASSUME UNCHANGED <<storeVars, serverVars>>
      PROVE  StoreTypes' /\ ServerTypes' /\ BusyTicket'
  BY <1>1 DEF storeVars, serverVars, StoreTypes, ServerTypes, BusyTicket
<1>2. CASE ClientInit(c)
  <2>1. ToServerTypes'
    <3>1. CASE verifyExecCaps(Announced[c])
      <4>1. FirstHandshake(Announced[c]) \in Message(c)
        BY <3>1 DEF Message
      <4> QED  BY <1>2, <3>1, <4>1, SendToServerTyped
               DEF ClientInit, sendFirstHandshake
    <3>2. CASE ~verifyExecCaps(Announced[c])
      BY <1>2, <3>2 DEF ClientInit, ToServerTypes
    <3> QED  BY <3>1, <3>2
  <2>2. ClientTypes' /\ ToClientTypes'
    BY <1>2 DEF ClientInit, ClientTypes, ToClientTypes
  <2> QED  BY <1>1, <1>2, <2>1, <2>2 DEF ClientInit
<1>3. ASSUME NEW env \in Envelope, env.kind # "none", SendEnvelope(c, env)
      PROVE  TypeInv'
  <2>1. env \in Message(c)
    BY <1>3 DEF Message
  <2>2. ToServerTypes'
    BY <1>3, <2>1, SendToServerTyped DEF SendEnvelope
  <2>3. ClientTypes' /\ ToClientTypes'
    BY <1>3 DEF SendEnvelope, ClientTypes, ToClientTypes
  <2> QED  BY <1>1, <1>3, <2>2, <2>3 DEF SendEnvelope
<1>n. cur[c] \in Envelope /\ cur[c].no + 1 \in Nat
  BY EnvelopeFields DEF ClientTypes
<1>4. ASSUME NEW r \in Requests, NEW mode \in SubmitModes,
             SubmitCommand(c, mode, r)
      PROVE  TypeInv'
  <2>1. /\ Submit(cur[c].no + 1, mode, r) \in Envelope
        /\ Submit(cur[c].no + 1, mode, r).kind = "submit"
    BY <1>n DEF Envelope, Submit
  <2> QED  BY <1>3, <1>4, <2>1 DEF SubmitCommand
<1>5. ASSUME NEW t \in Ticket, NEW wait \in WaitModes, GetCommand(c, wait, t)
      PROVE  TypeInv'
  <2>1. /\ Get(cur[c].no + 1, wait, t) \in Envelope
        /\ Get(cur[c].no + 1, wait, t).kind = "get"
    BY <1>n DEF Envelope, Get
  <2> QED  BY <1>3, <1>5, <2>1 DEF GetCommand
<1>d. ASSUME CommandDone(c)
      PROVE  cur' \in [Clients -> Envelope]
  <2>1. [kind |-> "none", no |-> cur[c].no] \in Envelope
    BY <1>n, EnvelopeFields DEF Envelope
  <2> QED  BY <1>d, <2>1 DEF CommandDone, ClientTypes
<1>f. ASSUME CallFails(c)
      PROVE  cpc' \in [Clients -> {"start", "idle", "await", "exited"}]
  BY <1>f DEF CallFails, ClientTypes
<1>6. CASE Receive(c)
  <2>1. Head(toClient[c]) \in Reply /\ Tail(toClient[c]) \in Seq(Reply)
    BY <1>6, HeadTailProperties DEF Receive, ToClientTypes
  <2>2. ToClientTypes'
    BY <1>6, <2>1 DEF Receive, ToClientTypes
  <2>3. Head(toClient[c]).body.ticket \in Ticket \union {0}
    BY <2>1 DEF Reply, ResponseType
  <2>4. /\ cpc' \in [Clients -> {"start", "idle", "await", "exited"}]
        /\ pending' \in [Clients -> SUBSET Ticket]
    <3> DEFINE r == Head(toClient[c])
    <3>1. CASE Expected(c, r)
      <4>1. /\ cpc' = [cpc EXCEPT ![c] = "idle"]
            /\ \E list \in SUBSET (pending[c] \union {r.body.ticket}) :
                  /\ pending' = [pending EXCEPT ![c] = list]
                  /\ list \subseteq Ticket
        <5>1. pending[c] \subseteq Ticket
          BY DEF ClientTypes
        <5>2. /\ cpc' = [cpc EXCEPT ![c] = "idle"]
              /\ pending' = [pending EXCEPT ![c] =
                    IF Ticketed(c) /\ r.body.ticket # 0
                    THEN pending[c] \union {r.body.ticket}
                    ELSE IF cur[c].kind = "get"
                              /\ r.body.status # "NOT_FINISHED"
                    THEN pending[c] \ {cur[c].ticket}
                    ELSE pending[c]]
          BY <1>6, <3>1 DEF Receive, HandleResponse
        <5> QED  BY <5>1, <5>2, <2>3
      <4> QED  BY <4>1 DEF ClientTypes
    <3>2. CASE ~Expected(c, r)
      BY <1>6, <1>f, <3>2 DEF Receive, HandleResponse, ClientTypes
    <3> QED  BY <3>1, <3>2
  <2>5. ClientTypes'
    BY <1>6, <1>d, <2>4 DEF Receive, ClientTypes
  <2>6. ToServerTypes'
    BY <1>6 DEF Receive, ToServerTypes
  <2> QED  BY <1>1, <1>6, <2>2, <2>5, <2>6 DEF Receive
<1>7. CASE ReceiveTimeout(c)
  <2>1. ClientTypes'
    BY <1>7, <1>d, <1>f DEF ReceiveTimeout, ClientTypes
  <2> QED  BY <1>1, <1>7, <2>1
           DEF ReceiveTimeout, ToServerTypes, ToClientTypes
<1>8. CASE Interrupted(c)
  <2>1. ClientTypes'
    BY <1>8, <1>d DEF Interrupted, ClientTypes
  <2> QED  BY <1>1, <1>8, <2>1 DEF Interrupted, ToServerTypes, ToClientTypes
<1>9. CASE Quit(c)
  BY <1>1, <1>9 DEF Quit, ClientTypes, ToServerTypes, ToClientTypes
<1> QED  BY <1>2, <1>4, <1>5, <1>6, <1>7, <1>8, <1>9 DEF ClientStep

(* So does every message the server loop handles ... *)
LEMMA TypeServe ==
    ASSUME TypeInv, NEW c \in Clients, Serve(c)
    PROVE  TypeInv'
<1> USE DEF TypeInv
<1> DEFINE env == Head(toServer[c])
<1>0. toServer[c] # <<>> /\ Take(c) /\ UNCHANGED clientVars
  BY DEF Serve, Handshake, NotAHandshake, SubmitForbidden, SubmitBlocking,
         SubmitNonBlocking, GetNow, GetBlocks, Incoming
<1>1. ToServerTypes' /\ ClientTypes' /\ env \in Message(c)
  BY <1>0, TakeTyped DEF ClientTypes, clientVars
<1>2. /\ env.kind \in {"submit", "get", "handshake"}
      /\ env.kind # "handshake" => env \in Envelope
      /\ env.kind = "handshake" =>
            env.exec_functions = Announced[c] /\ verifyExecCaps(Announced[c])
      /\ env.kind = "submit" => env.req \in Requests
      /\ env.kind = "get" => env.ticket \in Ticket
  <2> HIDE DEF env
  <2> QED  BY <1>1, MessageFields, EnvelopeFields
<1> HIDE DEF env
<1>3. ASSUME UNCHANGED <<storeVars, sv, restarts, owner>>
      PROVE  StoreTypes' /\ BusyTicket'
  BY <1>3 DEF storeVars, StoreTypes, BusyTicket
<1>4. ASSUME NEW flags \in Uint8, Register(c, flags) \/ UNCHANGED mClientExecCaps
      PROVE  mClientExecCaps' \in [Clients -> {Unknown} \union Uint8]
  BY <1>4 DEF Register, ServerTypes
<1>5. CASE Handshake(c)
  <2>1. /\ env.kind = "handshake"
        /\ Register(c, ToUint8(env.exec_functions))
        /\ verifyExecCaps(ToUint8(env.exec_functions)) => UNCHANGED toClient
        /\ UNCHANGED <<storeVars, sv, restarts, owner>>
    BY <1>5 DEF Handshake, Incoming, env
  <2>2. ToUint8(env.exec_functions) = Announced[c] /\ Announced[c] \in Uint8
    BY <1>2, <2>1, IpcSystemAssumption DEF ToUint8, Uint8
  <2>3. ToClientTypes'
    BY <1>2, <2>1, <2>2 DEF ToClientTypes
  <2>4. ServerTypes'
    BY <1>4, <2>1, <2>2 DEF ServerTypes
  <2> QED  BY <1>1, <1>3, <2>1, <2>3, <2>4
<1>6. ASSUME NEW parses \in BOOLEAN, NotAHandshake(c, parses)
      PROVE  TypeInv'
  <2>1. /\ env.kind \in {"submit", "get"}
        /\ SendToClient(c, env, GetResp(0, InvalidInput))
        /\ Register(c, {}) \/ UNCHANGED mClientExecCaps
        /\ UNCHANGED <<storeVars, sv, restarts, owner>>
    BY <1>6 DEF NotAHandshake, sendBadResponse, env
  <2>2. ToClientTypes'
    BY <1>2, <2>1, BadResponseTyped, SendToClientTyped
  <2>3. ServerTypes'
    BY <1>4, <2>1 DEF ServerTypes, Uint8
  <2> QED  BY <1>1, <1>3, <2>1, <2>2, <2>3
<1>7. CASE SubmitForbidden(c)
  <2>1. /\ env.kind = "submit"
        /\ SendToClient(c, env, SubmitResp(0, InvalidInput))
        /\ UNCHANGED <<storeVars, serverVars>>
    BY <1>7 DEF SubmitForbidden, Incoming, env
  <2>2. ToClientTypes'
    BY <1>2, <2>1, BadResponseTyped, SendToClientTyped
  <2> QED  BY <1>1, <1>3, <2>1, <2>2 DEF ServerTypes, serverVars
<1>8. CASE SubmitBlocking(c)
  <2>1. /\ env.kind = "submit"
        /\ Store!RunBlocking(env.req)
        /\ SendToClient(c, env, resp')
        /\ UNCHANGED serverVars
    BY <1>8 DEF SubmitBlocking, Incoming, env
  <2>2. StoreTypes' /\ UNCHANGED phase
    BY <1>2, <2>1, RunBlockingCall
  <2>3. ToClientTypes'
    BY <1>2, <2>1, <2>2, SendToClientTyped DEF StoreTypes
  <2> QED  BY <1>1, <2>1, <2>2, <2>3 DEF ServerTypes, serverVars, BusyTicket
<1>9. ASSUME NEW t \in Ticket, SubmitNonBlocking(c, t)
      PROVE  TypeInv'
  <2>1. /\ env.kind = "submit"
        /\ Store!Submit(t, env.req)
        /\ sv' = [pc |-> "ack", client |-> c, env |-> env, ticket |-> t]
        /\ owner' = [owner EXCEPT ![t] = c]
        /\ UNCHANGED <<mClientExecCaps, restarts, toClient>>
    BY <1>9 DEF SubmitNonBlocking, Incoming, env
  <2>2. StoreTypes' /\ phase' = [phase EXCEPT ![t] = "pending"]
    BY <1>2, <2>1, SubmitCall
  <2>3. sv' \in SvState /\ sv'.ticket = t
    BY <1>2, <2>1 DEF SvState
  <2>4. ServerTypes'
    BY <2>1, <2>3 DEF ServerTypes
  <2>5. BusyTicket'
    BY <2>2, <2>3 DEF BusyTicket, StoreTypes
  <2> QED  BY <1>1, <2>1, <2>2, <2>4, <2>5 DEF ToClientTypes
<1>10. CASE GetNow(c)
  <2>1. /\ env.kind = "get"
        /\ sv = Listening
        /\ \/ Store!GetFinished(env.ticket) \/ Store!GetPending(env.ticket)
           \/ Store!GetUnknown(env.ticket)
        /\ SendToClient(c, env, resp')
        /\ UNCHANGED serverVars
    BY <1>10 DEF GetNow, Incoming, env
  <2>2. StoreTypes'
    BY <1>2, <2>1, GetCall
  <2>3. ToClientTypes'
    BY <1>2, <2>1, <2>2, SendToClientTyped DEF StoreTypes
  <2>4. BusyTicket'
    BY <2>1 DEF BusyTicket, Listening, serverVars
  <2> QED  BY <1>1, <2>1, <2>2, <2>3, <2>4 DEF ServerTypes, serverVars
<1>11. CASE GetBlocks(c)
  <2>1. /\ env.kind = "get"
        /\ phase[env.ticket] = "pending"
        /\ sv' = [pc |-> "wait", client |-> c, env |-> env,
                  ticket |-> env.ticket]
        /\ UNCHANGED <<storeVars, mClientExecCaps, restarts, owner, toClient>>
    BY <1>11 DEF GetBlocks, Incoming, env
  <2>2. sv' \in SvState /\ sv'.ticket = env.ticket
    BY <1>2, <2>1 DEF SvState
  <2>3. ServerTypes' /\ StoreTypes' /\ BusyTicket'
    BY <2>1, <2>2 DEF ServerTypes, StoreTypes, storeVars, BusyTicket
  <2> QED  BY <1>1, <2>1, <2>3 DEF ToClientTypes
<1> QED  BY <1>5, <1>6, <1>7, <1>8, <1>9, <1>10, <1>11 DEF Serve

(* ... every call it finishes ... *)
LEMMA TypeFinishCall ==
    ASSUME TypeInv, FinishCall
    PROVE  TypeInv'
<1> USE DEF TypeInv
<1>1. /\ Answer /\ sv.pc \in {"ack", "wait"}
      /\ \/ Store!Acknowledge(sv.ticket) \/ Store!GetFinished(sv.ticket)
         \/ Store!GetPending(sv.ticket)
  BY DEF FinishCall, AnswerTicket, GetWakes, GetExpires
<1>2. sv.client \in Clients /\ sv.env \in Envelope /\ sv.ticket \in Ticket
  BY <1>1, SvFields DEF ServerTypes
<1>3. StoreTypes'
  BY <1>1, <1>2, AcknowledgeCall, GetCall
<1>4. ToClientTypes'
  BY <1>1, <1>2, <1>3, SendToClientTyped DEF Answer, StoreTypes
<1>5. ServerTypes' /\ BusyTicket'
  BY <1>1 DEF Answer, ServerTypes, SvState, BusyTicket, Listening
<1> QED  BY <1>1, <1>3, <1>4, <1>5
         DEF Answer, ClientTypes, clientVars, ToServerTypes

(* When the server dies each queue to it keeps a suffix and each queue from *)
(* it a prefix.                                                             *)
LEMMA DyingCuts ==
    ASSUME ToServerTypes, ToClientTypes, ServerDies
    PROVE  /\ ToServerTypes' /\ ToClientTypes'
           /\ \A c \in Clients : \E k \in 0..Len(toServer[c]) :
                 /\ Len(toServer'[c]) = Len(toServer[c]) - k
                 /\ \A i \in 1..Len(toServer'[c]) :
                       toServer'[c][i] = toServer[c][i + k]
           /\ \A c \in Clients :
                 /\ Len(toClient'[c]) <= Len(toClient[c])
                 /\ \A i \in 1..Len(toClient'[c]) :
                       toClient'[c][i] = toClient[c][i]
<1>1. PICK lost \in Cuts(toServer), kept \in Cuts(toClient) :
        /\ toServer' = [c \in Clients |->
              SubSeq(toServer[c], lost[c] + 1, Len(toServer[c]))]
        /\ toClient' = [c \in Clients |-> SubSeq(toClient[c], 1, kept[c])]
  BY DEF ServerDies
<1>2. \A c \in Clients :
        Len(toServer[c]) \in Nat /\ Len(toClient[c]) \in Nat
  BY LenProperties DEF ToServerTypes, ToClientTypes
<1>3. \A c \in Clients :
        lost[c] \in 0..Len(toServer[c]) /\ kept[c] \in 0..Len(toClient[c])
  BY <1>2 DEF Cuts
<1>4. ASSUME NEW c \in Clients
      PROVE  /\ toServer'[c] \in Seq(Message(c))
             /\ toServer'[c] \in Seq(UNION {Message(d) : d \in Clients})
             /\ Len(toServer'[c]) = Len(toServer[c]) - lost[c]
             /\ \A i \in 1..Len(toServer'[c]) :
                   toServer'[c][i] = toServer[c][i + lost[c]]
  <2> DEFINE q == toServer[c]
             k == lost[c]
             n == Len(q)
  <2>1. toServer'[c] = SubSeq(q, k + 1, n) /\ n \in Nat /\ k \in 0..n
    BY <1>1, <1>2, <1>3
  <2>2. \A i \in (k + 1)..n : q[i] \in Message(c)
    BY <2>1, ElementOfSeq DEF ToServerTypes
  <2>3. \A i \in (k + 1)..n : q[i] \in UNION {Message(d) : d \in Clients}
    BY <2>2
  <2> HIDE DEF q, k, n
  <2>4. /\ SubSeq(q, k + 1, n) \in Seq(Message(c))
        /\ SubSeq(q, k + 1, n) \in Seq(UNION {Message(d) : d \in Clients})
        /\ Len(SubSeq(q, k + 1, n)) = n - k
        /\ \A i \in 1..(n - k) : SubSeq(q, k + 1, n)[i] = q[k + i]
    <3>1. k + 1 \in Int /\ n \in Int
      BY <2>1
    <3>2. /\ SubSeq(q, k + 1, n) \in Seq(Message(c))
          /\ Len(SubSeq(q, k + 1, n)) =
                 IF k + 1 <= n THEN n - (k + 1) + 1 ELSE 0
          /\ \A i \in 1..(n - (k + 1) + 1) :
                 SubSeq(q, k + 1, n)[i] = q[(k + 1) + i - 1]
      BY <2>2, <3>1, SubSeqProperties
    <3>3. SubSeq(q, k + 1, n) \in Seq(UNION {Message(d) : d \in Clients})
      BY <2>3, <3>1, SubSeqProperties
    <3> QED  BY <2>1, <3>2, <3>3
  <2>5. \A i \in 1..(n - k) : SubSeq(q, k + 1, n)[i] = q[i + k]
    <3>1. \A i \in 1..(n - k) : k + i = i + k
      BY <2>1
    <3> QED  BY <2>4, <3>1
  <2>6. Len(toServer'[c]) = n - k
    BY <2>1, <2>4
  <2>7. \A i \in 1..Len(toServer'[c]) : toServer'[c][i] = q[i + k]
    BY <2>1, <2>5, <2>6
  <2> QED  BY <2>1, <2>4, <2>6, <2>7 DEF q, k, n
<1>5. ASSUME NEW c \in Clients
      PROVE  /\ toClient'[c] \in Seq(Reply)
             /\ Len(toClient'[c]) = kept[c]
             /\ \A i \in 1..Len(toClient'[c]) :
                   toClient'[c][i] = toClient[c][i]
  <2> DEFINE q == toClient[c]
             k == kept[c]
  <2>1. toClient'[c] = SubSeq(q, 1, k) /\ k \in 0..Len(q) /\ Len(q) \in Nat
    BY <1>1, <1>2, <1>3
  <2>2. \A i \in 1..k : q[i] \in Reply
    BY <2>1, ElementOfSeq DEF ToClientTypes
  <2> HIDE DEF q, k
  <2>3. /\ SubSeq(q, 1, k) \in Seq(Reply)
        /\ Len(SubSeq(q, 1, k)) = IF 1 <= k THEN k - 1 + 1 ELSE 0
        /\ \A i \in 1..(k - 1 + 1) : SubSeq(q, 1, k)[i] = q[1 + i - 1]
    BY <2>1, <2>2, SubSeqProperties
  <2> QED  BY <2>1, <2>3 DEF q, k
<1>6. ToServerTypes' /\ ToClientTypes'
  BY <1>1, <1>4, <1>5 DEF ToServerTypes, ToClientTypes, Message
<1>7. \A c \in Clients : \E k \in 0..Len(toServer[c]) :
        /\ Len(toServer'[c]) = Len(toServer[c]) - k
        /\ \A i \in 1..Len(toServer'[c]) :
              toServer'[c][i] = toServer[c][i + k]
  <2> TAKE c \in Clients
  <2>1. lost[c] \in 0..Len(toServer[c])
    BY <1>3
  <2> WITNESS lost[c] \in 0..Len(toServer[c])
  <2> QED  BY <1>4
<1>8. \A c \in Clients :
        /\ Len(toClient'[c]) <= Len(toClient[c])
        /\ \A i \in 1..Len(toClient'[c]) : toClient'[c][i] = toClient[c][i]
  <2> TAKE c \in Clients
  <2>1. Len(toClient'[c]) <= Len(toClient[c])
    BY <1>2, <1>3, <1>5
  <2> QED  BY <1>5, <2>1
<1> QED  BY <1>6, <1>7, <1>8, Zenon

(* ... and every other step. *)
LEMMA TypeOther ==
    ASSUME TypeInv,
           \/ \E t \in Ticket : WorkerFinishes(t)
           \/ ServerDies \/ ServerRestarts \/ UNCHANGED vars
    PROVE  TypeInv'
<1> USE DEF TypeInv
<1>1. ASSUME NEW t \in Ticket, WorkerFinishes(t) PROVE TypeInv'
  <2>1. /\ phase' = [phase EXCEPT ![t] = "finished"] /\ phase[t] = "pending"
        /\ UNCHANGED <<reqOf, resp, serverVars, clientVars, toServer, toClient>>
    BY <1>1 DEF WorkerFinishes, Store!Finish
  <2>2. StoreTypes'
    BY <2>1 DEF StoreTypes, Store!Phase
  <2>3. BusyTicket'
    BY <2>1, SvFields DEF BusyTicket, ServerTypes, StoreTypes, serverVars
  <2> QED  BY <2>1, <2>2, <2>3 DEF ServerTypes, serverVars, ClientTypes,
                                   clientVars, ToServerTypes, ToClientTypes
<1>2. CASE ServerDies
  <2>1. ToServerTypes' /\ ToClientTypes'
    BY <1>2, DyingCuts
  <2>2. StoreTypes'
    BY <1>2 DEF ServerDies, StoreTypes, Store!Phase
  <2>3. ServerTypes' /\ BusyTicket'
    BY <1>2, IpcSystemAssumption
    DEF ServerDies, ServerTypes, SvState, BusyTicket, Dead
  <2> QED  BY <1>2, <2>1, <2>2, <2>3 DEF ServerDies, ClientTypes, clientVars
<1>3. CASE ServerRestarts
  BY <1>3 DEF ServerRestarts, StoreTypes, storeVars, ServerTypes, SvState,
              BusyTicket, Listening, ClientTypes, clientVars, ToServerTypes,
              ToClientTypes
<1>4. CASE UNCHANGED vars
  BY <1>4 DEF vars, StoreTypes, storeVars, ServerTypes, serverVars,
              BusyTicket, ClientTypes, clientVars, ToServerTypes, ToClientTypes
<1> QED  BY <1>1, <1>2, <1>3, <1>4

(* The types are inductive. *)
LEMMA TypeStep == TypeInv /\ [Next]_vars => TypeInv'
BY TypeClientStep, TypeServe, TypeFinishCall, TypeOther DEF Next, Quiet

-----------------------------------------------------------------------------
(* Who may have what.  own is the table of owners. *)

Allowed(r, c) == ExecFunFlags[OpOf(r)] \in Announced[c]

(* A response with a ticket is to the owner of the ticket; one that is not  *)
(* a refusal of a submit is to something the client announced.              *)
GoodReply(own, c, r) ==
    /\ r.body.kind = "submit" /\ r.body.ticket # 0 => own[r.body.ticket] = c
    /\ r.req.kind = "submit" /\ r.body.status # "ERROR_INVALID_INPUT" =>
          Allowed(r.req.req, c)

(* What the server takes for a client's capabilities. *)
CapsInv == \A c \in Clients : mClientExecCaps[c] \in {Unknown, {}, Announced[c]}

(* A ticket has an owner, who announced its operation, from its issue on. *)
OwnerInv ==
    \A t \in Ticket : owner[t] # Unknown =>
        phase[t] # "unused" /\ Allowed(reqOf[t], owner[t])

(* What the loop is busy with was asked by the client it will answer. *)
BusyInv ==
    /\ sv.pc = "ack" => /\ sv.env.kind = "submit"
                        /\ owner[sv.ticket] = sv.client
                        /\ Allowed(sv.env.req, sv.client)
    /\ sv.pc = "wait" => sv.env.kind = "get"

RepliesInv ==
    \A c \in Clients : \A r \in Elements(toClient[c]) : GoodReply(owner, c, r)

ContentInv == CapsInv /\ OwnerInv /\ BusyInv /\ RepliesInv /\ TicketsPrivate

(* The elements of a longer and of a shorter queue. *)
LEMMA ElementsAppend ==
    ASSUME NEW S, NEW s \in Seq(S), NEW x \in S
    PROVE  Elements(Append(s, x)) \subseteq Elements(s) \union {x}
<1>1. /\ Len(s) \in Nat /\ Len(Append(s, x)) = Len(s) + 1
      /\ \A i \in 1..Len(s) : Append(s, x)[i] = s[i]
      /\ Append(s, x)[Len(s) + 1] = x
  BY AppendProperties, LenProperties
<1>2. ASSUME NEW i \in 1..Len(Append(s, x))
      PROVE  Append(s, x)[i] \in Elements(s) \union {x}
  <2>1. CASE i = Len(s) + 1
    BY <1>1, <2>1
  <2>2. CASE i \in 1..Len(s)
    BY <1>1, <2>2 DEF Elements
  <2> QED  BY <1>1, <2>1, <2>2
<1> QED  BY <1>2 DEF Elements

(* Taking the first element adds none, and the first one is one of them. *)
LEMMA ElementsTail ==
    ASSUME NEW S, NEW s \in Seq(S), s # <<>>
    PROVE  Elements(Tail(s)) \subseteq Elements(s) /\ Head(s) \in Elements(s)
<1>1. /\ Len(s) \in Nat \ {0} /\ Len(Tail(s)) = Len(s) - 1
      /\ \A i \in 1..Len(Tail(s)) : Tail(s)[i] = s[i + 1]
      /\ Head(s) = s[1]
  BY HeadTailProperties, EmptySeq, LenProperties
<1>2. Head(s) \in Elements(s)
  BY <1>1 DEF Elements
<1>3. ASSUME NEW i \in 1..Len(Tail(s)) PROVE Tail(s)[i] \in Elements(s)
  <2>1. i + 1 \in 1..Len(s) /\ Tail(s)[i] = s[i + 1]
    BY <1>1
  <2> QED  BY <2>1 DEF Elements
<1> QED  BY <1>2, <1>3 DEF Elements

(* Good responses stay good while owners keep their tickets. *)
LEMMA RepliesKept ==
    ASSUME TypeInv, RepliesInv,
           \A t \in Ticket : owner[t] # Unknown => owner'[t] = owner[t],
           \A c \in Clients : Elements(toClient'[c]) \subseteq Elements(toClient[c])
    PROVE  RepliesInv'
<1> SUFFICES ASSUME NEW c \in Clients, NEW r \in Elements(toClient'[c])
             PROVE  GoodReply(owner', c, r)
  BY DEF RepliesInv
<1>1. r \in Elements(toClient[c]) /\ GoodReply(owner, c, r)
  BY DEF RepliesInv
<1>2. r \in Reply
  BY <1>1, ElementOfSeq DEF TypeInv, ToClientTypes, Elements
<1>3. r.body.ticket \in Ticket \union {0}
  BY <1>2 DEF Reply, ResponseType
<1>4. c # Unknown
  BY IpcSystemAssumption
<1> QED  BY <1>1, <1>3, <1>4 DEF GoodReply

(* A good response may be added. *)
LEMMA ReplyAdded ==
    ASSUME TypeInv, RepliesInv, UNCHANGED owner,
           NEW c \in Clients, NEW env \in Envelope, NEW body \in ResponseType,
           SendToClient(c, env, body),
           GoodReply(owner, c, [req |-> env, body |-> body])
    PROVE  RepliesInv'
<1> DEFINE r0 == [req |-> env, body |-> body]
<1>1. r0 \in Reply /\ toClient[c] \in Seq(Reply)
  BY DEF Reply, TypeInv, ToClientTypes
<1> HIDE DEF r0
<1>2. \/ toClient' = toClient
      \/ /\ toClient'[c] = Append(toClient[c], r0)
         /\ \A d \in Clients \ {c} : toClient'[d] = toClient[d]
  BY SendToClientTyped DEF TypeInv, r0
<1>3. ASSUME NEW d \in Clients, NEW r \in Elements(toClient'[d])
      PROVE  r \in Elements(toClient[d]) \/ (d = c /\ r = r0)
  BY <1>1, <1>2, <1>3, ElementsAppend
<1> QED  BY <1>3 DEF RepliesInv, r0

(* Initially nobody has anything. *)
LEMMA ContentInit == Init => ContentInv
BY DEF Init, ContentInv, CapsInv, OwnerInv, BusyInv, Listening, RepliesInv,
       Elements, TicketsPrivate

(* What a client does: it lists the ticket of a good response. *)
LEMMA ContentClientStep ==
    ASSUME TypeInv, ContentInv, NEW c \in Clients, ClientStep(c)
    PROVE  ContentInv'
<1> USE DEF ContentInv
<1>1. UNCHANGED <<storeVars, serverVars>>
  BY DEF ClientStep, ClientInit, SubmitCommand, GetCommand, SendEnvelope,
         Receive, ReceiveTimeout, Interrupted, Quit
<1>2. CapsInv' /\ OwnerInv' /\ BusyInv'
  BY <1>1 DEF storeVars, serverVars, CapsInv, OwnerInv, BusyInv
<1>3. CASE Receive(c)
  <2> DEFINE r == Head(toClient[c])
  <2>1. toClient[c] \in Seq(Reply) /\ toClient[c] # <<>>
    BY <1>3 DEF Receive, TypeInv, ToClientTypes
  <2>2. r \in Elements(toClient[c])
    BY <2>1, ElementsTail
  <2>3. \A d \in Clients : Elements(toClient'[d]) \subseteq Elements(toClient[d])
    <3>1. toClient' = [toClient EXCEPT ![c] = Tail(toClient[c])]
      BY <1>3 DEF Receive
    <3> QED  BY <2>1, <3>1, ElementsTail DEF TypeInv, ToClientTypes
  <2>4. RepliesInv'
    BY <1>1, <2>3, RepliesKept DEF serverVars
  <2>5. GoodReply(owner, c, r)
    BY <2>2 DEF RepliesInv
  <2>6. \/ pending' = pending
        \/ pending' = [pending EXCEPT ![c] = pending[c] \ {cur[c].ticket}]
        \/ /\ pending' = [pending EXCEPT ![c] = pending[c] \union {r.body.ticket}]
           /\ r.body.kind = "submit" /\ r.body.ticket # 0
    <3>1. CASE Expected(c, r)
      <4> HIDE DEF r
      <4>1. pending' = [pending EXCEPT ![c] =
                    IF Ticketed(c) /\ r.body.ticket # 0
                    THEN pending[c] \union {r.body.ticket}
                    ELSE IF cur[c].kind = "get"
                              /\ r.body.status # "NOT_FINISHED"
                    THEN pending[c] \ {cur[c].ticket}
                    ELSE pending[c]]
        BY <1>3, <3>1 DEF Receive, HandleResponse, r
      <4>2. Ticketed(c) => r.body.kind = "submit"
        BY <3>1 DEF Expected, Ticketed
      <4> QED  BY <4>1, <4>2 DEF TypeInv, ClientTypes
    <3>2. CASE ~Expected(c, r)
      BY <1>3, <3>2 DEF Receive, HandleResponse
    <3> QED  BY <3>1, <3>2
  <2>7. TicketsPrivate'
    <3> HIDE DEF r
    <3> QED  BY <1>1, <2>5, <2>6
             DEF TicketsPrivate, GoodReply, serverVars, TypeInv, ClientTypes
  <2> QED  BY <1>2, <2>4, <2>7
<1>4. CASE ~Receive(c)
  <2>1. UNCHANGED <<pending, toClient>>
    BY <1>4 DEF ClientStep, ClientInit, SubmitCommand, GetCommand,
                SendEnvelope, ReceiveTimeout, Interrupted, Quit
  <2> QED  BY <1>1, <1>2, <2>1 DEF RepliesInv, TicketsPrivate, serverVars
<1> QED  BY <1>3, <1>4

(* What the server does with a message. *)
LEMMA ContentServe ==
    ASSUME TypeInv, ContentInv, NEW c \in Clients, Serve(c)
    PROVE  ContentInv'
<1> USE DEF ContentInv
<1> DEFINE env == Head(toServer[c])
<1>0. /\ sv = Listening /\ toServer[c] # <<>>
      /\ Take(c) /\ UNCHANGED clientVars
  BY DEF Serve, Handshake, NotAHandshake, SubmitForbidden, SubmitBlocking,
         SubmitNonBlocking, GetNow, GetBlocks, Incoming
<1>1. env \in Message(c)
  BY <1>0, TakeTyped DEF TypeInv
<1>2. /\ env.kind \in {"submit", "get", "handshake"}
      /\ env.kind # "handshake" => env \in Envelope
      /\ env.kind = "handshake" =>
            env.exec_functions = Announced[c] /\ verifyExecCaps(Announced[c])
      /\ env.kind = "submit" => env.req \in Requests
      /\ env.kind = "get" => env.ticket \in Ticket
  <2> HIDE DEF env
  <2> QED  BY <1>1, MessageFields, EnvelopeFields
<1> HIDE DEF env
<1>3. ASSUME UNCHANGED owner PROVE TicketsPrivate'
  BY <1>0, <1>3 DEF TicketsPrivate, clientVars
<1>4. ASSUME UNCHANGED <<sv, owner>> PROVE BusyInv'
  BY <1>0, <1>4 DEF BusyInv, Listening
<1>5. ASSUME clientHasCapabilityFor(env.req, mClientExecCaps[c]), Registered(c)
      PROVE  Allowed(env.req, c)
  BY <1>5 DEF clientHasCapabilityFor, Registered, CapsInv, Allowed
<1>6. CASE Handshake(c)
  <2>1. /\ env.kind = "handshake"
        /\ Register(c, ToUint8(env.exec_functions))
        /\ verifyExecCaps(ToUint8(env.exec_functions)) => UNCHANGED toClient
        /\ UNCHANGED <<storeVars, sv, restarts, owner>>
    BY <1>6 DEF Handshake, Incoming, env
  <2>2. ToUint8(env.exec_functions) = Announced[c]
    BY <1>2, <2>1, IpcSystemAssumption DEF ToUint8, Uint8
  <2>3. CapsInv'
    BY <2>1, <2>2 DEF CapsInv, Register, TypeInv, ServerTypes
  <2>4. OwnerInv' /\ RepliesInv'
    BY <1>2, <2>1, <2>2 DEF OwnerInv, storeVars, RepliesInv
  <2> QED  BY <1>3, <1>4, <2>1, <2>3, <2>4
<1>7. ASSUME NEW parses \in BOOLEAN, NotAHandshake(c, parses)
      PROVE  ContentInv'
  <2>1. /\ env.kind \in {"submit", "get"}
        /\ SendToClient(c, env, GetResp(0, InvalidInput))
        /\ Register(c, {}) \/ UNCHANGED mClientExecCaps
        /\ UNCHANGED <<storeVars, sv, restarts, owner>>
    BY <1>7 DEF NotAHandshake, sendBadResponse, env
  <2>2. GoodReply(owner, c, [req |-> env, body |-> GetResp(0, InvalidInput)])
    BY ResponseFields, FailTyped DEF GoodReply
  <2>3. RepliesInv'
    BY <1>2, <2>1, <2>2, ReplyAdded, BadResponseTyped
  <2>4. CapsInv' /\ OwnerInv'
    BY <2>1 DEF CapsInv, Register, TypeInv, ServerTypes, OwnerInv, storeVars
  <2> QED  BY <1>3, <1>4, <2>1, <2>3, <2>4
<1>8. CASE SubmitForbidden(c)
  <2>1. /\ env.kind = "submit"
        /\ SendToClient(c, env, SubmitResp(0, InvalidInput))
        /\ UNCHANGED <<storeVars, serverVars>>
    BY <1>8 DEF SubmitForbidden, Incoming, env
  <2>2. GoodReply(owner, c, [req |-> env, body |-> SubmitResp(0, InvalidInput)])
    BY ResponseFields, FailTyped DEF GoodReply
  <2>3. RepliesInv'
    BY <1>2, <2>1, <2>2, ReplyAdded, BadResponseTyped DEF serverVars
  <2> QED  BY <1>3, <1>4, <2>1, <2>3 DEF CapsInv, OwnerInv, storeVars, serverVars
<1>9. CASE SubmitBlocking(c)
  <2>1. /\ env.kind = "submit"
        /\ Store!RunBlocking(env.req)
        /\ SendToClient(c, env, resp')
        /\ clientHasCapabilityFor(env.req, mClientExecCaps[c]) /\ Registered(c)
        /\ UNCHANGED serverVars
    BY <1>9 DEF SubmitBlocking, Incoming, env
  <2>2. /\ resp' \in ResponseType
        /\ resp' = SubmitResp(0, execute(env.req))
        /\ UNCHANGED <<phase, reqOf>>
    BY <1>2, <2>1, RunBlockingCall DEF TypeInv, StoreTypes
  <2>3. GoodReply(owner, c, [req |-> env, body |-> resp'])
    BY <1>5, <2>1, <2>2, ResponseFields DEF GoodReply
  <2>4. RepliesInv'
    BY <1>2, <2>1, <2>2, <2>3, ReplyAdded DEF serverVars
  <2> QED  BY <1>3, <1>4, <2>1, <2>2, <2>4 DEF CapsInv, OwnerInv, serverVars
<1>10. ASSUME NEW t \in Ticket, SubmitNonBlocking(c, t)
       PROVE  ContentInv'
  <2>1. /\ env.kind = "submit"
        /\ Store!Submit(t, env.req)
        /\ clientHasCapabilityFor(env.req, mClientExecCaps[c]) /\ Registered(c)
        /\ sv' = [pc |-> "ack", client |-> c, env |-> env, ticket |-> t]
        /\ owner' = [owner EXCEPT ![t] = c]
        /\ UNCHANGED <<mClientExecCaps, restarts, toClient>>
    BY <1>10 DEF SubmitNonBlocking, Incoming, env
  <2>2. /\ phase[t] = "unused"
        /\ phase' = [phase EXCEPT ![t] = "pending"]
        /\ reqOf' = [reqOf EXCEPT ![t] = env.req]
    BY <1>2, <2>1, SubmitCall DEF TypeInv
  <2>3. owner[t] = Unknown
    BY <2>2 DEF OwnerInv
  <2>4. \A u \in Ticket : owner[u] # Unknown => owner'[u] = owner[u]
    BY <2>1, <2>3 DEF TypeInv, ServerTypes
  <2>5. RepliesInv'
    BY <2>1, <2>4, RepliesKept
  <2>6. OwnerInv'
    BY <1>5, <2>1, <2>2 DEF OwnerInv, TypeInv, ServerTypes, StoreTypes
  <2>7. BusyInv'
    BY <1>5, <2>1 DEF BusyInv, TypeInv, ServerTypes
  <2>8. TicketsPrivate'
    BY <1>0, <2>4, IpcSystemAssumption
    DEF TicketsPrivate, clientVars, TypeInv, ClientTypes
  <2> QED  BY <2>1, <2>5, <2>6, <2>7, <2>8 DEF CapsInv
<1>11. CASE GetNow(c)
  <2>1. /\ env.kind = "get"
        /\ \/ Store!GetFinished(env.ticket) \/ Store!GetPending(env.ticket)
           \/ Store!GetUnknown(env.ticket)
        /\ SendToClient(c, env, resp')
        /\ UNCHANGED serverVars
    BY <1>11 DEF GetNow, Incoming, env
  <2>2. /\ resp' \in ResponseType /\ resp'.kind = "get" /\ UNCHANGED reqOf
        /\ \A u \in Ticket : phase'[u] = "unused" <=> phase[u] = "unused"
    BY <1>2, <2>1, GetCall DEF TypeInv, StoreTypes
  <2>3. GoodReply(owner, c, [req |-> env, body |-> resp'])
    BY <2>1, <2>2 DEF GoodReply
  <2>4. RepliesInv'
    BY <1>2, <2>1, <2>2, <2>3, ReplyAdded DEF serverVars
  <2> QED  BY <1>3, <1>4, <2>1, <2>2, <2>4 DEF CapsInv, OwnerInv, serverVars
<1>12. CASE GetBlocks(c)
  <2>1. /\ env.kind = "get"
        /\ sv' = [pc |-> "wait", client |-> c, env |-> env,
                  ticket |-> env.ticket]
        /\ UNCHANGED <<storeVars, mClientExecCaps, restarts, owner, toClient>>
    BY <1>12 DEF GetBlocks, Incoming, env
  <2>2. BusyInv'
    BY <2>1 DEF BusyInv
  <2> QED  BY <1>3, <2>1, <2>2 DEF CapsInv, OwnerInv, RepliesInv, storeVars
<1> QED  BY <1>6, <1>7, <1>8, <1>9, <1>10, <1>11, <1>12 DEF Serve

(* What it does when a call ends. *)
LEMMA ContentFinishCall ==
    ASSUME TypeInv, ContentInv, FinishCall
    PROVE  ContentInv'
<1> USE DEF ContentInv
<1>1. Answer /\ sv.pc \in {"ack", "wait"}
  BY DEF FinishCall, AnswerTicket, GetWakes, GetExpires
<1>2. sv.client \in Clients /\ sv.env \in Envelope /\ sv.ticket \in Ticket
  BY <1>1, SvFields DEF TypeInv, ServerTypes
<1>3. /\ GoodReply(owner, sv.client, [req |-> sv.env, body |-> resp'])
      /\ resp' \in ResponseType /\ UNCHANGED reqOf
      /\ \A u \in Ticket : phase'[u] = "unused" <=> phase[u] = "unused"
  <2>1. CASE AnswerTicket
    <3>1. sv.pc = "ack" /\ Store!Acknowledge(sv.ticket)
      BY <2>1 DEF AnswerTicket
    <3>2. /\ resp' \in ResponseType /\ resp' = SubmitResp(sv.ticket, NotFinished)
          /\ UNCHANGED <<phase, reqOf>>
      BY <1>2, <3>1, AcknowledgeCall DEF TypeInv, StoreTypes
    <3> QED  BY <3>1, <3>2, ResponseFields DEF GoodReply, BusyInv
  <2>2. CASE GetWakes \/ GetExpires
    <3>1. /\ sv.pc = "wait"
          /\ Store!GetFinished(sv.ticket) \/ Store!GetPending(sv.ticket)
      BY <2>2 DEF GetWakes, GetExpires
    <3>2. /\ resp' \in ResponseType /\ resp'.kind = "get" /\ UNCHANGED reqOf
          /\ \A u \in Ticket : phase'[u] = "unused" <=> phase[u] = "unused"
      BY <1>2, <3>1, GetCall DEF TypeInv, StoreTypes
    <3> QED  BY <3>1, <3>2 DEF GoodReply, BusyInv
  <2> QED  BY <2>1, <2>2 DEF FinishCall
<1>4. RepliesInv'
  BY <1>1, <1>2, <1>3, ReplyAdded DEF Answer
<1>5. BusyInv'
  BY <1>1 DEF Answer, BusyInv, Listening
<1> QED  BY <1>1, <1>3, <1>4, <1>5
         DEF Answer, CapsInv, OwnerInv, TicketsPrivate, clientVars

(* What the workers, a crash and a restart do. *)
LEMMA ContentOther ==
    ASSUME TypeInv, ContentInv,
           \/ \E t \in Ticket : WorkerFinishes(t)
           \/ ServerDies \/ ServerRestarts \/ UNCHANGED vars
    PROVE  ContentInv'
<1> USE DEF ContentInv
<1>1. ASSUME NEW t \in Ticket, WorkerFinishes(t) PROVE ContentInv'
  <2>1. /\ phase' = [phase EXCEPT ![t] = "finished"] /\ phase[t] = "pending"
        /\ UNCHANGED <<reqOf, resp, serverVars, clientVars, toServer, toClient>>
    BY <1>1 DEF WorkerFinishes, Store!Finish
  <2>2. OwnerInv'
    BY <2>1 DEF OwnerInv, serverVars, TypeInv, StoreTypes
  <2> QED  BY <2>1, <2>2 DEF CapsInv, BusyInv, RepliesInv, TicketsPrivate,
                             serverVars, clientVars
<1>2. CASE ServerDies
  <2>1. \A c \in Clients : Elements(toClient'[c]) \subseteq Elements(toClient[c])
    <3> SUFFICES ASSUME NEW c \in Clients, NEW i \in 1..Len(toClient'[c])
                 PROVE  toClient'[c][i] \in Elements(toClient[c])
      BY DEF Elements
    <3>1. /\ Len(toClient'[c]) <= Len(toClient[c])
          /\ toClient'[c][i] = toClient[c][i]
      BY <1>2, DyingCuts DEF TypeInv
    <3>2. Len(toClient'[c]) \in Nat /\ Len(toClient[c]) \in Nat
      BY <1>2, DyingCuts, LenProperties DEF TypeInv, ToClientTypes
    <3>3. i \in 1..Len(toClient[c])
      BY <3>1, <3>2
    <3> QED  BY <3>1, <3>3 DEF Elements
  <2>2. RepliesInv'
    BY <1>2, <2>1, RepliesKept DEF ServerDies
  <2>3. CapsInv' /\ OwnerInv' /\ BusyInv' /\ TicketsPrivate'
    BY <1>2 DEF ServerDies, CapsInv, OwnerInv, BusyInv, Dead, TicketsPrivate,
                clientVars
  <2> QED  BY <2>2, <2>3
<1>3. CASE ServerRestarts
  BY <1>3 DEF ServerRestarts, CapsInv, OwnerInv, BusyInv, Listening,
              RepliesInv, TicketsPrivate, storeVars, clientVars
<1>4. CASE UNCHANGED vars
  BY <1>4 DEF vars, CapsInv, OwnerInv, BusyInv, RepliesInv, TicketsPrivate,
              storeVars, serverVars, clientVars
<1> QED  BY <1>1, <1>2, <1>3, <1>4

(* Types and contents are inductive together. *)
LEMMA ContentStep == TypeInv /\ ContentInv /\ [Next]_vars => ContentInv'
BY ContentClientStep, ContentServe, ContentFinishCall, ContentOther
DEF Next, Quiet

(* They hold of the system. *)
LEMMA ContentInvariant == Spec => [](TypeInv /\ ContentInv)
BY TypeInit, TypeStep, ContentInit, ContentStep, PTL DEF Spec

(* Whatever responses a client had given up on, it lists tickets that were  *)
(* issued to it only, for any number of clients, commands and restarts.     *)
THEOREM TicketsStayPrivate == Spec => []TicketsPrivate
<1>1. ContentInv => TicketsPrivate
  BY DEF ContentInv
<1> QED  BY <1>1, ContentInvariant, PTL

(* The server never computes for a client what the client did not announce, *)
(* whatever it took for a handshake after a restart.                        *)
THEOREM AnnouncedOnly == Spec => []ServesAnnouncedOnly
<1>1. ContentInv => ServesAnnouncedOnly
  BY DEF ContentInv, RepliesInv, GoodReply, OwnerInv, Allowed,
         ServesAnnouncedOnly
<1> QED  BY <1>1, ContentInvariant, PTL

-----------------------------------------------------------------------------
(* Until the first crash, the first message the server takes from a client  *)
(* is its handshake: a client it does not know has sent nothing, or has its *)
(* handshake at the head of its queue.                                      *)
HandshakeFirst ==
    restarts = 0 => \A c \in Clients : ~Registered(c) =>
        IF toServer[c] = <<>> THEN cpc[c] \in {"start", "exited"}
        ELSE toServer[c][1].kind = "handshake"

(* A message that is appended leaves the first one where it was. *)
LEMMA FirstKept ==
    ASSUME ToServerTypes, NEW c \in Clients, NEW m \in Message(c),
           SendToServer(c, m)
    PROVE  /\ toServer'[c] # <<>>
           /\ toServer'[c][1] = IF toServer[c] = <<>> THEN m ELSE toServer[c][1]
<1> DEFINE q == toServer[c]
<1>1. q \in Seq(Message(c)) /\ toServer'[c] = Append(q, m)
  BY SendToServerTyped DEF ToServerTypes
<1> HIDE DEF q
<1>2. /\ Append(q, m) # <<>>
      /\ \A i \in 1..Len(q) : Append(q, m)[i] = q[i]
      /\ Append(q, m)[Len(q) + 1] = m
  BY <1>1, AppendProperties
<1>3. Len(q) \in Nat /\ (q = <<>> <=> Len(q) = 0)
  BY <1>1, EmptySeq, LenProperties
<1>4. CASE q = <<>>
  BY <1>1, <1>2, <1>3, <1>4 DEF q
<1>5. CASE q # <<>>
  BY <1>1, <1>2, <1>3, <1>5 DEF q
<1> QED  BY <1>4, <1>5

(* The clients keep their handshake first. *)
LEMMA HandshakeFirstClient ==
    ASSUME TypeInv, HandshakeFirst, NEW c \in Clients, ClientStep(c)
    PROVE  HandshakeFirst'
<1> USE DEF TypeInv
<1>1. UNCHANGED serverVars
  BY DEF ClientStep, ClientInit, SubmitCommand, GetCommand, SendEnvelope,
         Receive, ReceiveTimeout, Interrupted, Quit
<1>2. CASE ClientInit(c)
  <2>1. CASE verifyExecCaps(Announced[c])
    <3> DEFINE h == FirstHandshake(Announced[c])
    <3>1. h \in Message(c) /\ h.kind = "handshake"
      BY <2>1 DEF Message, FirstHandshake
    <3>2. /\ SendToServer(c, h)
          /\ cpc' = [cpc EXCEPT ![c] = "idle"]
      BY <1>2, <2>1 DEF ClientInit, sendFirstHandshake
    <3> HIDE DEF h
    <3> QED  BY <1>1, <3>1, <3>2, FirstKept, SendToServerTyped
             DEF HandshakeFirst, Registered, serverVars, ClientTypes
  <2>2. CASE ~verifyExecCaps(Announced[c])
    BY <1>1, <1>2, <2>2
    DEF ClientInit, HandshakeFirst, Registered, serverVars, ClientTypes
  <2> QED  BY <2>1, <2>2
<1>n. cur[c] \in Envelope /\ cur[c].no + 1 \in Nat
  BY EnvelopeFields DEF ClientTypes
<1>3. ASSUME NEW env \in Message(c), SendEnvelope(c, env)
      PROVE  HandshakeFirst'
  BY <1>1, <1>3, FirstKept, SendToServerTyped
  DEF SendEnvelope, HandshakeFirst, Registered, serverVars, ClientTypes
<1>4. ASSUME NEW r \in Requests, NEW mode \in SubmitModes,
             SubmitCommand(c, mode, r)
      PROVE  HandshakeFirst'
  <2>1. Submit(cur[c].no + 1, mode, r) \in Message(c)
    BY <1>n DEF Envelope, Submit, Message
  <2> QED  BY <1>3, <1>4, <2>1 DEF SubmitCommand
<1>5. ASSUME NEW t \in Ticket, NEW wait \in WaitModes, GetCommand(c, wait, t)
      PROVE  HandshakeFirst'
  <2>1. Get(cur[c].no + 1, wait, t) \in Message(c)
    BY <1>n DEF Envelope, Get, Message
  <2> QED  BY <1>3, <1>5, <2>1 DEF GetCommand
<1>6. CASE Receive(c) \/ ReceiveTimeout(c) \/ Interrupted(c) \/ Quit(c)
  <2>1. /\ cpc[c] \in {"idle", "await"} /\ UNCHANGED toServer
        /\ \E p : cpc' = [cpc EXCEPT ![c] = p]
    BY <1>6 DEF Receive, HandleResponse, CallFails, ReceiveTimeout,
                Interrupted, Quit
  <2> QED  BY <1>1, <2>1
           DEF HandshakeFirst, Registered, serverVars, ClientTypes
<1> QED  BY <1>2, <1>4, <1>5, <1>6 DEF ClientStep

(* Initially, and at every step. *)
LEMMA HandshakeFirstStep ==
    TypeInv /\ ContentInv /\ HandshakeFirst /\ CapsAsAnnounced /\ [Next]_vars
        => HandshakeFirst' /\ CapsAsAnnounced'
<1> SUFFICES ASSUME TypeInv, ContentInv, HandshakeFirst, CapsAsAnnounced,
                    [Next]_vars
             PROVE  HandshakeFirst' /\ CapsAsAnnounced'
  OBVIOUS
<1>1. ASSUME NEW c \in Clients, ClientStep(c)
      PROVE  HandshakeFirst' /\ CapsAsAnnounced'
  <2>1. UNCHANGED serverVars
    BY <1>1 DEF ClientStep, ClientInit, SubmitCommand, GetCommand,
                SendEnvelope, Receive, ReceiveTimeout, Interrupted, Quit
  <2> QED  BY <1>1, <2>1, HandshakeFirstClient
           DEF CapsAsAnnounced, Registered, serverVars
<1>2. ASSUME NEW c \in Clients, Serve(c)
      PROVE  HandshakeFirst' /\ CapsAsAnnounced'
  <2>0. toServer[c] # <<>> /\ Take(c) /\ UNCHANGED <<clientVars, restarts>>
    BY <1>2 DEF Serve, Handshake, NotAHandshake, SubmitForbidden,
                SubmitBlocking, SubmitNonBlocking, GetNow, GetBlocks,
                Incoming, serverVars
  <2>1. /\ Head(toServer[c]) \in Message(c)
        /\ Head(toServer[c]) = toServer[c][1]
        /\ \A d \in Clients \ {c} : toServer'[d] = toServer[d]
    BY <2>0, TakeTyped DEF TypeInv, ToServerTypes
  <2>2. ASSUME Registered(c), UNCHANGED mClientExecCaps
        PROVE  HandshakeFirst' /\ CapsAsAnnounced'
    BY <2>0, <2>1, <2>2
    DEF HandshakeFirst, CapsAsAnnounced, Registered, clientVars
  <2>3. CASE Handshake(c)
    <3> DEFINE env == Head(toServer[c])
    <3>1. env.kind = "handshake" /\ Register(c, ToUint8(env.exec_functions))
      BY <2>3 DEF Handshake, Incoming
    <3>2. env.exec_functions = Announced[c]
      <4> HIDE DEF env
      <4> QED  BY <2>1, <3>1, MessageFields DEF env
    <3>3. ToUint8(env.exec_functions) = Announced[c] /\ Announced[c] # Unknown
      BY <3>2, IpcSystemAssumption DEF ToUint8, Uint8
    <3>4. mClientExecCaps' = [mClientExecCaps EXCEPT ![c] = Announced[c]]
      BY <3>1, <3>3 DEF Register
    <3> QED  BY <2>0, <2>1, <3>3, <3>4
             DEF HandshakeFirst, CapsAsAnnounced, Registered, clientVars,
                 TypeInv, ServerTypes
  <2>4. ASSUME NEW parses \in BOOLEAN, NotAHandshake(c, parses)
        PROVE  HandshakeFirst' /\ CapsAsAnnounced'
    <3>1. /\ Head(toServer[c]).kind \in {"submit", "get"} /\ ~Registered(c)
          /\ Register(c, {}) \/ UNCHANGED mClientExecCaps
      BY <2>4 DEF NotAHandshake
    <3>2. restarts # 0
      BY <2>0, <2>1, <3>1 DEF HandshakeFirst
    <3>3. restarts > 0
      BY <3>2 DEF TypeInv, ServerTypes
    <3> QED  BY <2>0, <3>1, <3>2, <3>3
             DEF HandshakeFirst, CapsAsAnnounced, Registered, Register,
                 TypeInv, ServerTypes
  <2>5. CASE \/ SubmitForbidden(c) \/ SubmitBlocking(c)
             \/ \E t \in Ticket : SubmitNonBlocking(c, t)
             \/ GetNow(c) \/ GetBlocks(c)
    <3>1. Registered(c) /\ UNCHANGED mClientExecCaps
      BY <2>5 DEF SubmitForbidden, SubmitBlocking, SubmitNonBlocking, GetNow,
                  GetBlocks, serverVars
    <3> QED  BY <2>2, <3>1
  <2> QED  BY <1>2, <2>3, <2>4, <2>5 DEF Serve
<1>3. CASE \/ FinishCall \/ ServerRestarts \/ UNCHANGED vars
           \/ \E t \in Ticket : WorkerFinishes(t)
  <2>1. UNCHANGED <<mClientExecCaps, restarts, toServer, cpc>>
    BY <1>3 DEF FinishCall, AnswerTicket, GetWakes, GetExpires, Answer,
                ServerRestarts, vars, WorkerFinishes, serverVars, clientVars
  <2> QED  BY <2>1 DEF HandshakeFirst, CapsAsAnnounced, Registered
<1>4. CASE ServerDies
  <2>1. /\ restarts' = restarts + 1
        /\ mClientExecCaps' = [c \in Clients |-> Unknown]
    BY <1>4 DEF ServerDies
  <2> QED  BY <2>1 DEF HandshakeFirst, CapsAsAnnounced, Registered, TypeInv,
                       ServerTypes
<1> QED  BY <1>1, <1>2, <1>3, <1>4 DEF Next, Quiet

(* What the server knows of a client is what the client announced, or,      *)
(* after a crash only, the empty mask.                                      *)
THEOREM CapsStayAnnounced == Spec => []CapsAsAnnounced
<1>1. Init => HandshakeFirst /\ CapsAsAnnounced
  BY DEF Init, HandshakeFirst, CapsAsAnnounced, Registered
<1> QED  BY <1>1, HandshakeFirstStep, ContentInvariant, PTL DEF Spec
=============================================================================
