-------------------------- MODULE IpcTickets_proofs --------------------------
(***************************************************************************)
(* A client's list of tickets against the server's table: while nobody     *)
(* gave up and the server did not die, they are the same, up to the one    *)
(* response that is under way.                                             *)
(***************************************************************************)
EXTENDS IpcFlight_proofs

(* The tickets the server holds for client c. *)
Held(c) == {t \in Ticket : owner[t] = c /\ phase[t] \in {"pending", "finished"}}

(* What c will list when it has read the response that is under way. *)
Listed(c) ==
    IF sv.pc = "ack" /\ sv.client = c THEN pending[c] \union {sv.ticket}
    ELSE IF toClient[c] # <<>> THEN ListAfter(c, toClient[c][1])
    ELSE pending[c]

ListInv ==
    restarts = 0 => \A c \in Clients : InTouch(c) => Held(c) = Listed(c)

(* A get in a queue, or in the loop, is for a ticket of the client that     *)
(* sent it; an acknowledgement is for a non-blocking submit.                *)
OwnGets ==
    /\ \A c \in Clients : \A e \in Elements(toServer[c]) :
          e.kind = "get" => owner[e.ticket] = c
    /\ sv.pc = "ack" => sv.env.mode = "NONBLOCKING"
    /\ sv.pc = "wait" => sv.ticket = sv.env.ticket
                            /\ owner[sv.ticket] = sv.client

ListContext ==
    /\ TypeInv /\ ContentInv /\ FlightInv
    /\ HandshakeFirst /\ CapsAsAnnounced /\ OwnGets

-----------------------------------------------------------------------------
(* Gets are for own tickets. *)

(* Owners keep their tickets. *)
LEMMA OwnersKept ==
    ASSUME TypeInv, ContentInv, [Next]_vars
    PROVE  \A t \in Ticket : owner[t] # Unknown => owner'[t] = owner[t]
<1>1. ASSUME NEW c \in Clients, NEW u \in Ticket, SubmitNonBlocking(c, u),
             NEW t \in Ticket, owner[t] # Unknown
      PROVE  owner'[t] = owner[t]
  <2>1. phase[u] = "unused" /\ owner' = [owner EXCEPT ![u] = c]
    BY <1>1 DEF SubmitNonBlocking, Store!Submit
  <2>2. owner[u] = Unknown
    BY <2>1 DEF ContentInv, OwnerInv
  <2> QED  BY <1>1, <2>1, <2>2 DEF TypeInv, ServerTypes
<1>2. ASSUME ~(\E c \in Clients, u \in Ticket : SubmitNonBlocking(c, u))
      PROVE  UNCHANGED owner
  <2>1. ASSUME NEW c \in Clients, Serve(c) PROVE UNCHANGED owner
    BY <1>2, <2>1 DEF Serve, Handshake, NotAHandshake, SubmitForbidden,
                      SubmitBlocking, GetNow, GetBlocks, serverVars
  <2>2. ASSUME NEW c \in Clients, ClientStep(c) PROVE UNCHANGED owner
    BY <2>2, ClientStepKinds DEF serverVars
  <2>3. CASE \/ FinishCall \/ ServerDies \/ ServerRestarts \/ UNCHANGED vars
             \/ \E t \in Ticket : WorkerFinishes(t)
    BY <2>3 DEF FinishCall, AnswerTicket, GetWakes, GetExpires, Answer,
                ServerDies, ServerRestarts, vars, WorkerFinishes, serverVars
  <2> QED  BY <2>1, <2>2, <2>3 DEF Next, Quiet
<1> QED  BY <1>1, <1>2

(* What is left in a queue to the server was there, or was just sent. *)
LEMMA QueueSources ==
    ASSUME TypeInv, [Next]_vars, NEW c \in Clients,
           NEW e \in Elements(toServer'[c])
    PROVE  \/ e \in Elements(toServer[c])
           \/ e.kind = "handshake"
           \/ e.kind = "get" => e.ticket \in pending[c]
<1>q. toServer[c] \in Seq(Message(c))
  BY DEF TypeInv, ToServerTypes
<1>1. ASSUME NEW d \in Clients, ClientStep(d)
      PROVE  \/ e \in Elements(toServer[c])
             \/ e.kind = "handshake"
             \/ e.kind = "get" => e.ticket \in pending[c]
  <2>1. CASE toServer'[c] = toServer[c]
    BY <2>1
  <2>2. CASE toServer'[c] # toServer[c]
    <3>1. d = c /\ \/ StartStep(c)
                   \/ \E env \in Envelope : env.kind # "none" /\ SendStep(c, env)
      BY <1>1, <2>2, ClientStepKinds DEF SameClient, ReadStep, LeaveStep
    <3>2. PICK m \in Message(c) :
            /\ toServer'[c] = Append(toServer[c], m)
            /\ m.kind = "handshake" \/ (m.kind = "get" => m.ticket \in pending[c])
      <4>1. CASE StartStep(c)
        <5> DEFINE h == FirstHandshake(Announced[c])
        <5>1. /\ toServer'[c] = Append(toServer[c], h)
              /\ verifyExecCaps(Announced[c])
          BY <2>2, <4>1 DEF StartStep
        <5>2. h \in Message(c) /\ h.kind = "handshake"
          BY <5>1 DEF Message, FirstHandshake
        <5> HIDE DEF h
        <5> QED  BY <5>1, <5>2
      <4>2. ASSUME NEW env \in Envelope, env.kind # "none", SendStep(c, env)
            PROVE  /\ env \in Message(c)
                   /\ toServer'[c] = Append(toServer[c], env)
                   /\ env.kind = "get" => env.ticket \in pending[c]
        BY <4>2 DEF SendStep, Message
      <4> QED  BY <3>1, <4>1, <4>2
    <3>3. e \in Elements(toServer[c]) \/ e = m
      BY <1>q, <3>2, ElementsAppend
    <3> QED  BY <3>2, <3>3
  <2> QED  BY <2>1, <2>2
<1>2. ASSUME NEW d \in Clients, Serve(d) PROVE e \in Elements(toServer[c])
  <2>1. /\ toServer[d] # <<>> /\ toServer'[d] = Tail(toServer[d])
        /\ \A f \in Clients \ {d} : toServer'[f] = toServer[f]
    BY <1>2, ServeKinds
  <2>2. CASE c = d
    BY <1>q, <2>1, <2>2, ElementsTail
  <2>3. CASE c # d
    BY <2>1, <2>3
  <2> QED  BY <2>2, <2>3
<1>3. ASSUME \/ FinishCall \/ ServerRestarts \/ UNCHANGED vars
             \/ \E t \in Ticket : WorkerFinishes(t)
      PROVE  e \in Elements(toServer[c])
  BY <1>3, FinishCallKinds, OtherKinds
<1>4. ASSUME ServerDies PROVE e \in Elements(toServer[c])
  <2>1. PICK k \in 0..Len(toServer[c]) :
          /\ Len(toServer'[c]) = Len(toServer[c]) - k
          /\ \A i \in 1..Len(toServer'[c]) : toServer'[c][i] = toServer[c][i + k]
    BY <1>4, DyingCuts DEF TypeInv
  <2>2. Len(toServer[c]) \in Nat
    BY <1>q, LenProperties
  <2>3. PICK i \in 1..Len(toServer'[c]) : e = toServer'[c][i]
    BY DEF Elements
  <2>4. i + k \in 1..Len(toServer[c]) /\ e = toServer[c][i + k]
    BY <2>1, <2>2, <2>3
  <2> QED  BY <2>4 DEF Elements
<1> QED  BY <1>1, <1>2, <1>3, <1>4 DEF Next, Quiet

(* OwnGets is inductive. *)
LEMMA OwnGetsStep ==
    TypeInv /\ ContentInv /\ OwnGets /\ [Next]_vars => OwnGets'
<1> SUFFICES ASSUME TypeInv, ContentInv, OwnGets, [Next]_vars PROVE OwnGets'
  OBVIOUS
<1>1. \A t \in Ticket : owner[t] # Unknown => owner'[t] = owner[t]
  BY OwnersKept
<1>2. ASSUME NEW c \in Clients, NEW e \in Elements(toServer'[c]), e.kind = "get"
      PROVE  owner'[e.ticket] = c
  <2>1. owner[e.ticket] = c
    <3>1. CASE e \in Elements(toServer[c])
      BY <1>2, <3>1 DEF OwnGets
    <3>2. CASE e.ticket \in pending[c]
      BY <3>2 DEF ContentInv, TicketsPrivate
    <3> QED  BY <1>2, <3>1, <3>2, QueueSources
  <2>2. e.ticket \in Ticket
    <3>1. ToServerTypes'
      BY TypeStep DEF TypeInv
    <3>2. e \in Message(c)
      <4>1. toServer'[c] \in Seq(Message(c))
        BY <3>1 DEF ToServerTypes, Message
      <4> QED  BY <4>1, ElementOfSeq DEF Elements
    <3> QED  BY <1>2, <3>2, MessageFields, EnvelopeFields
  <2> QED  BY <1>1, <2>1, <2>2, IpcSystemAssumption
<1>3. /\ sv'.pc = "ack" => sv'.env.mode = "NONBLOCKING"
      /\ sv'.pc = "wait" => sv'.ticket = sv'.env.ticket
                               /\ owner'[sv'.ticket] = sv'.client
  <2>1. CASE sv' = sv
    <3>1. sv.pc = "wait" => sv.ticket \in Ticket /\ sv.client \in Clients
      BY SvFields DEF TypeInv, ServerTypes
    <3>2. sv.pc = "wait" => owner[sv.ticket] # Unknown
      BY <3>1, IpcSystemAssumption DEF OwnGets
    <3> QED  BY <1>1, <2>1, <3>1, <3>2 DEF OwnGets
  <2>2. ASSUME NEW c \in Clients, NEW t \in Ticket, SubmitNonBlocking(c, t)
        PROVE  sv'.pc = "ack" /\ sv'.env.mode = "NONBLOCKING"
    BY <2>2 DEF SubmitNonBlocking
  <2>3. ASSUME NEW c \in Clients, GetBlocks(c)
        PROVE  /\ sv'.pc = "wait" /\ sv'.ticket = sv'.env.ticket
               /\ owner'[sv'.ticket] = sv'.client
    <3> DEFINE env == Head(toServer[c])
    <3>1. /\ toServer[c] # <<>> /\ env.kind = "get" /\ UNCHANGED owner
          /\ sv' = [pc |-> "wait", client |-> c, env |-> env,
                    ticket |-> env.ticket]
      BY <2>3 DEF GetBlocks, Incoming
    <3>2. env \in Elements(toServer[c])
      BY <3>1, ElementsTail DEF TypeInv, ToServerTypes
    <3> HIDE DEF env
    <3> QED  BY <3>1, <3>2 DEF OwnGets
  <2>4. CASE sv'.pc \in {"recv", "dead"}
    BY <2>4
  <2>5. \/ sv' = sv \/ sv'.pc \in {"recv", "dead"}
        \/ \E c \in Clients, t \in Ticket : SubmitNonBlocking(c, t)
        \/ \E c \in Clients : GetBlocks(c)
    <3>1. ASSUME NEW c \in Clients, ClientStep(c) PROVE sv' = sv
      BY <3>1, ClientStepKinds DEF serverVars
    <3>2. ASSUME NEW c \in Clients, Serve(c)
          PROVE  \/ sv' = sv \/ GetBlocks(c)
                 \/ \E t \in Ticket : SubmitNonBlocking(c, t)
      BY <3>2 DEF Serve, Handshake, NotAHandshake, SubmitForbidden,
                  SubmitBlocking, GetNow, serverVars
    <3>3. CASE \/ FinishCall \/ ServerDies \/ ServerRestarts \/ UNCHANGED vars
               \/ \E t \in Ticket : WorkerFinishes(t)
      BY <3>3 DEF FinishCall, AnswerTicket, GetWakes, GetExpires, Answer,
                  ServerDies, ServerRestarts, vars, WorkerFinishes,
                  serverVars, Listening, Dead
    <3> QED  BY <3>1, <3>2, <3>3 DEF Next, Quiet
  <2> QED  BY <2>1, <2>2, <2>3, <2>4, <2>5
<1> QED  BY <1>2, <1>3 DEF OwnGets

-----------------------------------------------------------------------------
(* The list and the table. *)

(* What a client will list depends on its own state and on the call the     *)
(* server is in.                                                            *)
LEMMA ListedFrame ==
    ASSUME NEW d \in Clients, SameClient(d),
           ~(sv.pc = "ack" /\ sv.client = d), ~(sv'.pc = "ack" /\ sv'.client = d)
    PROVE  Listed(d)' = Listed(d)
BY DEF SameClient, Listed, ListAfter, Expected, Ticketed

(* A get takes at most its own ticket from the table, and then says so. *)
LEMMA GetEffect ==
    ASSUME TypeInv, NEW t \in Ticket, UNCHANGED owner,
           Store!GetFinished(t) \/ Store!GetPending(t) \/ Store!GetUnknown(t)
    PROVE  /\ resp' \in ResponseType /\ resp'.kind = "get"
           /\ \A d \in Clients : owner[t] # d => Held(d)' = Held(d)
           /\ \A d \in Clients : owner[t] = d =>
                 Held(d)' = IF resp'.status # "NOT_FINISHED"
                            THEN Held(d) \ {t} ELSE Held(d)
<1>0. resp' \in ResponseType /\ resp'.kind = "get"
  BY GetCall DEF TypeInv, StoreTypes
<1>1. CASE Store!GetFinished(t)
  <2>1. /\ phase[t] = "finished"
        /\ phase' = [phase EXCEPT ![t] = "consumed"]
        /\ resp' = GetResp(t, execute(reqOf[t]))
    BY <1>1, StoreExecute, StoreVocabulary DEF Store!GetFinished
  <2>2. reqOf[t] \in Payload
    BY JobTypesAssumption DEF TypeInv, StoreTypes, NoPayload, Payload
  <2>3. execute(reqOf[t]).status \in FinalStatus
    BY <2>2, ExecuteOutcome DEF Outcome
  <2>4. resp'.status # "NOT_FINISHED"
    BY <2>1, <2>3, ResponseFields DEF FinalStatus
  <2>5. \A u \in Ticket : phase'[u] = IF u = t THEN "consumed" ELSE phase[u]
    BY <2>1 DEF TypeInv, StoreTypes
  <2> QED  BY <1>0, <2>4, <2>5 DEF Held
<1>2. CASE Store!GetPending(t)
  <2>1. UNCHANGED phase /\ resp' = GetResp(t, NotFinished)
    BY <1>2, StoreVocabulary DEF Store!GetPending
  <2>2. resp'.status = "NOT_FINISHED"
    BY <2>1, ResponseFields DEF NotFinished, Fail
  <2> QED  BY <1>0, <2>1, <2>2 DEF Held
<1>3. CASE Store!GetUnknown(t)
  <2>1. /\ UNCHANGED phase /\ resp' = GetResp(t, InvalidInput)
        /\ phase[t] \in {"unused", "consumed"}
    BY <1>3, StoreVocabulary DEF Store!GetUnknown
  <2>2. \A d \in Clients : t \notin Held(d) /\ Held(d)' = Held(d)
    BY <2>1 DEF Held
  <2> QED  BY <1>0, <2>2
<1> QED  BY <1>1, <1>2, <1>3

(* A client's step: a response that is read moves into the list. *)
LEMMA ListClientStep ==
    ASSUME ListContext, ListInv, NEW c \in Clients, ClientStep(c)
    PROVE  ListInv'
<1> USE DEF ListContext
<1>1. /\ UNCHANGED <<storeVars, serverVars>>
      /\ \A d \in Clients \ {c} : SameClient(d)
      /\ \/ StartStep(c) \/ ReadStep(c) \/ LeaveStep(c)
         \/ \E env \in Envelope : env.kind # "none" /\ SendStep(c, env)
  BY ClientStepKinds
<1> SUFFICES ASSUME restarts = 0, NEW d \in Clients, InTouch(d)'
             PROVE  Held(d)' = Listed(d)'
  BY <1>1 DEF ListInv, serverVars
<1>2. Held(d)' = Held(d) /\ UNCHANGED sv
  BY <1>1 DEF Held, storeVars, serverVars
<1>3. CASE d # c
  <2>1. SameClient(d) /\ InTouch(d)
    BY <1>1, <1>3 DEF SameClient, InTouch
  <2>2. Listed(d)' = Listed(d)
    BY <1>2, <2>1 DEF SameClient, Listed, ListAfter, Expected, Ticketed
  <2> QED  BY <1>2, <2>1, <2>2 DEF ListInv
<1>4. CASE d = c /\ StartStep(c)
  <2>1. InTouch(d)
    BY <1>4 DEF StartStep, InTouch
  <2>2. Listed(d)' = Listed(d)
    BY <1>2, <1>4 DEF StartStep, Listed, ListAfter, Expected, Ticketed
  <2> QED  BY <1>2, <2>1, <2>2 DEF ListInv
<1>5. ASSUME d = c, NEW env \in Envelope, SendStep(c, env)
      PROVE  Held(d)' = Listed(d)'
  <2>1. /\ cpc[d] = "idle" /\ toClient'[d] = toClient[d]
        /\ pending'[d] = pending[d] /\ late'[d] = late[d]
    BY <1>5 DEF SendStep
  <2>2. InTouch(d)
    BY <2>1 DEF InTouch
  <2>3. toClient[d] = <<>> /\ ~BusyWith(d)
    BY <2>1, <2>2 DEF FlightInv, CallAlone, ResponseAlone
  <2>4. Listed(d) = pending[d] /\ Listed(d)' = pending[d]
    BY <1>2, <2>1, <2>3 DEF Listed, BusyWith
  <2> QED  BY <1>2, <2>2, <2>4 DEF ListInv
<1>6. CASE d = c /\ ReadStep(c)
  <2>1. /\ cpc[d] = "await" /\ late'[d] = late[d]
        /\ toClient[d] # <<>> /\ toClient'[d] = Tail(toClient[d])
        /\ pending'[d] = ListAfter(d, Head(toClient[d]))
    BY <1>6 DEF ReadStep
  <2>2. InTouch(d)
    BY <2>1 DEF InTouch
  <2>3. Len(toClient[d]) = 1 /\ ~BusyWith(d)
    BY <2>1, <2>2 DEF FlightInv, CallAlone, ResponseAlone
  <2>4. toClient'[d] = <<>> /\ Head(toClient[d]) = toClient[d][1]
    BY <2>1, <2>3, TailAt DEF TypeInv, ToClientTypes
  <2>5. Listed(d) = ListAfter(d, toClient[d][1])
    BY <2>1, <2>3 DEF Listed, BusyWith
  <2>6. Listed(d)' = pending'[d]
    BY <1>2, <2>3, <2>4 DEF Listed, BusyWith
  <2> QED  BY <1>2, <2>1, <2>2, <2>4, <2>5, <2>6 DEF ListInv
<1>7. CASE d = c /\ LeaveStep(c)
  BY <1>7 DEF LeaveStep, InTouch
<1> QED  BY <1>1, <1>3, <1>4, <1>5, <1>6, <1>7

(* The response that is appended for a client in touch is the one it will   *)
(* read, and the call it is in is over.                                     *)
LEMMA AnsweredList ==
    ASSUME TypeInv, NEW c \in Clients, NEW env \in Envelope,
           NEW body \in ResponseType, SendToClient(c, env, body),
           cpc[c] # "exited", toClient[c] = <<>>, env = cur[c],
           UNCHANGED clientVars, sv' = Listening
    PROVE  Listed(c)' =
             IF body.kind # env.kind THEN pending[c]
             ELSE IF env.kind = "submit" /\ env.mode = "NONBLOCKING"
                        /\ body.ticket # 0
                  THEN pending[c] \union {body.ticket}
             ELSE IF env.kind = "get" /\ body.status # "NOT_FINISHED"
                  THEN pending[c] \ {env.ticket}
             ELSE pending[c]
<1> DEFINE r == [req |-> env, body |-> body]
<1>1. toClient'[c] = Append(toClient[c], r) /\ r \in Reply /\ r.body = body
  BY SendToClientTyped DEF TypeInv, Reply
<1> HIDE DEF r
<1>2. toClient[c] \in Seq(Reply) /\ Len(toClient[c]) = 0
  BY DEF TypeInv, ToClientTypes
<1>3. toClient'[c] # <<>> /\ toClient'[c][1] = r
  BY <1>1, <1>2, AppendAt
<1>4. Listed(c)' = ListAfter(c, r)'
  BY <1>3 DEF Listed, Listening
<1>5. /\ pending' = pending /\ cur' = cur
  BY DEF clientVars
<1> QED  BY <1>1, <1>4, <1>5 DEF ListAfter, Expected, Ticketed

(* The server takes a message: the table changes as the list will. *)
LEMMA ListServe ==
    ASSUME ListContext, ListInv, NEW c \in Clients, Serve(c)
    PROVE  ListInv'
<1> USE DEF ListContext
<1> DEFINE env == Head(toServer[c])
<1>1. /\ sv = Listening /\ toServer[c] # <<>>
      /\ \A d \in Clients \ {c} : toServer'[d] = toServer[d]
      /\ UNCHANGED <<clientVars, restarts>>
  BY ServeKinds
<1>2. /\ env \in Message(c) /\ env \in Elements(toServer[c])
      /\ env = toServer[c][1] /\ 1 \in 1..Len(toServer[c])
  <2>1. toServer[c] \in Seq(Message(c))
    BY DEF TypeInv, ToServerTypes
  <2>2. env = toServer[c][1] /\ 1 \in 1..Len(toServer[c])
    BY <1>1, <2>1, TailAt
  <2>3. env \in Message(c) /\ env \in Elements(toServer[c])
    BY <1>1, <2>1, ElementsTail, HeadTailProperties
  <2> QED  BY <2>2, <2>3
<1> HIDE DEF env
<1>3. /\ env.kind \in {"submit", "get", "handshake"}
      /\ env.kind # "handshake" => env \in Envelope
      /\ env.kind = "submit" => env.req \in Requests
      /\ env.kind = "get" => env.ticket \in Ticket /\ owner[env.ticket] = c
  BY <1>2, MessageFields, EnvelopeFields DEF OwnGets
<1> SUFFICES ASSUME restarts = 0, NEW d \in Clients, InTouch(d)'
             PROVE  Held(d)' = Listed(d)'
  BY <1>1 DEF ListInv
<1>4. InTouch(d) /\ Held(d) = Listed(d)
  BY <1>1 DEF InTouch, clientVars, ListInv
<1>5. \A e \in Clients : ~(sv.pc = "ack" /\ sv.client = e)
  BY <1>1 DEF Listening
<1>6. \A e \in Clients \ {c} : SameClient(e)
  <2>1. \/ UNCHANGED toClient
        \/ /\ env \in Envelope
           /\ \E body \in ResponseType : SendToClient(c, env, body)
    BY ServeKinds DEF env
  <2>2. \A e \in Clients \ {c} : toClient'[e] = toClient[e]
    BY <2>1, SendToClientTyped DEF TypeInv
  <2> QED  BY <1>1, <2>2 DEF SameClient, clientVars
<1>7. \A e \in Clients \ {c} : ~(sv'.pc = "ack" /\ sv'.client = e)
  BY <1>1, ServeKinds DEF Listening
<1>8. d # c => Listed(d)' = Listed(d)
  BY <1>5, <1>6, <1>7, ListedFrame
<1>9. ASSUME d = c, env.kind # "handshake"
      PROVE  /\ toClient[d] = <<>> /\ env = cur[d] /\ cpc[d] # "exited"
             /\ Listed(d) = pending[d]
  <2>1. toClient[d] = <<>> /\ env = cur[d] /\ cpc[d] # "exited"
    BY <1>2, <1>4, <1>9 DEF FlightInv, RequestAlone, InTouch
  <2> QED  BY <1>5, <2>1 DEF Listed
<1>10. CASE Handshake(c)
  <2>1. env.kind = "handshake" /\ UNCHANGED <<phase, owner>>
    BY <1>10 DEF Handshake, Incoming, storeVars, env
  <2>2. Held(d)' = Held(d)
    BY <2>1 DEF Held
  <2>3. UNCHANGED <<toClient, sv>>
    BY <2>1, ServeKinds DEF env
  <2>4. Listed(d)' = Listed(d)
    BY <1>1, <2>3
    DEF Listed, ListAfter, Expected, Ticketed, clientVars
  <2> QED  BY <1>4, <2>2, <2>4
<1>11. ASSUME NEW parses \in BOOLEAN, NotAHandshake(c, parses)
       PROVE  FALSE
  <2>1. env.kind \in {"submit", "get"} /\ ~Registered(c)
    BY <1>11 DEF NotAHandshake, env
  <2> QED  BY <1>1, <1>2, <2>1 DEF HandshakeFirst
<1>12. CASE SubmitForbidden(c) \/ SubmitBlocking(c)
  <2>1. /\ env.kind = "submit" /\ UNCHANGED <<phase, owner, sv>>
        /\ \E body \in ResponseType :
              SendToClient(c, env, body) /\ body.kind = "submit" /\ body.ticket = 0
    <3>1. CASE SubmitForbidden(c)
      <4>1. /\ env.kind = "submit" /\ UNCHANGED <<phase, owner, sv>>
            /\ SendToClient(c, env, SubmitResp(0, InvalidInput))
        BY <3>1 DEF SubmitForbidden, Incoming, env, storeVars, serverVars
      <4> QED  BY <4>1, BadResponseTyped, ResponseFields
    <3>2. CASE SubmitBlocking(c)
      <4>1. /\ env.kind = "submit" /\ UNCHANGED <<owner, sv>>
            /\ Store!RunBlocking(env.req) /\ SendToClient(c, env, resp')
        BY <3>2 DEF SubmitBlocking, Incoming, env, serverVars
      <4>2. /\ resp' \in ResponseType /\ resp' = SubmitResp(0, execute(env.req))
            /\ UNCHANGED phase
        BY <1>3, <4>1, RunBlockingCall DEF TypeInv, StoreTypes
      <4>3. resp'.kind = "submit" /\ resp'.ticket = 0
        BY <4>2, ResponseFields
      <4> QED  BY <4>1, <4>2, <4>3
    <3> QED  BY <1>12, <3>1, <3>2
  <2>2. Held(d)' = Held(d)
    BY <2>1 DEF Held
  <2>3. d = c => Listed(d)' = pending[d]
    BY <1>1, <1>3, <1>9, <2>1, AnsweredList
  <2> QED  BY <1>4, <1>8, <1>9, <2>1, <2>2, <2>3
<1>13. ASSUME NEW t \in Ticket, SubmitNonBlocking(c, t)
       PROVE  Held(d)' = Listed(d)'
  <2>1. /\ env.kind = "submit" /\ Store!Submit(t, env.req)
        /\ owner' = [owner EXCEPT ![t] = c] /\ UNCHANGED toClient
        /\ sv' = [pc |-> "ack", client |-> c, env |-> env, ticket |-> t]
    BY <1>13 DEF SubmitNonBlocking, Incoming, env
  <2>2. phase[t] = "unused" /\ phase' = [phase EXCEPT ![t] = "pending"]
    BY <1>3, <2>1, SubmitCall DEF TypeInv
  <2>3. /\ \A u \in Ticket : owner'[u] = IF u = t THEN c ELSE owner[u]
        /\ \A u \in Ticket : phase'[u] = IF u = t THEN "pending" ELSE phase[u]
    BY <2>1, <2>2 DEF TypeInv, ServerTypes, StoreTypes
  <2>4. Held(d)' = IF d = c THEN Held(d) \union {t} ELSE Held(d)
    BY <2>2, <2>3 DEF Held
  <2>5. d = c => Listed(d)' = pending[d] \union {t}
    BY <1>1, <2>1 DEF Listed, clientVars
  <2> QED  BY <1>4, <1>8, <1>9, <2>1, <2>4, <2>5
<1>14. CASE GetNow(c)
  <2>1. /\ env.kind = "get" /\ UNCHANGED <<owner, sv>>
        /\ \/ Store!GetFinished(env.ticket) \/ Store!GetPending(env.ticket)
           \/ Store!GetUnknown(env.ticket)
        /\ SendToClient(c, env, resp')
    BY <1>14 DEF GetNow, Incoming, env, serverVars
  <2>2. /\ resp' \in ResponseType /\ resp'.kind = "get"
        /\ d # c => Held(d)' = Held(d)
        /\ d = c => Held(d)' = IF resp'.status # "NOT_FINISHED"
                               THEN Held(d) \ {env.ticket} ELSE Held(d)
    BY <1>3, <2>1, GetEffect
  <2>3. d = c => Listed(d)' = IF resp'.status # "NOT_FINISHED"
                              THEN pending[d] \ {env.ticket} ELSE pending[d]
    BY <1>1, <1>3, <1>9, <2>1, <2>2, AnsweredList
  <2> QED  BY <1>4, <1>8, <1>9, <2>1, <2>2, <2>3
<1>15. CASE GetBlocks(c)
  <2>1. /\ env.kind = "get" /\ UNCHANGED <<phase, owner, toClient>>
        /\ sv'.pc = "wait"
    BY <1>15 DEF GetBlocks, Incoming, env, storeVars
  <2>2. Held(d)' = Held(d) /\ Listed(d)' = Listed(d)
    BY <1>1, <1>5, <2>1
    DEF Held, Listed, ListAfter, Expected, Ticketed, clientVars
  <2> QED  BY <1>4, <2>2
<1> QED  BY <1>10, <1>11, <1>12, <1>13, <1>14, <1>15 DEF Serve

(* A call ends: a ticket is acknowledged, or a waiting get is answered. *)
LEMMA ListFinishCall ==
    ASSUME ListContext, ListInv, FinishCall
    PROVE  ListInv'
<1> USE DEF ListContext
<1>0. sv.client \in Clients /\ sv.ticket \in Ticket
  BY FinishCallKinds, SvFields DEF TypeInv, ServerTypes
<1>c. PICK c \in Clients : c = sv.client
  BY <1>0
<1>1. /\ sv.pc \in {"ack", "wait"} /\ sv' = Listening
      /\ sv.env \in Envelope /\ resp' \in ResponseType
      /\ SendToClient(c, sv.env, resp')
      /\ UNCHANGED <<clientVars, toServer, restarts>>
  BY <1>c, FinishCallKinds
<1> SUFFICES ASSUME restarts = 0, NEW d \in Clients, InTouch(d)'
             PROVE  Held(d)' = Listed(d)'
  BY <1>1 DEF ListInv
<1>2. InTouch(d) /\ Held(d) = Listed(d)
  BY <1>1 DEF InTouch, clientVars, ListInv
<1>3. d # c => Listed(d)' = Listed(d)
  <2>1. d # c => SameClient(d)
    BY <1>1, SendToClientTyped DEF TypeInv, SameClient, clientVars
  <2> QED  BY <1>1, <1>c, <2>1, ListedFrame DEF Listening
<1>4. ASSUME d = c
      PROVE  toClient[d] = <<>> /\ sv.env = cur[d] /\ cpc[d] # "exited"
  BY <1>1, <1>2, <1>4, <1>c DEF FlightInv, CallAlone, BusyWith, InTouch
<1>5. CASE AnswerTicket
  <2>1. sv.pc = "ack" /\ Store!Acknowledge(sv.ticket) /\ UNCHANGED owner
    BY <1>5 DEF AnswerTicket, Answer
  <2>2. UNCHANGED phase /\ resp' = SubmitResp(sv.ticket, NotFinished)
    BY <1>0, <2>1, AcknowledgeCall DEF TypeInv
  <2>3. resp'.kind = "submit" /\ resp'.ticket = sv.ticket /\ sv.ticket # 0
    BY <1>0, <2>2, ResponseFields, TicketNat
  <2>4. Held(d)' = Held(d)
    BY <2>1, <2>2 DEF Held
  <2>5. sv.env.kind = "submit" /\ sv.env.mode = "NONBLOCKING"
    BY <2>1 DEF ContentInv, BusyInv, OwnGets
  <2>6. d = c => Listed(d)' = pending[d] \union {sv.ticket}
    BY <1>1, <1>4, <2>3, <2>5, AnsweredList
  <2>7. d = c => Listed(d) = pending[d] \union {sv.ticket}
    BY <1>c, <2>1 DEF Listed
  <2> QED  BY <1>2, <1>3, <2>4, <2>6, <2>7
<1>6. CASE GetWakes \/ GetExpires
  <2>1. /\ sv.pc = "wait" /\ UNCHANGED owner
        /\ Store!GetFinished(sv.ticket) \/ Store!GetPending(sv.ticket)
    BY <1>6 DEF GetWakes, GetExpires, Answer
  <2>2. /\ sv.env.kind = "get" /\ sv.env.ticket = sv.ticket
        /\ owner[sv.ticket] = c
    BY <1>c, <2>1 DEF ContentInv, BusyInv, OwnGets
  <2>3. /\ resp'.kind = "get"
        /\ d # c => Held(d)' = Held(d)
        /\ d = c => Held(d)' = IF resp'.status # "NOT_FINISHED"
                               THEN Held(d) \ {sv.ticket} ELSE Held(d)
    BY <1>0, <2>1, <2>2, GetEffect
  <2>4. d = c => Listed(d)' = IF resp'.status # "NOT_FINISHED"
                              THEN pending[d] \ {sv.ticket} ELSE pending[d]
    BY <1>1, <1>4, <2>2, <2>3, AnsweredList
  <2>5. d = c => Listed(d) = pending[d]
    BY <1>4, <2>1 DEF Listed
  <2> QED  BY <1>2, <1>3, <2>3, <2>4, <2>5
<1> QED  BY <1>5, <1>6 DEF FinishCall

(* The other steps: a worker does not take a ticket out of the table, and   *)
(* after a crash nothing is claimed.                                        *)
LEMMA ListOther ==
    ASSUME ListContext, ListInv,
           \/ \E t \in Ticket : WorkerFinishes(t)
           \/ ServerDies \/ ServerRestarts \/ UNCHANGED vars
    PROVE  ListInv'
<1> USE DEF ListContext
<1>1. CASE ServerDies
  <2>1. restarts' = restarts + 1 /\ restarts \in Nat
    BY <1>1, IpcSystemAssumption DEF ServerDies, TypeInv, ServerTypes
  <2> QED  BY <2>1 DEF ListInv
<1>2. CASE \/ \E t \in Ticket : WorkerFinishes(t)
           \/ ServerRestarts \/ UNCHANGED vars
  <2>1. /\ UNCHANGED <<clientVars, toServer, toClient, restarts>>
        /\ sv' = sv \/ (sv = Dead /\ sv' = Listening)
    BY <1>2, OtherKinds
  <2>2. \A c \in Clients : Held(c)' = Held(c)
    <3>1. ASSUME NEW t \in Ticket, WorkerFinishes(t)
          PROVE  \A c \in Clients : Held(c)' = Held(c)
      <4>1. /\ phase[t] = "pending" /\ UNCHANGED owner
            /\ phase' = [phase EXCEPT ![t] = "finished"]
        BY <3>1 DEF WorkerFinishes, Store!Finish, serverVars
      <4>2. \A u \in Ticket : phase'[u] = IF u = t THEN "finished" ELSE phase[u]
        BY <4>1 DEF TypeInv, StoreTypes
      <4> QED  BY <4>1, <4>2 DEF Held
    <3>2. CASE ServerRestarts \/ UNCHANGED vars
      BY <3>2 DEF ServerRestarts, vars, storeVars, serverVars, Held
    <3> QED  BY <1>2, <3>1, <3>2
  <2>3. \A c \in Clients : Listed(c)' = Listed(c)
    <3> SUFFICES ASSUME NEW c \in Clients PROVE Listed(c)' = Listed(c)
      OBVIOUS
    <3>1. CASE sv' = sv
      BY <2>1, <3>1 DEF Listed, ListAfter, Expected, Ticketed, clientVars
    <3>2. CASE sv = Dead /\ sv' = Listening
      <4>1. SameClient(c)
        BY <2>1 DEF SameClient, clientVars
      <4> QED  BY <3>2, <4>1, ListedFrame DEF Dead, Listening
    <3> QED  BY <2>1, <3>1, <3>2
  <2> QED  BY <2>1, <2>2, <2>3 DEF ListInv, InTouch, clientVars
<1> QED  BY <1>1, <1>2

(* The list invariant and all it rests on hold of the system. *)
LEMMA ListInvariant == Spec => [](ListContext /\ ListInv)
<1>1. Init => OwnGets /\ ListInv /\ HandshakeFirst /\ CapsAsAnnounced
  <2> SUFFICES ASSUME Init
               PROVE  OwnGets /\ ListInv /\ HandshakeFirst /\ CapsAsAnnounced
    OBVIOUS
  <2>1. OwnGets
    BY DEF Init, OwnGets, Elements, Listening
  <2>2. HandshakeFirst /\ CapsAsAnnounced
    BY DEF Init, HandshakeFirst, CapsAsAnnounced, Registered
  <2>3. \A c \in Clients : Held(c) = {} /\ Listed(c) = {}
    BY IpcSystemAssumption DEF Init, Held, Listed, Listening
  <2> QED  BY <2>1, <2>2, <2>3 DEF ListInv
<1>2. ListContext /\ ListInv /\ [Next]_vars => ListInv'
  BY ListClientStep, ListServe, ListFinishCall, ListOther DEF Next, Quiet
<1> QED  BY <1>1, <1>2, OwnGetsStep, HandshakeFirstStep, FlightInvariant, PTL
         DEF Spec, ListContext

(* While a client was never late and the server never died, the client      *)
(* lists, between its commands, exactly the tickets the server holds for    *)
(* it, whatever other clients and the workers do.                           *)
THEOREM ListIsTable == Spec => []ListAgreesWithTable
<1>1. TypeInv /\ FlightInv /\ ListInv => ListAgreesWithTable
  <2> SUFFICES ASSUME TypeInv, FlightInv, ListInv, NEW c \in Clients,
                      cpc[c] = "idle", ~late[c], restarts = 0
               PROVE  pending[c] = Held(c)
    BY DEF ListAgreesWithTable, Held
  <2>1. late[c] \in BOOLEAN
    BY DEF TypeInv, ClientTypes
  <2>2. late[c] = FALSE
    BY <2>1, Zenon
  <2>3. InTouch(c)
    BY <2>2 DEF InTouch
  <2>4. toClient[c] = <<>> /\ ~BusyWith(c)
    BY <2>3 DEF FlightInv, CallAlone, ResponseAlone
  <2> QED  BY <2>3, <2>4 DEF ListInv, Listed, BusyWith
<1> QED  BY <1>1, ListInvariant, PTL DEF ListContext
=============================================================================
