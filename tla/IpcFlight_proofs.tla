-------------------------- MODULE IpcFlight_proofs --------------------------
(***************************************************************************)
(* What is under way between a client and the server: at most one request  *)
(* or its response while the client is not late, so that the client reads  *)
(* the response to its own request and its list of tickets is the server's *)
(* table.                                                                  *)
(***************************************************************************)
EXTENDS IpcSystem_proofs

(* The list of client c once it has read response r. *)
ListAfter(c, r) ==
    IF ~Expected(c, r) THEN pending[c]
    ELSE IF Ticketed(c) /\ r.body.ticket # 0
         THEN pending[c] \union {r.body.ticket}
    ELSE IF cur[c].kind = "get" /\ r.body.status # "NOT_FINISHED"
         THEN pending[c] \ {cur[c].ticket}
    ELSE pending[c]

-----------------------------------------------------------------------------
(* The steps, by what they do to the messages under way. *)

StartStep(c) ==
    /\ cpc[c] = "start"
    /\ \/ cpc'[c] = "exited" /\ toServer'[c] = toServer[c]
       \/ /\ cpc'[c] = "idle" /\ verifyExecCaps(Announced[c])
          /\ toServer'[c] = Append(toServer[c], FirstHandshake(Announced[c]))
    /\ toClient'[c] = toClient[c] /\ cur'[c] = cur[c]
    /\ pending'[c] = pending[c] /\ late'[c] = late[c]

SendStep(c, env) ==
    /\ cpc[c] = "idle" /\ cpc'[c] = "await"
    /\ cur[c].no < MaxCommands[c] /\ env.no = cur[c].no + 1
    /\ env.kind = "get" => env.ticket \in pending[c]
    /\ cur'[c] = env
    /\ toServer'[c] = Append(toServer[c], env)
    /\ toClient'[c] = toClient[c]
    /\ pending'[c] = pending[c] /\ late'[c] = late[c]

ReadStep(c) ==
    /\ cpc[c] = "await" /\ cpc'[c] \in {"idle", "exited"}
    /\ toClient[c] # <<>> /\ toClient'[c] = Tail(toClient[c])
    /\ pending'[c] = ListAfter(c, Head(toClient[c]))
    /\ cur'[c].no = cur[c].no
    /\ toServer'[c] = toServer[c] /\ late'[c] = late[c]

LeaveStep(c) ==
    /\ cpc[c] # "start" /\ cpc'[c] \in {"idle", "exited"}
    /\ late'[c] = TRUE \/ cpc'[c] = "exited"
    /\ cur'[c].no = cur[c].no
    /\ toServer'[c] = toServer[c] /\ toClient'[c] = toClient[c]
    /\ pending'[c] = pending[c]

(* Nothing about client d changes. *)
SameClient(d) ==
    /\ cpc'[d] = cpc[d] /\ cur'[d] = cur[d] /\ late'[d] = late[d]
    /\ pending'[d] = pending[d]
    /\ toServer'[d] = toServer[d] /\ toClient'[d] = toClient[d]

(* A client's step is one of these, and leaves the others alone. *)
LEMMA ClientStepKinds ==
    ASSUME TypeInv, NEW c \in Clients, ClientStep(c)
    PROVE  /\ UNCHANGED <<storeVars, serverVars>>
           /\ \A d \in Clients \ {c} : SameClient(d)
           /\ \/ StartStep(c) \/ ReadStep(c) \/ LeaveStep(c)
              \/ \E env \in Envelope : env.kind # "none" /\ SendStep(c, env)
<1> USE DEF TypeInv
<1>1. UNCHANGED <<storeVars, serverVars>>
  BY DEF ClientStep, ClientInit, SubmitCommand, GetCommand, SendEnvelope,
         Receive, ReceiveTimeout, Interrupted, Quit
<1>n. cur[c] \in Envelope /\ cur[c].no \in Nat
  BY EnvelopeFields DEF ClientTypes
<1>2. CASE ClientInit(c)
  <2>1. CASE verifyExecCaps(Announced[c])
    <3>1. /\ cpc[c] = "start" /\ cpc' = [cpc EXCEPT ![c] = "idle"]
          /\ toServer' = [toServer EXCEPT ![c] =
                Append(toServer[c], FirstHandshake(Announced[c]))]
          /\ UNCHANGED <<toClient, cur, pending, late>>
      BY <1>2, <2>1 DEF ClientInit, sendFirstHandshake, SendToServer
    <3> QED  BY <1>1, <2>1, <3>1
             DEF StartStep, SameClient, ClientTypes, ToServerTypes
  <2>2. CASE ~verifyExecCaps(Announced[c])
    BY <1>1, <1>2, <2>2
    DEF ClientInit, StartStep, SameClient, ClientTypes, ToServerTypes
  <2> QED  BY <2>1, <2>2
<1>3. ASSUME NEW env \in Envelope, env.kind # "none", env.no = cur[c].no + 1,
             env.kind = "get" => env.ticket \in pending[c],
             SendEnvelope(c, env)
      PROVE  (\A d \in Clients \ {c} : SameClient(d)) /\ SendStep(c, env)
  <2>1. /\ cpc[c] = "idle" /\ cur[c].no < MaxCommands[c]
        /\ toServer' = [toServer EXCEPT ![c] = Append(toServer[c], env)]
        /\ cur' = [cur EXCEPT ![c] = env]
        /\ cpc' = [cpc EXCEPT ![c] = "await"]
        /\ UNCHANGED <<toClient, pending, late>>
    BY <1>3 DEF SendEnvelope, SendToServer
  <2> QED  BY <1>3, <2>1 DEF SendStep, SameClient, ClientTypes, ToServerTypes
<1>4. ASSUME NEW r \in Requests, NEW mode \in SubmitModes,
             SubmitCommand(c, mode, r)
      PROVE  /\ \A d \in Clients \ {c} : SameClient(d)
             /\ \E env \in Envelope : env.kind # "none" /\ SendStep(c, env)
  <2> DEFINE env == Submit(cur[c].no + 1, mode, r)
  <2>1. env \in Envelope /\ env.kind = "submit" /\ env.no = cur[c].no + 1
    BY <1>n DEF Envelope, Submit
  <2>2. SendEnvelope(c, env)
    BY <1>4 DEF SubmitCommand
  <2> HIDE DEF env
  <2> QED  BY <1>3, <2>1, <2>2
<1>5. ASSUME NEW t \in Ticket, NEW wait \in WaitModes, GetCommand(c, wait, t)
      PROVE  /\ \A d \in Clients \ {c} : SameClient(d)
             /\ \E env \in Envelope : env.kind # "none" /\ SendStep(c, env)
  <2> DEFINE env == Get(cur[c].no + 1, wait, t)
  <2>1. /\ env \in Envelope /\ env.kind = "get" /\ env.no = cur[c].no + 1
        /\ env.ticket = t
    BY <1>n DEF Envelope, Get
  <2>2. SendEnvelope(c, env) /\ t \in pending[c]
    BY <1>5 DEF GetCommand
  <2> HIDE DEF env
  <2> QED  BY <1>3, <2>1, <2>2
<1>6. ASSUME CommandDone(c)
      PROVE  /\ cur'[c].no = cur[c].no
             /\ \A d \in Clients \ {c} : cur'[d] = cur[d]
  <2>1. cur' = [cur EXCEPT ![c] = [kind |-> "none", no |-> cur[c].no]]
    BY <1>6 DEF CommandDone
  <2> QED  BY <2>1 DEF ClientTypes
<1>7. CASE Receive(c)
  <2> DEFINE r == Head(toClient[c])
  <2>1. /\ cpc[c] = "await" /\ toClient[c] # <<>>
        /\ HandleResponse(c, r)
        /\ toClient' = [toClient EXCEPT ![c] = Tail(toClient[c])]
        /\ CommandDone(c) /\ UNCHANGED <<toServer, late>>
    BY <1>7 DEF Receive
  <2> HIDE DEF r
  <2>2. /\ \E p \in {"idle", "exited"} : cpc' = [cpc EXCEPT ![c] = p]
        /\ \/ pending' = [pending EXCEPT ![c] = ListAfter(c, r)]
           \/ UNCHANGED pending /\ ListAfter(c, r) = pending[c]
    <3>1. CASE Expected(c, r)
      BY <2>1, <3>1 DEF HandleResponse, ListAfter
    <3>2. CASE ~Expected(c, r)
      BY <2>1, <3>2 DEF HandleResponse, ListAfter, CallFails
    <3> QED  BY <3>1, <3>2
  <2> QED  BY <1>1, <1>6, <2>1, <2>2
           DEF ReadStep, SameClient, ClientTypes, ToClientTypes, r
<1>8. CASE ReceiveTimeout(c)
  <2>1. /\ cpc[c] = "await" /\ CommandDone(c)
        /\ \E p \in {"idle", "exited"} : cpc' = [cpc EXCEPT ![c] = p]
        /\ late' = [late EXCEPT ![c] = TRUE]
        /\ UNCHANGED <<toServer, toClient, pending>>
    BY <1>8 DEF ReceiveTimeout, CallFails
  <2> QED  BY <1>1, <1>6, <2>1 DEF LeaveStep, SameClient, ClientTypes
<1>9. CASE Interrupted(c) \/ Quit(c)
  <2>1. /\ cpc[c] # "start" /\ (CommandDone(c) \/ UNCHANGED cur)
        /\ cpc' = [cpc EXCEPT ![c] = "exited"]
        /\ UNCHANGED <<toServer, toClient, pending, late>>
    BY <1>9 DEF Interrupted, Quit
  <2> QED  BY <1>1, <1>6, <2>1 DEF LeaveStep, SameClient, ClientTypes
<1> QED  BY <1>1, <1>2, <1>4, <1>5, <1>7, <1>8, <1>9 DEF ClientStep

(* The server takes one message.  A handshake is not answered, since its    *)
(* flags are valid; anything else is answered at once or begins a call.     *)
LEMMA ServeKinds ==
    ASSUME TypeInv, NEW c \in Clients, Serve(c)
    PROVE  /\ sv = Listening /\ toServer[c] # <<>>
           /\ toServer'[c] = Tail(toServer[c])
           /\ \A d \in Clients \ {c} : toServer'[d] = toServer[d]
           /\ UNCHANGED <<clientVars, restarts>>
           /\ \/ /\ Head(toServer[c]).kind = "handshake"
                 /\ UNCHANGED <<toClient, sv>>
              \/ /\ Head(toServer[c]).kind # "handshake"
                 /\ Head(toServer[c]) \in Envelope
                 /\ \/ /\ \E body \in ResponseType :
                             SendToClient(c, Head(toServer[c]), body)
                       /\ UNCHANGED sv
                    \/ /\ sv'.pc \in {"ack", "wait"} /\ sv'.client = c
                       /\ sv'.env = Head(toServer[c])
                       /\ UNCHANGED toClient
<1> USE DEF TypeInv
<1> DEFINE env == Head(toServer[c])
<1>1. /\ sv = Listening /\ toServer[c] # <<>> /\ Take(c)
      /\ UNCHANGED <<clientVars, restarts>>
  BY DEF Serve, Handshake, NotAHandshake, SubmitForbidden, SubmitBlocking,
         SubmitNonBlocking, GetNow, GetBlocks, Incoming, serverVars
<1>2. /\ toServer'[c] = Tail(toServer[c]) /\ env \in Message(c)
      /\ \A d \in Clients \ {c} : toServer'[d] = toServer[d]
  BY <1>1, TakeTyped
<1>3. /\ env.kind # "handshake" => env \in Envelope
      /\ env.kind = "handshake" =>
            env.exec_functions = Announced[c] /\ verifyExecCaps(Announced[c])
      /\ env.kind = "submit" => env.req \in Requests
      /\ env.kind = "get" => env.ticket \in Ticket
  <2> HIDE DEF env
  <2> QED  BY <1>2, MessageFields, EnvelopeFields
<1>4. CASE Handshake(c)
  <2>1. /\ env.kind = "handshake" /\ UNCHANGED sv
        /\ verifyExecCaps(ToUint8(env.exec_functions)) => UNCHANGED toClient
    BY <1>4 DEF Handshake, Incoming
  <2>2. ToUint8(env.exec_functions) = Announced[c]
    BY <1>3, <2>1, IpcSystemAssumption DEF ToUint8, Uint8
  <2> QED  BY <1>1, <1>2, <1>3, <2>1, <2>2
<1>5. CASE \/ \E parses \in BOOLEAN : NotAHandshake(c, parses)
           \/ SubmitForbidden(c)
  <2>1. /\ env.kind # "handshake" /\ UNCHANGED sv
        /\ \/ SendToClient(c, env, GetResp(0, InvalidInput))
           \/ SendToClient(c, env, SubmitResp(0, InvalidInput))
    BY <1>5 DEF NotAHandshake, SubmitForbidden, Incoming, sendBadResponse,
                serverVars
  <2> HIDE DEF env
  <2>2. \E body \in ResponseType : SendToClient(c, env, body)
    BY <2>1, BadResponseTyped
  <2> QED  BY <1>1, <1>2, <1>3, <2>1, <2>2 DEF env
<1>6. CASE SubmitBlocking(c) \/ GetNow(c)
  <2>1. /\ env.kind \in {"submit", "get"} /\ UNCHANGED sv
        /\ \/ env.kind = "submit" /\ Store!RunBlocking(env.req)
           \/ /\ env.kind = "get"
              /\ \/ Store!GetFinished(env.ticket) \/ Store!GetPending(env.ticket)
                 \/ Store!GetUnknown(env.ticket)
        /\ SendToClient(c, env, resp')
    BY <1>6 DEF SubmitBlocking, GetNow, Incoming, serverVars
  <2> HIDE DEF env
  <2>2. resp' \in ResponseType
    BY <1>3, <2>1, RunBlockingCall, GetCall DEF StoreTypes
  <2> QED  BY <1>1, <1>2, <1>3, <2>1, <2>2 DEF env
<1>7. CASE (\E t \in Ticket : SubmitNonBlocking(c, t)) \/ GetBlocks(c)
  <2>1. /\ env.kind \in {"submit", "get"} /\ UNCHANGED toClient
        /\ sv'.pc \in {"ack", "wait"} /\ sv'.client = c /\ sv'.env = env
    BY <1>7 DEF SubmitNonBlocking, GetBlocks, Incoming
  <2> QED  BY <1>1, <1>2, <1>3, <2>1
<1> QED  BY <1>4, <1>5, <1>6, <1>7 DEF Serve

(* A call ends with the response to its envelope. *)
LEMMA FinishCallKinds ==
    ASSUME TypeInv, FinishCall
    PROVE  /\ sv.pc \in {"ack", "wait"} /\ sv' = Listening
           /\ sv.client \in Clients /\ sv.env \in Envelope
           /\ resp' \in ResponseType
           /\ SendToClient(sv.client, sv.env, resp')
           /\ UNCHANGED <<clientVars, toServer, restarts>>
<1>1. Answer /\ sv.pc \in {"ack", "wait"}
  BY DEF FinishCall, AnswerTicket, GetWakes, GetExpires
<1>2. sv.client \in Clients /\ sv.env \in Envelope
  BY <1>1, SvFields DEF TypeInv, ServerTypes
<1>3. resp' \in ResponseType
  BY TypeFinishCall DEF TypeInv, StoreTypes
<1> QED  BY <1>1, <1>2, <1>3 DEF Answer

(* The workers and a restart move no message. *)
LEMMA OtherKinds ==
    ASSUME TypeInv,
           \/ \E t \in Ticket : WorkerFinishes(t)
           \/ ServerRestarts \/ UNCHANGED vars
    PROVE  /\ UNCHANGED <<clientVars, toServer, toClient, restarts>>
           /\ sv' = sv \/ (sv = Dead /\ sv' = Listening)
BY DEF WorkerFinishes, ServerRestarts, vars, serverVars

(* The positions of a queue that was appended to. *)
LEMMA AppendAt ==
    ASSUME NEW S, NEW s \in Seq(S), NEW x \in S
    PROVE  /\ Len(s) \in Nat /\ Len(Append(s, x)) = Len(s) + 1
           /\ \A i \in 1..Len(s) : Append(s, x)[i] = s[i]
           /\ Append(s, x)[Len(s) + 1] = x
           /\ Append(s, x) # <<>>
BY AppendProperties, LenProperties

(* The same of a queue whose first element is taken. *)
LEMMA TailAt ==
    ASSUME NEW S, NEW s \in Seq(S), s # <<>>
    PROVE  /\ Len(s) \in Nat \ {0} /\ Len(Tail(s)) = Len(s) - 1
           /\ \A i \in 1..Len(Tail(s)) : Tail(s)[i] = s[i + 1]
           /\ Head(s) = s[1]
           /\ Len(s) = 1 => Tail(s) = <<>>
<1>1. /\ Tail(s) \in Seq(S) /\ Len(Tail(s)) = Len(s) - 1
      /\ \A i \in 1..Len(Tail(s)) : Tail(s)[i] = s[i + 1]
  BY HeadTailProperties
<1>2. Len(s) \in Nat \ {0} /\ Head(s) = s[1]
  BY EmptySeq, LenProperties
<1>3. Len(s) = 1 => Tail(s) = <<>>
  <2> DEFINE t == Tail(s)
  <2>1. t \in Seq(S) /\ (Len(s) = 1 => Len(t) = 0)
    BY <1>1, <1>2
  <2> HIDE DEF t
  <2>2. Len(s) = 1 => t = <<>>
    BY <2>1, EmptySeq
  <2> QED  BY <2>2 DEF t
<1> QED  BY <1>1, <1>2, <1>3

-----------------------------------------------------------------------------
(* At most one request or response under way. *)

(* A request of a client in touch that the server has not received is the   *)
(* last message in the queue, and nothing else of it is under way.          *)
RequestAlone(c) ==
    \A i \in 1..Len(toServer[c]) : toServer[c][i].kind # "handshake" =>
        /\ i = Len(toServer[c]) /\ toServer[c][i] = cur[c]
        /\ cpc[c] = "await" /\ toClient[c] = <<>> /\ ~BusyWith(c)

CallAlone(c) ==
    BusyWith(c) => cpc[c] = "await" /\ toClient[c] = <<>> /\ sv.env = cur[c]

ResponseAlone(c) ==
    toClient[c] # <<>> => /\ cpc[c] = "await"
                         /\ Len(toClient[c]) = 1
                         /\ toClient[c][1].req = cur[c]

FlightInv ==
    \A c \in Clients :
        InTouch(c) => RequestAlone(c) /\ CallAlone(c) /\ ResponseAlone(c)

(* What is under way for a client depends on its own state and on whether   *)
(* the server is in a call of it.                                           *)
LEMMA FlightFrame ==
    ASSUME FlightInv, NEW d \in Clients, SameClient(d),
           BusyWith(d)' => BusyWith(d) /\ sv'.env = sv.env
    PROVE  InTouch(d)' => (RequestAlone(d) /\ CallAlone(d) /\ ResponseAlone(d))'
<1> SUFFICES ASSUME InTouch(d)'
             PROVE  (RequestAlone(d) /\ CallAlone(d) /\ ResponseAlone(d))'
  OBVIOUS
<1>1. InTouch(d)
  BY DEF InTouch, SameClient
<1>2. RequestAlone(d) /\ CallAlone(d) /\ ResponseAlone(d)
  BY <1>1 DEF FlightInv
<1>3. RequestAlone(d)'
  BY <1>2 DEF RequestAlone, SameClient
<1>4. CallAlone(d)'
  BY <1>2 DEF CallAlone, SameClient
<1>5. ResponseAlone(d)'
  BY <1>2 DEF ResponseAlone, SameClient
<1> QED  BY <1>3, <1>4, <1>5

(* A client's step. *)
LEMMA FlightClientStep ==
    ASSUME TypeInv, FlightInv, NEW c \in Clients, ClientStep(c)
    PROVE  FlightInv'
<1>1. /\ UNCHANGED <<storeVars, serverVars>>
      /\ \A d \in Clients \ {c} : SameClient(d)
  BY ClientStepKinds
<1>2. UNCHANGED sv /\ \A d \in Clients : BusyWith(d)' <=> BusyWith(d)
  BY <1>1 DEF serverVars, BusyWith
<1>3. \A d \in Clients \ {c} :
        InTouch(d)' => (RequestAlone(d) /\ CallAlone(d) /\ ResponseAlone(d))'
  BY <1>1, <1>2, FlightFrame
<1>4. SUFFICES ASSUME InTouch(c)'
               PROVE  (RequestAlone(c) /\ CallAlone(c) /\ ResponseAlone(c))'
  BY <1>3 DEF FlightInv
<1>q. toServer[c] \in Seq(Message(c)) /\ toClient[c] \in Seq(Reply)
  BY DEF TypeInv, ToServerTypes, ToClientTypes
<1>5. ASSUME InTouch(c) PROVE RequestAlone(c) /\ CallAlone(c) /\ ResponseAlone(c)
  BY <1>5 DEF FlightInv
<1>6. CASE StartStep(c)
  <2> DEFINE h == FirstHandshake(Announced[c])
  <2>1. /\ verifyExecCaps(Announced[c])
        /\ cpc[c] = "start" /\ cpc'[c] = "idle"
        /\ toServer'[c] = Append(toServer[c], h)
        /\ toClient'[c] = toClient[c] /\ late'[c] = late[c]
    BY <1>4, <1>6 DEF StartStep, InTouch
  <2>2. h \in Message(c) /\ h.kind = "handshake"
    BY <2>1 DEF Message, FirstHandshake
  <2> HIDE DEF h
  <2>3. RequestAlone(c) /\ CallAlone(c) /\ ResponseAlone(c)
    BY <1>4, <1>5, <2>1 DEF InTouch
  <2>4. RequestAlone(c)'
    BY <1>q, <2>1, <2>2, <2>3, AppendAt DEF RequestAlone
  <2>5. CallAlone(c)' /\ ResponseAlone(c)'
    BY <1>2, <2>1, <2>3 DEF CallAlone, ResponseAlone
  <2> QED  BY <2>4, <2>5
<1>7. ASSUME NEW env \in Envelope, env.kind # "none", SendStep(c, env)
      PROVE  (RequestAlone(c) /\ CallAlone(c) /\ ResponseAlone(c))'
  <2>1. /\ cpc[c] = "idle" /\ cpc'[c] = "await" /\ cur'[c] = env
        /\ toServer'[c] = Append(toServer[c], env)
        /\ toClient'[c] = toClient[c] /\ late'[c] = late[c]
    BY <1>7 DEF SendStep
  <2>2. env \in Message(c)
    BY <1>7 DEF Message
  <2>3. RequestAlone(c) /\ CallAlone(c) /\ ResponseAlone(c)
    BY <1>4, <1>5, <2>1 DEF InTouch
  <2>4. toClient[c] = <<>> /\ ~BusyWith(c)
    BY <2>1, <2>3 DEF CallAlone, ResponseAlone
  <2>5. RequestAlone(c)'
    BY <1>q, <1>2, <2>1, <2>2, <2>3, <2>4, AppendAt DEF RequestAlone
  <2>6. CallAlone(c)' /\ ResponseAlone(c)'
    BY <1>2, <2>1, <2>4 DEF CallAlone, ResponseAlone
  <2> QED  BY <2>5, <2>6
<1>8. CASE ReadStep(c)
  <2>1. /\ cpc[c] = "await" /\ toClient[c] # <<>>
        /\ toClient'[c] = Tail(toClient[c])
        /\ toServer'[c] = toServer[c] /\ late'[c] = late[c]
    BY <1>8 DEF ReadStep
  <2>2. RequestAlone(c) /\ CallAlone(c) /\ ResponseAlone(c)
    BY <1>4, <1>5, <2>1 DEF InTouch
  <2>3. Len(toClient[c]) = 1 /\ ~BusyWith(c)
    BY <2>1, <2>2 DEF CallAlone, ResponseAlone
  <2>4. toClient'[c] = <<>>
    BY <1>q, <2>1, <2>3, TailAt
  <2> QED  BY <1>2, <2>1, <2>2, <2>3, <2>4
           DEF RequestAlone, CallAlone, ResponseAlone
<1>9. CASE LeaveStep(c)
  BY <1>4, <1>9 DEF LeaveStep, InTouch
<1> QED  BY <1>6, <1>7, <1>8, <1>9, ClientStepKinds

(* The server takes a message: the request turns into its response or into  *)
(* the call the loop is in.                                                 *)
LEMMA FlightServe ==
    ASSUME TypeInv, FlightInv, NEW c \in Clients, Serve(c)
    PROVE  FlightInv'
<1> DEFINE env == Head(toServer[c])
<1>1. /\ sv = Listening /\ toServer[c] # <<>>
      /\ toServer'[c] = Tail(toServer[c])
      /\ \A d \in Clients \ {c} : toServer'[d] = toServer[d]
      /\ UNCHANGED clientVars
  BY ServeKinds
<1>2. \/ env.kind = "handshake" /\ UNCHANGED <<toClient, sv>>
      \/ /\ env.kind # "handshake" /\ env \in Envelope
         /\ \/ (\E body \in ResponseType : SendToClient(c, env, body))
                 /\ UNCHANGED sv
            \/ /\ sv'.pc \in {"ack", "wait"} /\ sv'.client = c /\ sv'.env = env
               /\ UNCHANGED toClient
  BY ServeKinds
<1>q. toServer[c] \in Seq(Message(c)) /\ toClient[c] \in Seq(Reply)
  BY DEF TypeInv, ToServerTypes, ToClientTypes
<1>h. env = toServer[c][1]
  BY <1>1, <1>q, TailAt
<1> HIDE DEF env
<1>3. \A d \in Clients : ~BusyWith(d)
  BY <1>1 DEF Listening, BusyWith
<1>4. \A d \in Clients \ {c} : SameClient(d) /\ ~BusyWith(d)'
  <2>1. \A d \in Clients \ {c} : toClient'[d] = toClient[d]
    BY <1>2, SendToClientTyped DEF TypeInv
  <2>2. \A d \in Clients \ {c} : ~BusyWith(d)'
    BY <1>1, <1>2 DEF BusyWith, Listening
  <2> QED  BY <1>1, <2>1, <2>2 DEF SameClient, clientVars
<1>5. SUFFICES ASSUME InTouch(c)'
               PROVE  (RequestAlone(c) /\ CallAlone(c) /\ ResponseAlone(c))'
  BY <1>4, FlightFrame DEF FlightInv
<1>6. /\ RequestAlone(c) /\ CallAlone(c) /\ ResponseAlone(c)
      /\ cpc'[c] = cpc[c] /\ cur'[c] = cur[c] /\ cpc[c] # "exited"
  BY <1>1, <1>5 DEF InTouch, clientVars, FlightInv
<1>7. CASE env.kind = "handshake" /\ UNCHANGED <<toClient, sv>>
  <2>1. ~BusyWith(c)'
    BY <1>1, <1>7 DEF BusyWith, Listening
  <2>2. RequestAlone(c)'
    <3> SUFFICES ASSUME NEW i \in 1..Len(toServer'[c]),
                        toServer'[c][i].kind # "handshake"
                 PROVE  /\ i = Len(toServer'[c]) /\ toServer'[c][i] = cur'[c]
                        /\ cpc'[c] = "await" /\ toClient'[c] = <<>>
                        /\ ~BusyWith(c)'
      BY DEF RequestAlone
    <3>1. /\ i + 1 \in 1..Len(toServer[c])
          /\ toServer'[c][i] = toServer[c][i + 1]
          /\ Len(toServer'[c]) = Len(toServer[c]) - 1
          /\ Len(toServer[c]) \in Nat
      BY <1>1, <1>q, TailAt
    <3> QED  BY <1>6, <1>7, <2>1, <3>1 DEF RequestAlone
  <2> QED  BY <1>6, <1>7, <2>1, <2>2 DEF CallAlone, ResponseAlone
<1>8. ASSUME env.kind # "handshake"
      PROVE  /\ env = cur[c] /\ toClient[c] = <<>> /\ cpc[c] = "await"
             /\ RequestAlone(c)'
  <2>1. 1 \in 1..Len(toServer[c])
    BY <1>1, <1>q, TailAt
  <2>2. /\ 1 = Len(toServer[c]) /\ env = cur[c]
        /\ toClient[c] = <<>> /\ cpc[c] = "await"
    BY <1>6, <1>8, <1>h, <2>1 DEF RequestAlone
  <2>3. Len(toServer'[c]) = 0
    BY <1>1, <1>q, <2>2, TailAt
  <2> QED  BY <2>2, <2>3 DEF RequestAlone
<1>9. ASSUME env.kind # "handshake", env \in Envelope, NEW body \in ResponseType,
             SendToClient(c, env, body), UNCHANGED sv
      PROVE  (RequestAlone(c) /\ CallAlone(c) /\ ResponseAlone(c))'
  <2> DEFINE r == [req |-> env, body |-> body]
  <2>1. toClient'[c] = Append(toClient[c], r) /\ r \in Reply
    BY <1>6, <1>9, SendToClientTyped DEF TypeInv, Reply
  <2>2. r.req = env
    OBVIOUS
  <2> HIDE DEF r
  <2>3. Len(toClient[c]) = 0
    BY <1>8, <1>9
  <2>4. Len(toClient'[c]) = 1 /\ toClient'[c][1] = r
    BY <1>q, <2>1, <2>3, AppendAt
  <2>5. ~BusyWith(c)'
    BY <1>1, <1>9 DEF BusyWith, Listening
  <2> QED  BY <1>6, <1>8, <1>9, <2>2, <2>4, <2>5 DEF CallAlone, ResponseAlone
<1>10. CASE /\ env.kind # "handshake" /\ UNCHANGED toClient
            /\ sv'.pc \in {"ack", "wait"} /\ sv'.client = c /\ sv'.env = env
  BY <1>6, <1>8, <1>10 DEF CallAlone, ResponseAlone
<1> QED  BY <1>2, <1>7, <1>9, <1>10

(* A call ends: the response takes its place. *)
LEMMA FlightFinishCall ==
    ASSUME TypeInv, FlightInv, FinishCall
    PROVE  FlightInv'
<1>0. sv.client \in Clients
  BY FinishCallKinds
<1>c. PICK c \in Clients : c = sv.client
  BY <1>0
<1> DEFINE r == [req |-> sv.env, body |-> resp']
<1>1. /\ sv.pc \in {"ack", "wait"} /\ sv' = Listening
      /\ sv.env \in Envelope /\ resp' \in ResponseType
      /\ SendToClient(c, sv.env, resp')
      /\ UNCHANGED <<clientVars, toServer>>
  BY <1>c, FinishCallKinds
<1>2. r \in Reply /\ r.req = sv.env /\ toClient[c] \in Seq(Reply)
  BY <1>1 DEF Reply, TypeInv, ToClientTypes
<1>3. \/ cpc[c] = "exited" /\ toClient' = toClient
      \/ /\ toClient'[c] = Append(toClient[c], r)
         /\ \A d \in Clients \ {c} : toClient'[d] = toClient[d]
  BY <1>1, SendToClientTyped DEF TypeInv
<1>4. BusyWith(c) /\ \A d \in Clients : ~BusyWith(d)'
  BY <1>1, <1>c DEF BusyWith, Listening
<1> HIDE DEF r
<1>5. \A d \in Clients \ {c} : SameClient(d)
  BY <1>1, <1>3 DEF SameClient, clientVars
<1>6. SUFFICES ASSUME InTouch(c)'
               PROVE  (RequestAlone(c) /\ CallAlone(c) /\ ResponseAlone(c))'
  BY <1>4, <1>5, FlightFrame DEF FlightInv
<1>7. /\ RequestAlone(c) /\ CallAlone(c) /\ ResponseAlone(c)
      /\ cpc'[c] = cpc[c] /\ cur'[c] = cur[c] /\ cpc[c] # "exited"
  BY <1>1, <1>6 DEF InTouch, clientVars, FlightInv
<1>8. cpc[c] = "await" /\ toClient[c] = <<>> /\ sv.env = cur[c]
  BY <1>4, <1>7 DEF CallAlone
<1>9. Len(toClient[c]) = 0
  BY <1>8
<1>10. Len(toClient'[c]) = 1 /\ toClient'[c][1] = r
  <2>1. toClient'[c] = Append(toClient[c], r)
    BY <1>3, <1>7
  <2>2. r \in Reply /\ toClient[c] \in Seq(Reply)
    BY <1>2
  <2> QED  BY <1>9, <2>1, <2>2, AppendAt
<1>11. RequestAlone(c)'
  BY <1>1, <1>4, <1>7 DEF RequestAlone
<1> QED  BY <1>2, <1>4, <1>7, <1>8, <1>10, <1>11 DEF CallAlone, ResponseAlone

(* A crash cuts the queues and ends the call. *)
LEMMA FlightDies ==
    ASSUME TypeInv, FlightInv, ServerDies
    PROVE  FlightInv'
<1>1. sv' = Dead /\ UNCHANGED clientVars
  BY DEF ServerDies
<1> SUFFICES ASSUME NEW c \in Clients, InTouch(c)'
             PROVE  (RequestAlone(c) /\ CallAlone(c) /\ ResponseAlone(c))'
  BY DEF FlightInv
<1>2. ~BusyWith(c)'
  BY <1>1 DEF BusyWith, Dead
<1>3. /\ RequestAlone(c) /\ CallAlone(c) /\ ResponseAlone(c)
      /\ cpc'[c] = cpc[c] /\ cur'[c] = cur[c]
  BY <1>1 DEF InTouch, clientVars, FlightInv
<1>4. /\ toServer'[c] \in Seq(Message(c)) /\ toClient'[c] \in Seq(Reply)
      /\ toServer[c] \in Seq(Message(c)) /\ toClient[c] \in Seq(Reply)
      /\ Len(toClient'[c]) <= Len(toClient[c])
      /\ \A i \in 1..Len(toClient'[c]) : toClient'[c][i] = toClient[c][i]
  BY DyingCuts DEF TypeInv, ToServerTypes, ToClientTypes
<1>5. PICK k \in 0..Len(toServer[c]) :
        /\ Len(toServer'[c]) = Len(toServer[c]) - k
        /\ \A i \in 1..Len(toServer'[c]) : toServer'[c][i] = toServer[c][i + k]
  BY DyingCuts DEF TypeInv
<1>6. /\ Len(toServer[c]) \in Nat
      /\ Len(toClient[c]) \in Nat /\ Len(toClient'[c]) \in Nat
      /\ toClient[c] = <<>> <=> Len(toClient[c]) = 0
      /\ toClient'[c] = <<>> <=> Len(toClient'[c]) = 0
  BY <1>4, EmptySeq, LenProperties
<1>7. toClient[c] = <<>> => toClient'[c] = <<>>
  BY <1>4, <1>6
<1>8. RequestAlone(c)'
  <2> SUFFICES ASSUME NEW i \in 1..Len(toServer'[c]),
                      toServer'[c][i].kind # "handshake"
               PROVE  /\ i = Len(toServer'[c]) /\ toServer'[c][i] = cur'[c]
                      /\ cpc'[c] = "await" /\ toClient'[c] = <<>>
    BY <1>2 DEF RequestAlone
  <2>1. i + k \in 1..Len(toServer[c]) /\ toServer'[c][i] = toServer[c][i + k]
    BY <1>5, <1>6
  <2>2. i + k = Len(toServer[c]) => i = Len(toServer'[c])
    BY <1>5, <1>6
  <2> QED  BY <1>3, <1>7, <2>1, <2>2 DEF RequestAlone
<1>9. ResponseAlone(c)'
  BY <1>3, <1>4, <1>6 DEF ResponseAlone
<1> QED  BY <1>2, <1>8, <1>9 DEF CallAlone

(* All steps together. *)
LEMMA FlightStep == TypeInv /\ FlightInv /\ [Next]_vars => FlightInv'
<1> SUFFICES ASSUME TypeInv, FlightInv, [Next]_vars PROVE FlightInv'
  OBVIOUS
<1>1. CASE \/ \E t \in Ticket : WorkerFinishes(t)
           \/ ServerRestarts \/ UNCHANGED vars
  <2>1. /\ UNCHANGED <<clientVars, toServer, toClient>>
        /\ sv' = sv \/ (sv = Dead /\ sv' = Listening)
    BY <1>1, OtherKinds
  <2>2. \A d \in Clients : SameClient(d)
    BY <2>1 DEF SameClient, clientVars
  <2>3. \A d \in Clients : BusyWith(d)' => BusyWith(d) /\ sv'.env = sv.env
    BY <2>1 DEF BusyWith, Listening
  <2> QED  BY <2>2, <2>3, FlightFrame DEF FlightInv
<1> QED  BY <1>1, FlightClientStep, FlightServe, FlightFinishCall, FlightDies
         DEF Next, Quiet

(* It holds of the system. *)
LEMMA FlightInvariant == Spec => [](TypeInv /\ ContentInv /\ FlightInv)
<1>1. Init => FlightInv
  BY DEF Init, FlightInv, RequestAlone, CallAlone, ResponseAlone, BusyWith,
         Listening
<1> QED  BY <1>1, FlightStep, ContentInvariant, PTL DEF Spec

(* As long as a client's receive never timed out, the response it is about  *)
(* to read is the one to its last request, whatever the other clients do    *)
(* and however often the server is restarted.                               *)
THEOREM InStep == Spec => []InStepUnlessLate
<1>1. TypeInv /\ FlightInv => InStepUnlessLate
  <2> SUFFICES ASSUME TypeInv, FlightInv, NEW c \in Clients, ~late[c]
               PROVE  /\ cpc[c] \in {"start", "idle"} => toClient[c] = <<>>
                      /\ cpc[c] = "await" =>
                            /\ Len(toClient[c]) <= 1
                            /\ \A r \in Elements(toClient[c]) : r.req = cur[c]
    BY DEF InStepUnlessLate
  <2>0. late[c] \in BOOLEAN
    BY DEF TypeInv, ClientTypes
  <2>1. cpc[c] # "exited" => ResponseAlone(c)
    <3>1. late[c] = FALSE
      BY <2>0, Zenon
    <3> QED  BY <3>1 DEF InTouch, FlightInv
  <2>2. CASE toClient[c] = <<>>
    BY <2>2 DEF Elements
  <2>3. CASE toClient[c] # <<>>
    <3> SUFFICES ASSUME cpc[c] # "exited"
                 PROVE  /\ cpc[c] = "await" /\ Len(toClient[c]) <= 1
                        /\ \A r \in Elements(toClient[c]) : r.req = cur[c]
      OBVIOUS
    <3>1. /\ cpc[c] = "await" /\ Len(toClient[c]) = 1
          /\ toClient[c][1].req = cur[c]
      BY <2>1, <2>3 DEF ResponseAlone
    <3>2. \A i \in 1..Len(toClient[c]) : toClient[c][i].req = cur[c]
      BY <3>1
    <3> QED  BY <3>1, <3>2 DEF Elements
  <2> QED  BY <2>2, <2>3
<1> QED  BY <1>1, FlightInvariant, PTL

-----------------------------------------------------------------------------
(* How much is under way, late clients included: never more than was sent.  *)

Unread(c)    == Len(toServer[c])
Unseen(c)    == Len(toClient[c])
BusyCount(c) == IF BusyWith(c) THEN 1 ELSE 0

Load(c) == Unread(c) + Unseen(c) + BusyCount(c)

Sent(c) == IF cpc[c] = "start" THEN cur[c].no ELSE cur[c].no + 1

CountInv ==
    \A c \in Clients : cur[c].no <= MaxCommands[c] /\ Load(c) <= Sent(c)

(* The counted quantities are numbers. *)
LEMMA CountNat ==
    ASSUME TypeInv, NEW c \in Clients
    PROVE  /\ cur[c].no \in Nat /\ MaxCommands[c] \in Nat
           /\ Unread(c) \in Nat /\ Unseen(c) \in Nat
           /\ BusyCount(c) \in {0, 1}
           /\ Load(c) \in Nat /\ Sent(c) \in Nat
           /\ toServer[c] \in Seq(Message(c)) /\ toClient[c] \in Seq(Reply)
<1>1. cur[c] \in Envelope /\ MaxCommands[c] \in Nat
  BY IpcSystemAssumption DEF TypeInv, ClientTypes
<1>2. toServer[c] \in Seq(Message(c)) /\ toClient[c] \in Seq(Reply)
  BY DEF TypeInv, ToServerTypes, ToClientTypes
<1>3. cur[c].no \in Nat /\ Sent(c) \in Nat
  BY <1>1, EnvelopeFields DEF Sent
<1>4. Unread(c) \in Nat /\ Unseen(c) \in Nat
  BY <1>2, LenProperties DEF Unread, Unseen
<1>5. BusyCount(c) \in {0, 1}
  BY DEF BusyCount
<1> QED  BY <1>1, <1>2, <1>3, <1>4, <1>5 DEF Load

(* A client's step. *)
LEMMA CountClientStep ==
    ASSUME TypeInv, CountInv, NEW c \in Clients, ClientStep(c)
    PROVE  CountInv'
<1>1. /\ UNCHANGED serverVars /\ \A d \in Clients \ {c} : SameClient(d)
      /\ \/ StartStep(c) \/ ReadStep(c) \/ LeaveStep(c)
         \/ \E env \in Envelope : env.kind # "none" /\ SendStep(c, env)
  BY ClientStepKinds
<1>2. \A d \in Clients : BusyCount(d)' = BusyCount(d)
  BY <1>1 DEF serverVars, BusyWith, BusyCount
<1>3. \A d \in Clients \ {c} : (cur[d].no <= MaxCommands[d] /\ Load(d) <= Sent(d))'
  <2> SUFFICES ASSUME NEW d \in Clients \ {c}
               PROVE  (cur[d].no <= MaxCommands[d] /\ Load(d) <= Sent(d))'
    OBVIOUS
  <2>1. /\ cur'[d] = cur[d] /\ Sent(d)' = Sent(d) /\ BusyCount(d)' = BusyCount(d)
        /\ Unread(d)' = Unread(d) /\ Unseen(d)' = Unseen(d)
    BY <1>1, <1>2 DEF SameClient, Sent, Unread, Unseen
  <2>2. cur[d].no <= MaxCommands[d] /\ Load(d) <= Sent(d)
    BY DEF CountInv
  <2> QED  BY <2>1, <2>2 DEF Load
<1>4. SUFFICES (cur[c].no <= MaxCommands[c] /\ Load(c) <= Sent(c))'
  BY <1>3 DEF CountInv
<1>5. cur[c].no <= MaxCommands[c] /\ Load(c) <= Sent(c)
  BY DEF CountInv
<1>n. /\ cur[c].no \in Nat /\ MaxCommands[c] \in Nat
      /\ Unread(c) \in Nat /\ Unseen(c) \in Nat /\ BusyCount(c) \in {0, 1}
  BY CountNat
<1>q. toServer[c] \in Seq(Message(c)) /\ toClient[c] \in Seq(Reply)
  BY CountNat
<1>6. CASE StartStep(c)
  <2>1. Sent(c) = cur[c].no /\ Sent(c)' = cur[c].no + 1 /\ cur'[c] = cur[c]
        /\ Unseen(c)' = Unseen(c)
    BY <1>6 DEF StartStep, Sent, Unseen
  <2>2. Unread(c)' = Unread(c) \/ Unread(c)' = Unread(c) + 1
    <3>1. CASE cpc'[c] = "exited" /\ toServer'[c] = toServer[c]
      BY <3>1 DEF Unread
    <3>2. CASE /\ cpc'[c] = "idle" /\ verifyExecCaps(Announced[c])
               /\ toServer'[c] = Append(toServer[c], FirstHandshake(Announced[c]))
      <4>1. FirstHandshake(Announced[c]) \in Message(c)
        BY <3>2 DEF Message
      <4> QED  BY <1>q, <3>2, <4>1, AppendAt DEF Unread
    <3> QED  BY <1>6, <3>1, <3>2 DEF StartStep
  <2> QED  BY <1>2, <1>5, <1>n, <2>1, <2>2 DEF Load
<1>7. ASSUME NEW env \in Envelope, env.kind # "none", SendStep(c, env)
      PROVE  (cur[c].no <= MaxCommands[c] /\ Load(c) <= Sent(c))'
  <2>1. env \in Message(c)
    BY <1>7 DEF Message
  <2>2. Unread(c)' = Unread(c) + 1
    BY <1>7, <1>q, <2>1, AppendAt DEF SendStep, Unread
  <2>3. /\ cur'[c].no = cur[c].no + 1 /\ cur[c].no < MaxCommands[c]
        /\ Sent(c) = cur[c].no + 1 /\ Sent(c)' = cur'[c].no + 1
        /\ Unseen(c)' = Unseen(c)
    BY <1>7 DEF SendStep, Sent, Unseen
  <2> QED  BY <1>2, <1>5, <1>n, <2>2, <2>3 DEF Load
<1>8. CASE ReadStep(c)
  <2>1. /\ cur'[c].no = cur[c].no /\ Unread(c)' = Unread(c)
        /\ Sent(c) = cur[c].no + 1 /\ Sent(c)' = cur[c].no + 1
    BY <1>8 DEF ReadStep, Sent, Unread
  <2>2. Unseen(c)' = Unseen(c) - 1
    BY <1>8, <1>q, TailAt DEF ReadStep, Unseen
  <2> QED  BY <1>2, <1>5, <1>n, <2>1, <2>2 DEF Load
<1>9. CASE LeaveStep(c)
  <2>1. /\ cur'[c].no = cur[c].no /\ Sent(c)' = Sent(c)
        /\ Unread(c)' = Unread(c) /\ Unseen(c)' = Unseen(c)
    BY <1>9 DEF LeaveStep, Sent, Unread, Unseen
  <2> QED  BY <1>2, <1>5, <2>1 DEF Load
<1> QED  BY <1>1, <1>6, <1>7, <1>8, <1>9

(* The server adds nothing to what is under way for a client. *)
LEMMA LoadServe ==
    ASSUME TypeInv, NEW c \in Clients, Serve(c), NEW d \in Clients
    PROVE  Load(d)' <= Load(d)
<1> DEFINE env == Head(toServer[c])
<1>1. /\ sv = Listening /\ toServer[c] # <<>>
      /\ toServer'[c] = Tail(toServer[c])
      /\ \A e \in Clients \ {c} : toServer'[e] = toServer[e]
      /\ \/ UNCHANGED <<toClient, sv>>
         \/ /\ env \in Envelope
            /\ \E body \in ResponseType : SendToClient(c, env, body)
            /\ UNCHANGED sv
         \/ sv'.client = c /\ UNCHANGED toClient
  BY ServeKinds
<1> HIDE DEF env
<1>n. Unread(d) \in Nat /\ Unseen(d) \in Nat
  BY CountNat
<1>2. Unread(d)' = IF d = c THEN Unread(d) - 1 ELSE Unread(d)
  <2>1. CASE d = c
    BY <1>1, <2>1, CountNat, TailAt DEF Unread
  <2>2. CASE d # c
    BY <1>1, <2>2 DEF Unread
  <2> QED  BY <2>1, <2>2
<1>3. BusyCount(d) = 0
  BY <1>1 DEF BusyWith, BusyCount, Listening
<1>4. CASE UNCHANGED <<toClient, sv>>
  <2>1. BusyCount(d)' = 0 /\ Unseen(d)' = Unseen(d)
    BY <1>1, <1>4 DEF BusyWith, BusyCount, Listening, Unseen
  <2> QED  BY <1>2, <1>3, <1>n, <2>1 DEF Load
<1>5. ASSUME env \in Envelope, NEW body \in ResponseType,
             SendToClient(c, env, body), UNCHANGED sv
      PROVE  Load(d)' <= Load(d)
  <2>1. BusyCount(d)' = 0
    BY <1>1, <1>5 DEF BusyWith, BusyCount, Listening
  <2> DEFINE r == [req |-> env, body |-> body]
  <2>2. r \in Reply /\ toClient[d] \in Seq(Reply)
    BY <1>5, CountNat DEF Reply
  <2>3. \/ toClient'[d] = toClient[d]
        \/ d = c /\ toClient'[d] = Append(toClient[d], r)
    BY <1>5, SendToClientTyped DEF TypeInv
  <2> HIDE DEF r
  <2>4. \/ Unseen(d)' = Unseen(d)
        \/ d = c /\ Unseen(d)' = Unseen(d) + 1
    BY <2>2, <2>3, AppendAt DEF Unseen
  <2> QED  BY <1>2, <1>3, <1>n, <2>1, <2>4 DEF Load
<1>6. CASE sv'.client = c /\ UNCHANGED toClient
  <2>1. BusyCount(d)' \in {0, 1} /\ (d # c => BusyCount(d)' = 0)
    BY <1>6 DEF BusyWith, BusyCount
  <2>2. Unseen(d)' = Unseen(d)
    BY <1>6 DEF Unseen
  <2> QED  BY <1>2, <1>3, <1>n, <2>1, <2>2 DEF Load
<1> QED  BY <1>1, <1>4, <1>5, <1>6

(* A call that ends turns into its response. *)
LEMMA LoadFinishCall ==
    ASSUME TypeInv, FinishCall, NEW d \in Clients
    PROVE  Load(d)' <= Load(d)
<1>1. /\ sv.pc \in {"ack", "wait"} /\ sv' = Listening
      /\ sv.client \in Clients /\ sv.env \in Envelope
      /\ resp' \in ResponseType
      /\ SendToClient(sv.client, sv.env, resp') /\ UNCHANGED toServer
  BY FinishCallKinds
<1>n. Unread(d) \in Nat /\ Unseen(d) \in Nat /\ toClient[d] \in Seq(Reply)
  BY CountNat
<1>2. /\ BusyCount(d)' = 0 /\ Unread(d)' = Unread(d)
      /\ BusyCount(d) = IF d = sv.client THEN 1 ELSE 0
  BY <1>1 DEF BusyWith, BusyCount, Listening, Unread
<1> DEFINE r == [req |-> sv.env, body |-> resp']
<1>3. r \in Reply
  BY <1>1 DEF Reply
<1>4. \/ toClient'[d] = toClient[d]
      \/ d = sv.client /\ toClient'[d] = Append(toClient[d], r)
  BY <1>1, SendToClientTyped DEF TypeInv
<1> HIDE DEF r
<1>5. \/ Unseen(d)' = Unseen(d)
      \/ d = sv.client /\ Unseen(d)' = Unseen(d) + 1
  BY <1>3, <1>4, <1>n, AppendAt DEF Unseen
<1> QED  BY <1>2, <1>5, <1>n DEF Load

(* A crash loses messages. *)
LEMMA LoadDies ==
    ASSUME TypeInv, ServerDies, NEW d \in Clients
    PROVE  Load(d)' <= Load(d)
<1>1. BusyCount(d)' = 0
  BY DEF ServerDies, Dead, BusyWith, BusyCount
<1>n. Unread(d) \in Nat /\ Unseen(d) \in Nat /\ BusyCount(d) \in {0, 1}
  BY CountNat
<1>2. Unseen(d)' <= Unseen(d) /\ Unseen(d)' \in Nat
  <2>1. toClient'[d] \in Seq(Reply) /\ Len(toClient'[d]) <= Len(toClient[d])
    BY DyingCuts DEF TypeInv, ToClientTypes
  <2> QED  BY <2>1, LenProperties DEF Unseen
<1>3. \E k \in 0..Unread(d) : Unread(d)' = Unread(d) - k
  BY DyingCuts DEF TypeInv, Unread
<1> QED  BY <1>1, <1>2, <1>3, <1>n DEF Load

(* The server's steps, a crash included. *)
LEMMA CountServerStep ==
    ASSUME TypeInv, CountInv, TypeInv',
           \/ \E c \in Clients : Serve(c)
           \/ FinishCall \/ ServerDies \/ ServerRestarts \/ UNCHANGED vars
           \/ \E t \in Ticket : WorkerFinishes(t)
    PROVE  CountInv'
<1>1. UNCHANGED clientVars
  BY ServeKinds, FinishCallKinds, OtherKinds DEF ServerDies
<1> SUFFICES ASSUME NEW d \in Clients
             PROVE  (cur[d].no <= MaxCommands[d] /\ Load(d) <= Sent(d))'
  BY DEF CountInv
<1>2. Load(d)' <= Load(d)
  <2>1. CASE \/ ServerRestarts \/ UNCHANGED vars
             \/ \E t \in Ticket : WorkerFinishes(t)
    <3>1. /\ UNCHANGED <<toServer, toClient>>
          /\ sv' = sv \/ (sv = Dead /\ sv' = Listening)
      BY <2>1, OtherKinds
    <3>2. BusyCount(d)' = BusyCount(d)
      BY <3>1 DEF BusyWith, BusyCount, Dead, Listening
    <3>3. Load(d)' = Load(d) /\ Load(d) \in Nat
      BY <3>1, <3>2, CountNat DEF Load, Unread, Unseen
    <3> QED  BY <3>3
  <2> QED  BY <2>1, LoadServe, LoadFinishCall, LoadDies
<1>3. /\ cur[d].no <= MaxCommands[d] /\ Load(d) <= Sent(d)
      /\ Sent(d)' = Sent(d) /\ cur' = cur
  BY <1>1 DEF CountInv, clientVars, Sent
<1>4. Load(d) \in Nat /\ Sent(d) \in Nat
  BY CountNat
<1>5. Load(d)' \in Nat
  <2>1. /\ toServer'[d] \in Seq(Message(d)) /\ toClient'[d] \in Seq(Reply)
        /\ BusyCount(d)' \in {0, 1}
    BY DEF TypeInv, ToServerTypes, ToClientTypes, BusyCount
  <2>2. Unread(d)' \in Nat /\ Unseen(d)' \in Nat
    BY <2>1, LenProperties DEF Unread, Unseen
  <2> QED  BY <2>1, <2>2 DEF Load
<1> QED  BY <1>2, <1>3, <1>4, <1>5

(* The variables keep their types and the queues their bounds, for every    *)
(* number of clients, commands and restarts; the server only waits for or   *)
(* acknowledges a ticket that is in the table.                              *)
THEOREM TypeCorrect == Spec => []TypeOK
<1>1. Init => CountInv
  BY IpcSystemAssumption
  DEF Init, CountInv, Load, Unread, Unseen, BusyCount, BusyWith, Listening,
      Sent, NoEnvelope
<1>2. TypeInv /\ CountInv /\ [Next]_vars => CountInv'
  BY TypeStep, CountClientStep, CountServerStep DEF Next, Quiet
<1>3. TypeInv /\ CountInv => TypeOK
  <2> SUFFICES ASSUME TypeInv, CountInv PROVE TypeOK
    OBVIOUS
  <2>1. ASSUME NEW c \in Clients
        PROVE  /\ Len(toServer[c]) <= MaxInFlight(c)
               /\ Len(toClient[c]) <= MaxInFlight(c)
    <3>1. /\ cur[c].no \in Nat /\ MaxCommands[c] \in Nat
          /\ Unread(c) \in Nat /\ Unseen(c) \in Nat /\ BusyCount(c) \in {0, 1}
      BY CountNat
    <3>2. cur[c].no <= MaxCommands[c] /\ Load(c) <= Sent(c)
      BY DEF CountInv
    <3>3. Sent(c) \in Nat /\ Sent(c) <= MaxCommands[c] + 1
      BY <3>1, <3>2 DEF Sent
    <3>4. Unread(c) <= MaxInFlight(c) /\ Unseen(c) <= MaxInFlight(c)
      BY <3>1, <3>2, <3>3 DEF Load, MaxInFlight
    <3> QED  BY <3>4 DEF Unread, Unseen
  <2>2. ASSUME NEW c \in Clients
        PROVE  Elements(toServer[c]) \subseteq
                  Envelope \union {FirstHandshake(Announced[c])}
    <3>1. \A i \in 1..Len(toServer[c]) : toServer[c][i] \in Message(c)
      BY ElementOfSeq DEF TypeInv, ToServerTypes
    <3> QED  BY <3>1 DEF Elements, Message
  <2>3. ASSUME NEW c \in Clients, NEW r \in Elements(toClient[c])
        PROVE  r.req \in Envelope /\ r.body \in ResponseType
    <3>1. r \in Reply
      BY ElementOfSeq DEF TypeInv, ToClientTypes, Elements
    <3> QED  BY <3>1 DEF Reply
  <2>4. /\ sv.pc \in {"recv", "ack", "wait", "dead"}
        /\ sv.pc \in {"ack", "wait"} =>
              sv.client \in Clients /\ sv.env \in Envelope
    BY SvFields DEF TypeInv, ServerTypes
  <2> QED  BY <2>1, <2>2, <2>3, <2>4
           DEF TypeInv, TypeOK, ClientTypes, ServerTypes, StoreTypes, BusyTicket
<1> QED  BY <1>1, <1>2, <1>3, TypeInit, TypeStep, PTL DEF Spec

=============================================================================
