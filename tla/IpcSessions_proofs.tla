------------------------- MODULE IpcSessions_proofs -------------------------
(***************************************************************************)
(* The system implements Sessions, an outcome only leaves the table        *)
(* towards its owner, and a client in touch reads right answers: for any   *)
(* number of clients, commands, tickets and restarts.                      *)
(***************************************************************************)
EXTENDS IpcTickets_proofs

(* A waiting client waits for the answer to a request, and a get is for a   *)
(* ticket that it lists.                                                    *)
AwaitInv ==
    \A c \in Clients : cpc[c] = "await" =>
        /\ cur[c].kind \in {"submit", "get"}
        /\ cur[c].kind = "get" => cur[c].ticket \in pending[c]

SessionInv == ListContext /\ ListInv /\ AwaitInv

(* AwaitInv is inductive: the list only changes when a call ends. *)
LEMMA AwaitStep == TypeInv /\ AwaitInv /\ [Next]_vars => AwaitInv'
<1> SUFFICES ASSUME TypeInv, AwaitInv, [Next]_vars PROVE AwaitInv'
  OBVIOUS
<1>1. ASSUME UNCHANGED clientVars PROVE AwaitInv'
  BY <1>1 DEF AwaitInv, clientVars
<1>2. ASSUME NEW c \in Clients, ClientStep(c) PROVE AwaitInv'
  <2>1. /\ \A d \in Clients \ {c} : SameClient(d)
        /\ \/ StartStep(c) \/ ReadStep(c) \/ LeaveStep(c)
           \/ \E env \in Envelope : env.kind # "none" /\ SendStep(c, env)
    BY <1>2, ClientStepKinds
  <2> SUFFICES ASSUME NEW d \in Clients, cpc'[d] = "await"
               PROVE  /\ cur'[d].kind \in {"submit", "get"}
                      /\ cur'[d].kind = "get" => cur'[d].ticket \in pending'[d]
    BY DEF AwaitInv
  <2>2. CASE d # c
    BY <2>1, <2>2 DEF SameClient, AwaitInv
  <2>3. ASSUME d = c, NEW env \in Envelope, env.kind # "none", SendStep(c, env)
        PROVE  /\ cur'[d].kind \in {"submit", "get"}
               /\ cur'[d].kind = "get" => cur'[d].ticket \in pending'[d]
    BY <2>3, EnvelopeFields DEF SendStep
  <2>4. CASE d = c /\ (StartStep(c) \/ ReadStep(c) \/ LeaveStep(c))
    BY <2>4 DEF StartStep, ReadStep, LeaveStep
  <2> QED  BY <2>1, <2>2, <2>3, <2>4
<1>3. ASSUME NEW c \in Clients, Serve(c) PROVE UNCHANGED clientVars
  BY <1>3, ServeKinds
<1>4. CASE \/ FinishCall \/ ServerDies \/ ServerRestarts \/ UNCHANGED vars
           \/ \E t \in Ticket : WorkerFinishes(t)
  <2>1. UNCHANGED clientVars
    BY <1>4, FinishCallKinds, OtherKinds DEF ServerDies, clientVars
  <2> QED  BY <1>1, <2>1
<1> QED  BY <1>1, <1>2, <1>3, <1>4 DEF Next, Quiet

(* All of it holds of the system. *)
LEMMA SessionInvariant == Spec => []SessionInv
<1>1. Init => AwaitInv
  BY DEF Init, AwaitInv
<1> QED  BY <1>1, AwaitStep, ListInvariant, PTL
         DEF Spec, SessionInv, ListContext

-----------------------------------------------------------------------------
(* Outcomes and their owners. *)

(* The response to a get, as the last element of the owner's queue. *)
LEMMA LastReply ==
    ASSUME TypeInv, NEW c \in Clients, NEW env \in Envelope,
           NEW body \in ResponseType, SendToClient(c, env, body),
           cpc[c] # "exited"
    PROVE  LET n == Len(toClient[c]) + 1
           IN  /\ Len(toClient'[c]) = n
               /\ toClient'[c][n].req = env
               /\ toClient'[c][n].body = body
<1> DEFINE r == [req |-> env, body |-> body]
<1>1. toClient'[c] = Append(toClient[c], r) /\ r \in Reply
  BY SendToClientTyped DEF TypeInv, Reply
<1>2. r.req = env /\ r.body = body
  OBVIOUS
<1>3. toClient[c] \in Seq(Reply)
  BY DEF TypeInv, ToClientTypes
<1> HIDE DEF r
<1>4. /\ Len(Append(toClient[c], r)) = Len(toClient[c]) + 1
      /\ Append(toClient[c], r)[Len(toClient[c]) + 1] = r
  BY <1>1, <1>3, AppendAt
<1> QED  BY <1>1, <1>2, <1>4

(* A get that takes a ticket out of the table answers with its outcome. *)
LEMMA GetTakes ==
    ASSUME TypeInv, NEW t \in Ticket, NEW u \in Ticket,
           phase[t] # "consumed", phase'[t] = "consumed",
           Store!GetFinished(u) \/ Store!GetPending(u) \/ Store!GetUnknown(u)
    PROVE  /\ t = u
           /\ resp' = GetResp(t, execute(reqOf[t]))
           /\ resp' \in ResponseType
<1>1. Store!GetFinished(u)
  BY DEF Store!GetPending, Store!GetUnknown
<1>2. /\ phase' = [phase EXCEPT ![u] = "consumed"]
      /\ resp' = GetResp(u, execute(reqOf[u]))
  BY <1>1, StoreExecute, StoreVocabulary DEF Store!GetFinished
<1>3. t = u
  BY <1>2 DEF TypeInv, StoreTypes
<1>4. resp' \in ResponseType
  BY GetCall DEF TypeInv, StoreTypes
<1> QED  BY <1>2, <1>3, <1>4

(* A step that takes a ticket out of the table delivers its outcome. *)
LEMMA OutcomeStep ==
    ASSUME SessionInv, [Next]_vars, NEW t \in Ticket,
           phase[t] # "consumed", phase'[t] = "consumed", sv' # Dead
    PROVE  cpc[owner[t]] = "exited" \/ Delivered(owner[t], t)
<1> USE DEF SessionInv, ListContext
<1>1. ASSUME NEW c \in Clients, NEW env \in Envelope, owner[t] = c,
             env.kind = "get", env.ticket = t,
             resp' = GetResp(t, execute(reqOf[t])), resp' \in ResponseType,
             SendToClient(c, env, resp')
      PROVE  cpc[c] = "exited" \/ Delivered(c, t)
  BY <1>1, LastReply DEF Delivered
<1>2. ASSUME NEW c \in Clients, GetNow(c)
      PROVE  \E env \in Envelope :
                /\ owner[t] = c /\ env.kind = "get" /\ env.ticket = t
                /\ resp' = GetResp(t, execute(reqOf[t]))
                /\ resp' \in ResponseType /\ SendToClient(c, env, resp')
  <2> DEFINE env == Head(toServer[c])
  <2>1. /\ toServer[c] # <<>> /\ env.kind = "get"
        /\ \/ Store!GetFinished(env.ticket) \/ Store!GetPending(env.ticket)
           \/ Store!GetUnknown(env.ticket)
        /\ SendToClient(c, env, resp')
    BY <1>2 DEF GetNow, Incoming
  <2>2. env \in Message(c) /\ env \in Elements(toServer[c])
    BY <2>1, ElementsTail, HeadTailProperties DEF TypeInv, ToServerTypes
  <2> HIDE DEF env
  <2>3. env \in Envelope /\ env.ticket \in Ticket /\ owner[env.ticket] = c
    BY <2>1, <2>2, MessageFields, EnvelopeFields DEF OwnGets
  <2>4. /\ env.ticket = t /\ resp' = GetResp(t, execute(reqOf[t]))
        /\ resp' \in ResponseType
    BY <2>1, <2>3, GetTakes
  <2> QED  BY <2>1, <2>3, <2>4
<1>3. ASSUME FinishCall
      PROVE  \E c \in Clients, env \in Envelope :
                /\ owner[t] = c /\ env.kind = "get" /\ env.ticket = t
                /\ resp' = GetResp(t, execute(reqOf[t]))
                /\ resp' \in ResponseType /\ SendToClient(c, env, resp')
  <2>1. /\ sv.pc \in {"ack", "wait"} /\ sv.client \in Clients
        /\ sv.env \in Envelope /\ sv.ticket \in Ticket
        /\ SendToClient(sv.client, sv.env, resp')
    BY <1>3, FinishCallKinds, SvFields DEF TypeInv, ServerTypes
  <2>2. /\ sv.pc = "wait"
        /\ Store!GetFinished(sv.ticket) \/ Store!GetPending(sv.ticket)
    BY <1>3
    DEF FinishCall, AnswerTicket, GetWakes, GetExpires, Store!Acknowledge
  <2>3. /\ sv.ticket = t /\ resp' = GetResp(t, execute(reqOf[t]))
        /\ resp' \in ResponseType
    BY <2>1, <2>2, GetTakes
  <2>4. /\ owner[t] = sv.client /\ sv.env.ticket = t /\ sv.env.kind = "get"
    BY <2>2, <2>3 DEF OwnGets, ContentInv, BusyInv
  <2> QED  BY <2>1, <2>3, <2>4
<1>4. FinishCall \/ \E c \in Clients : GetNow(c)
  <2>1. ~UNCHANGED phase
    OBVIOUS
  <2>2. ASSUME NEW c \in Clients, Serve(c), ~GetNow(c) PROVE FALSE
    <3>1. ASSUME NEW u \in Ticket, SubmitNonBlocking(c, u) PROVE FALSE
      <4>1. phase' = [phase EXCEPT ![u] = "pending"]
        BY <3>1 DEF SubmitNonBlocking, Store!Submit
      <4> QED  BY <4>1 DEF TypeInv, StoreTypes
    <3> QED  BY <2>1, <2>2, <3>1
             DEF Serve, Handshake, NotAHandshake, SubmitForbidden,
                 SubmitBlocking, Store!RunBlocking, GetBlocks, storeVars
  <2>3. ASSUME NEW c \in Clients, ClientStep(c) PROVE FALSE
    BY <2>1, <2>3, ClientStepKinds DEF storeVars
  <2>4. ASSUME NEW u \in Ticket, WorkerFinishes(u) PROVE FALSE
    <3>1. phase' = [phase EXCEPT ![u] = "finished"]
      BY <2>4 DEF WorkerFinishes, Store!Finish
    <3> QED  BY <3>1 DEF TypeInv, StoreTypes
  <2>5. ASSUME ServerDies \/ ServerRestarts \/ UNCHANGED vars PROVE FALSE
    BY <2>1, <2>5 DEF ServerDies, ServerRestarts, vars, storeVars
  <2> QED  BY <2>2, <2>3, <2>4, <2>5 DEF Next, Quiet
<1> QED  BY <1>1, <1>2, <1>3, <1>4

(* The outcome of a job leaves the table only in a response to the client   *)
(* it was issued to, carrying what that client's request computes, however  *)
(* many clients and jobs there are and whoever gave up waiting, unless the  *)
(* server dies or the client has ended.                                     *)
THEOREM OutcomesGoToOwners == Spec => OutcomeGoesToOwner
<1>1. SessionInv /\ [Next]_vars =>
        [\A t \in Ticket :
           phase[t] # "consumed" /\ phase'[t] = "consumed" /\ sv' # Dead =>
              cpc[owner[t]] = "exited" \/ Delivered(owner[t], t)]_vars
  BY OutcomeStep
<1> QED  BY <1>1, SessionInvariant, PTL DEF Spec, OutcomeGoesToOwner

-----------------------------------------------------------------------------
(* The vocabulary of Sessions. *)

(* The instance computes what the module computes. *)
LEMMA SessExecute == \A r : Sess!execute(r) = execute(r)
BY DEF Sess!execute, execute, Sess!has_math, has_math, Sess!has_str,
       has_str, Sess!runMath, runMath, Sess!runStr, runStr, Sess!Fail,
       Fail, Sess!Succeed, Succeed, Sess!VALUE_NOT_SET, VALUE_NOT_SET,
       Sess!Wrap, Wrap, Sess!IntMin, IntMin, Sess!TruncDiv, TruncDiv,
       Sess!Abs, Abs, Sess!Occurrences, Occurrences, Sess!OccursAt,
       OccursAt, Sess!find, find

(* ... and speaks of the same tickets, responses and capabilities. *)
LEMMA SessVocabulary ==
    /\ Sess!Ticket = Ticket
    /\ Sess!NoPayload = NoPayload
    /\ Sess!NotFinished = NotFinished
    /\ Sess!InvalidInput = InvalidInput
    /\ \A t, o : Sess!SubmitResp(t, o) = SubmitResp(t, o)
    /\ \A t, o : Sess!GetResp(t, o) = GetResp(t, o)
BY DEF Sess!Ticket, Ticket, Sess!NoPayload, NoPayload,
       Sess!NotFinished, NotFinished, Sess!InvalidInput, InvalidInput,
       Sess!SubmitResp, SubmitResp, Sess!GetResp, GetResp,
       Sess!Response, Response, Sess!Fail, Fail, Sess!VALUE_NOT_SET,
       VALUE_NOT_SET

(* A client is capable of the same requests. *)
LEMMA SessCapable ==
    \A r, caps :
        Sess!clientHasCapabilityFor(r, caps) <=> clientHasCapabilityFor(r, caps)
BY DEF Sess!clientHasCapabilityFor, clientHasCapabilityFor, Sess!HasWork,
       HasWork, Sess!has_math, has_math, Sess!has_str, has_str, Sess!OpOf,
       OpOf, Sess!ExecFunFlags, ExecFunFlags

-----------------------------------------------------------------------------
(* How steps of the system look to Sessions. *)

(* Sessions sees nothing happen to client d, or to the table. *)
SeenSame(d) == CallOf(d)' = CallOf(d) /\ ListOf(d)' = ListOf(d)

SameTable == UNCHANGED <<phase, reqOf, owner>>

(* A step of the abstract system, or none. *)
SessStep == [Sess!Next]_(Sess!vars)

(* Only client c changes. *)
LEMMA OneChanges ==
    ASSUME NEW c \in Clients, NEW x, NEW y, CallOf(c)' = x, ListOf(c)' = y,
           \A d \in Clients \ {c} : SeenSame(d)
    PROVE  /\ Calls' = [Calls EXCEPT ![c] = x]
           /\ Lists' = [Lists EXCEPT ![c] = y]
BY DEF Calls, Lists, SeenSame

(* Nothing changes. *)
LEMMA NoneChanges ==
    ASSUME \A d \in Clients : SeenSame(d)
    PROVE  Calls' = Calls /\ Lists' = Lists
BY DEF Calls, Lists, SeenSame

(* Then Sessions takes no step. *)
LEMMA AsStutter ==
    ASSUME SameTable, UNCHANGED restarts, \A d \in Clients : SeenSame(d)
    PROVE  SessStep
BY NoneChanges DEF SessStep, SameTable, Sess!vars, Sess!table

(* A client that goes out leaves. *)
LEMMA AsLeave ==
    ASSUME NEW c \in Clients, SameTable, UNCHANGED restarts,
           CallOf(c)' = [at |-> "out"], ListOf(c)' = {},
           \A d \in Clients \ {c} : SeenSame(d)
    PROVE  SessStep
<1>1. /\ Calls' = [Calls EXCEPT ![c] = [at |-> "out"]]
      /\ Lists' = [Lists EXCEPT ![c] = {}]
  BY OneChanges
<1>2. Sess!Leave(c)
  BY <1>1 DEF SameTable, Sess!Leave, Sess!Out, Sess!table
<1> QED  BY <1>2 DEF SessStep, Sess!Next

(* A client that sends a request asks. *)
LEMMA AsAsk ==
    ASSUME NEW c \in Clients, SameTable, UNCHANGED restarts,
           NEW env \in Envelope, env.kind # "none",
           env.kind = "get" => env.ticket \in ListOf(c),
           CallOf(c) = [at |-> "idle"],
           CallOf(c)' = [at |-> "asked", q |-> QuestionOf(env)],
           ListOf(c)' = ListOf(c),
           \A d \in Clients \ {c} : SeenSame(d)
    PROVE  SessStep
<1>1. /\ Calls' = [Calls EXCEPT ![c] = [at |-> "asked", q |-> QuestionOf(env)]]
      /\ Lists' = [Lists EXCEPT ![c] = ListOf(c)]
  BY OneChanges
<1>2. Calls[c] = [at |-> "idle"] /\ Lists[c] = ListOf(c) /\ Lists' = Lists
  BY <1>1 DEF Calls, Lists
<1>3. Sess!Ask(c, QuestionOf(env))
  BY <1>1, <1>2 DEF SameTable, Sess!Ask, Sess!Idle, Sess!Asked, Sess!table
<1>4. CASE env.kind = "submit"
  <2>1. env.mode \in {"BLOCKING", "NONBLOCKING"} /\ env.req \in Requests
    BY <1>4, EnvelopeFields DEF SubmitModes
  <2>2. QuestionOf(env) = Sess!Submission(env.mode, env.req)
    BY <1>4 DEF QuestionOf, Sess!Submission
  <2> QED  BY <1>3, <2>1, <2>2 DEF SessStep, Sess!Next
<1>5. CASE env.kind = "get"
  <2>1. QuestionOf(env) = Sess!Query(env.ticket)
    BY <1>5 DEF QuestionOf, Sess!Query
  <2> QED  BY <1>2, <1>3, <1>5, <2>1 DEF SessStep, Sess!Next
<1> QED  BY <1>4, <1>5, EnvelopeFields

(* A client that reads its answer returns from the call. *)
LEMMA AsReturn ==
    ASSUME NEW c \in Clients, SameTable, UNCHANGED restarts,
           NEW q, NEW body,
           CallOf(c) = [at |-> "answered", q |-> q, body |-> body],
           CallOf(c)' = [at |-> "idle"],
           ListOf(c)' = Sess!After(ListOf(c), q, body),
           \A d \in Clients \ {c} : SeenSame(d)
    PROVE  SessStep
<1>1. /\ Calls' = [Calls EXCEPT ![c] = [at |-> "idle"]]
      /\ Lists' = [Lists EXCEPT ![c] = Sess!After(ListOf(c), q, body)]
  BY OneChanges
<1>2. Calls[c] = [at |-> "answered", q |-> q, body |-> body]
        /\ Lists[c] = ListOf(c)
  BY DEF Calls, Lists
<1>3. Lists' = [Lists EXCEPT ![c] = Sess!After(@, Calls[c].q, Calls[c].body)]
  BY <1>1, <1>2
<1>4. Sess!Return(c)
  BY <1>1, <1>2, <1>3 DEF SameTable, Sess!Return, Sess!Idle, Sess!table
<1> QED  BY <1>4 DEF SessStep, Sess!Next

(* What a call of an absent client does to the table. *)
LEMMA AsStray ==
    ASSUME NEW c \in Clients, UNCHANGED restarts, ~InTouch(c),
           NEW t \in Ticket,
           (\E r \in Requests : Sess!Issue(c, t, r)) \/ Sess!Consume(c, t),
           \A d \in Clients : SeenSame(d)
    PROVE  SessStep
<1>1. Calls' = Calls /\ Lists' = Lists
  BY NoneChanges
<1>2. Calls[c] = Sess!Out
  BY DEF Calls, CallOf, Sess!Out
<1>3. Sess!Stray(c)
  BY <1>1, <1>2, SessVocabulary DEF Sess!Stray
<1> QED  BY <1>3 DEF SessStep, Sess!Next

(* The answer to the call of a waiting client. *)
LEMMA AsReply ==
    ASSUME TypeInv, NEW c \in Clients, InTouch(c), cpc[c] = "await",
           toClient[c] = <<>>, NEW body \in ResponseType,
           SendToClient(c, cur[c], body), sv' = Listening,
           UNCHANGED <<clientVars, restarts>>,
           CallOf(c) = [at |-> "asked", q |-> QuestionOf(cur[c])],
           \A d \in Clients \ {c} : SeenSame(d)
    PROVE  Sess!Reply(c, body)
<1>1. cur[c] \in Envelope
  BY DEF TypeInv, ClientTypes
<1>2. toClient'[c] # <<>> /\ toClient'[c][1].body = body
  <2>1. cpc[c] # "exited"
    BY DEF InTouch
  <2>2. Len(toClient[c]) + 1 = 1
    OBVIOUS
  <2>3. /\ Len(toClient'[c]) = Len(toClient[c]) + 1
        /\ toClient'[c][Len(toClient[c]) + 1].body = body
    BY <1>1, <2>1, LastReply
  <2>4. Len(toClient'[c]) = 1 /\ toClient'[c][1].body = body
    BY <2>2, <2>3, Zenon
  <2> QED  BY <2>4
<1>3. /\ late'[c] = late[c] /\ cpc'[c] = cpc[c] /\ cur'[c] = cur[c]
      /\ pending'[c] = pending[c] /\ sv'.pc = "recv"
  BY DEF clientVars, Listening
<1>4. CallOf(c)' = [at |-> "answered", q |-> QuestionOf(cur[c]), body |-> body]
  BY <1>2, <1>3 DEF CallOf, InTouch, BusyWith
<1>5. ListOf(c)' = ListOf(c)
  BY <1>3 DEF ListOf, InTouch
<1>6. /\ Calls' = [Calls EXCEPT ![c] =
                     [at |-> "answered", q |-> QuestionOf(cur[c]), body |-> body]]
      /\ Lists' = [Lists EXCEPT ![c] = ListOf(c)]
  BY <1>4, <1>5, OneChanges
<1>7. Calls[c] = [at |-> "asked", q |-> QuestionOf(cur[c])] /\ Lists' = Lists
  BY <1>6 DEF Calls, Lists
<1> QED  BY <1>6, <1>7 DEF Sess!Reply, Sess!Answered

(* An execution that Sessions knows is a step of it. *)
LEMMA AsExecute ==
    ASSUME NEW c \in Clients,
           \/ Sess!Refuse(c) \/ Sess!Misread(c) \/ Sess!Run(c)
           \/ \E t \in Ticket : \/ Sess!Open(c, t) \/ Sess!TakeOutcome(c, t)
                                \/ Sess!NotYet(c, t) \/ Sess!Gone(c, t)
    PROVE  SessStep
BY SessVocabulary DEF SessStep, Sess!Next, Sess!Execute

(* What is asked, in the terms of the envelope. *)
LEMMA AskedSubmit ==
    ASSUME NEW c \in Clients, NEW env, env.kind = "submit",
           CallOf(c) = [at |-> "asked", q |-> QuestionOf(env)]
    PROVE  /\ Sess!Asking(c, "submit")
           /\ Calls[c].q.mode = env.mode /\ Calls[c].q.req = env.req
           /\ Sess!Capable(c) <=> clientHasCapabilityFor(env.req, Announced[c])
<1>1. Calls[c] = [at |-> "asked", q |-> [kind |-> "submit", mode |-> env.mode,
                                         req |-> env.req]]
  BY DEF Calls, QuestionOf
<1>2. /\ Sess!Asking(c, "submit")
      /\ Calls[c].q.mode = env.mode /\ Calls[c].q.req = env.req
  BY <1>1 DEF Sess!Asking
<1> QED  BY <1>2, SessCapable DEF Sess!Capable

(* ... and for a get. *)
LEMMA AskedGet ==
    ASSUME NEW c \in Clients, NEW env, env.kind = "get",
           CallOf(c) = [at |-> "asked", q |-> QuestionOf(env)]
    PROVE  Calls[c] = Sess!Asked(Sess!Query(env.ticket))
BY DEF Calls, QuestionOf, Sess!Asked, Sess!Query

(* A non-blocking submit issues the ticket. *)
LEMMA AsIssue ==
    ASSUME NEW c \in Clients, NEW t \in Ticket, NEW r, Store!Submit(t, r),
           owner' = [owner EXCEPT ![t] = c]
    PROVE  Sess!Issue(c, t, r)
BY DEF Store!Submit, Sess!Issue

(* A finished get of the owner consumes the ticket. *)
LEMMA AsConsume ==
    ASSUME NEW c \in Clients, NEW t \in Ticket, Store!GetFinished(t),
           owner[t] = c, UNCHANGED owner
    PROVE  Sess!Consume(c, t)
BY DEF Store!GetFinished, Sess!Consume

(* The answer to a get, given at once or after the wait. *)
LEMMA AsGet ==
    ASSUME SessionInv, NEW c \in Clients, cpc[c] = "await", InTouch(c),
           cur[c].kind = "get", NEW t \in Ticket, cur[c].ticket = t,
           owner[t] = c, UNCHANGED <<owner, restarts>>, toClient[c] = <<>>,
           \/ Store!GetFinished(t) \/ Store!GetPending(t)
           \/ Store!GetUnknown(t),
           ~(sv.pc = "ack" /\ sv.client = c),
           CallOf(c) = [at |-> "asked", q |-> QuestionOf(cur[c])],
           resp' \in ResponseType => Sess!Reply(c, resp')
    PROVE  SessStep
<1> USE DEF SessionInv, ListContext
<1>1. resp' \in ResponseType
  BY GetCall DEF TypeInv, StoreTypes
<1>2. Sess!Reply(c, resp')
  BY <1>1
<1>3. Calls[c] = Sess!Asked(Sess!Query(t))
  BY AskedGet
<1>4. CASE Store!GetFinished(t)
  <2>1. Sess!Consume(c, t)
    BY <1>4, AsConsume
  <2>2. resp' = Sess!GetResp(t, Sess!execute(reqOf[t]))
    BY <1>4, StoreExecute, StoreVocabulary, SessExecute, SessVocabulary
    DEF Store!GetFinished
  <2>3. Sess!TakeOutcome(c, t)
    BY <1>2, <1>3, <2>1, <2>2 DEF Sess!TakeOutcome
  <2> QED  BY <2>3, AsExecute
<1>5. CASE Store!GetPending(t)
  <2>1. /\ resp' = Sess!GetResp(t, Sess!NotFinished)
        /\ phase[t] = "pending" /\ UNCHANGED <<phase, reqOf>>
    BY <1>5, StoreVocabulary, SessVocabulary DEF Store!GetPending
  <2>2. Sess!NotYet(c, t)
    BY <1>2, <1>3, <2>1 DEF Sess!NotYet, Sess!table
  <2> QED  BY <2>2, AsExecute
<1>6. CASE Store!GetUnknown(t)
  <2>1. /\ resp' = Sess!GetResp(t, Sess!InvalidInput)
        /\ phase[t] \in {"unused", "consumed"} /\ UNCHANGED <<phase, reqOf>>
    BY <1>6, StoreVocabulary, SessVocabulary DEF Store!GetUnknown
  <2>2. phase[t] = "consumed"
    BY <2>1, IpcSystemAssumption DEF ContentInv, OwnerInv
  <2>3. restarts > 0
    <3>1. t \in pending[c]
      BY DEF AwaitInv
    <3>2. restarts = 0 => t \in Held(c)
      BY <3>1 DEF ListInv, Listed
    <3>3. t \notin Held(c)
      BY <2>1 DEF Held
    <3>4. restarts \in Nat
      BY IpcSystemAssumption DEF TypeInv, ServerTypes
    <3> QED  BY <3>2, <3>3, <3>4
  <2>4. Sess!Gone(c, t)
    BY <1>2, <1>3, <2>1, <2>2, <2>3 DEF Sess!Gone, Sess!table
  <2> QED  BY <2>4, AsExecute
<1> QED  BY <1>4, <1>5, <1>6

-----------------------------------------------------------------------------
(* The steps.  Each is seen as one step of Sessions or as none. *)

(* Sessions sees of a client what the client and its queues hold, and the   *)
(* call the server is in.                                                   *)
LEMMA SeenFrame ==
    ASSUME NEW d \in Clients, SameClient(d), BusyWith(d)' <=> BusyWith(d),
           BusyWith(d) => sv' = sv
    PROVE  SeenSame(d)
<1>1. InTouch(d)' <=> InTouch(d)
  BY DEF InTouch, SameClient
<1>2. ListOf(d)' = ListOf(d)
  BY <1>1 DEF ListOf, SameClient
<1>3. CallOf(d)' = CallOf(d)
  <2>1. CASE BusyWith(d)
    BY <1>1, <2>1 DEF CallOf, SameClient
  <2>2. CASE ~BusyWith(d)
    BY <1>1, <2>2 DEF CallOf, SameClient
  <2> QED  BY <2>1, <2>2
<1> QED  BY <1>2, <1>3 DEF SeenSame

(* A client that is out stays out and is seen no more. *)
LEMMA SeenOut ==
    ASSUME NEW d \in Clients, ~InTouch(d), ~InTouch(d)'
    PROVE  SeenSame(d)
BY DEF SeenSame, CallOf, ListOf

(* A command that is sent. *)
LEMMA SendSeen ==
    ASSUME SessionInv, NEW c \in Clients, NEW env \in Envelope,
           env.kind # "none", SendStep(c, env), InTouch(c),
           UNCHANGED <<storeVars, serverVars>>,
           \A d \in Clients \ {c} : SeenSame(d)
    PROVE  SessStep
<1> USE DEF SessionInv, ListContext
<1>1. ~BusyWith(c) /\ toClient[c] = <<>>
  BY DEF SendStep, FlightInv, CallAlone, ResponseAlone
<1>2. /\ InTouch(c)' /\ cpc'[c] = "await" /\ cur'[c] = env
      /\ toClient'[c] = <<>> /\ ~BusyWith(c)'
  BY <1>1 DEF SendStep, InTouch, BusyWith, serverVars
<1>3. env \in Elements(toServer'[c])
  <2>1. /\ toServer[c] \in Seq(Message(c)) /\ env \in Message(c)
    BY DEF TypeInv, ToServerTypes, Message
  <2>2. /\ Append(toServer[c], env)[Len(toServer[c]) + 1] = env
        /\ Len(toServer[c]) \in Nat
        /\ Len(Append(toServer[c], env)) = Len(toServer[c]) + 1
    BY <2>1, AppendAt
  <2>3. env \in Elements(Append(toServer[c], env))
    BY <2>2 DEF Elements
  <2> QED  BY <2>3 DEF SendStep
<1>4. CallOf(c) = [at |-> "idle"]
  BY DEF CallOf, SendStep
<1>5. CallOf(c)' = [at |-> "asked", q |-> QuestionOf(env)]
  BY <1>2, <1>3 DEF CallOf
<1>6. /\ ListOf(c)' = ListOf(c)
      /\ env.kind = "get" => env.ticket \in ListOf(c)
  BY <1>2 DEF ListOf, SendStep
<1> QED  BY <1>4, <1>5, <1>6, AsAsk DEF SameTable, storeVars, serverVars

(* A response that is read by a client that goes on. *)
LEMMA ReadSeen ==
    ASSUME SessionInv, NEW c \in Clients, ReadStep(c), InTouch(c), InTouch(c)',
           UNCHANGED <<storeVars, serverVars>>,
           \A d \in Clients \ {c} : SeenSame(d)
    PROVE  SessStep
<1> DEFINE r == toClient[c][1]
<1> USE DEF SessionInv, ListContext
<1>1. ~BusyWith(c) /\ cpc[c] = "await" /\ toClient[c] # <<>>
  BY DEF ReadStep, FlightInv, CallAlone
<1>2. Head(toClient[c]) = r
  BY <1>1 DEF TypeInv, ToClientTypes
<1>3. CallOf(c) = [at |-> "answered", q |-> QuestionOf(cur[c]), body |-> r.body]
  BY <1>1 DEF CallOf
<1>4. cpc'[c] = "idle"
  BY DEF ReadStep, InTouch
<1>5. CallOf(c)' = [at |-> "idle"] /\ ListOf(c)' = pending'[c]
  BY <1>4 DEF CallOf, ListOf
<1>6. pending'[c] = Sess!After(ListOf(c), QuestionOf(cur[c]), r.body)
  <2>1. cur[c].kind \in {"submit", "get"}
    BY <1>1 DEF AwaitInv
  <2>2. pending'[c] = ListAfter(c, r)
    BY <1>2 DEF ReadStep
  <2> HIDE DEF r
  <2>3. ListOf(c) = pending[c]
    BY DEF ListOf
  <2>4. CASE cur[c].kind = "submit"
    BY <2>2, <2>3, <2>4
    DEF ListAfter, Expected, Ticketed, Sess!After, QuestionOf
  <2>5. CASE cur[c].kind = "get"
    BY <2>2, <2>3, <2>5
    DEF ListAfter, Expected, Ticketed, Sess!After, QuestionOf
  <2> QED  BY <2>1, <2>4, <2>5
<1> HIDE DEF r
<1> QED  BY <1>3, <1>5, <1>6, AsReturn DEF SameTable, storeVars, serverVars

(* A client's step. *)
LEMMA SessClientStep ==
    ASSUME SessionInv, NEW c \in Clients, ClientStep(c)
    PROVE  SessStep
<1>1. /\ UNCHANGED <<storeVars, serverVars>>
      /\ \A d \in Clients \ {c} : SameClient(d)
      /\ \/ StartStep(c) \/ ReadStep(c) \/ LeaveStep(c)
         \/ \E env \in Envelope : env.kind # "none" /\ SendStep(c, env)
  BY ClientStepKinds DEF SessionInv, ListContext
<1>2. SameTable /\ UNCHANGED <<restarts, sv>>
  BY <1>1 DEF SameTable, storeVars, serverVars
<1>3. \A d \in Clients \ {c} : SeenSame(d)
  <2> SUFFICES ASSUME NEW d \in Clients \ {c} PROVE SeenSame(d)
    OBVIOUS
  <2>1. BusyWith(d)' <=> BusyWith(d)
    BY <1>2 DEF BusyWith
  <2> QED  BY <1>1, <1>2, <2>1, SeenFrame
<1>4. CASE ~InTouch(c)
  <2>1. ~InTouch(c)'
    BY <1>1, <1>4 DEF InTouch, StartStep, ReadStep, LeaveStep, SendStep
  <2> QED  BY <1>2, <1>3, <1>4, <2>1, SeenOut, AsStutter
<1>5. CASE ~InTouch(c)'
  BY <1>2, <1>3, <1>5, AsLeave DEF CallOf, ListOf
<1>6. CASE InTouch(c) /\ InTouch(c)' /\ StartStep(c)
  <2>1. SeenSame(c)
    BY <1>6 DEF SeenSame, CallOf, ListOf, StartStep, InTouch
  <2> QED  BY <1>2, <1>3, <2>1, AsStutter
<1>7. CASE InTouch(c) /\ InTouch(c)' /\ ReadStep(c)
  BY <1>1, <1>3, <1>7, ReadSeen
<1>8. CASE InTouch(c) /\ \E env \in Envelope : env.kind # "none" /\ SendStep(c, env)
  BY <1>1, <1>3, <1>8, SendSeen
<1>9. LeaveStep(c) => ~InTouch(c)'
  BY DEF LeaveStep, InTouch
<1> QED  BY <1>1, <1>4, <1>5, <1>6, <1>7, <1>8, <1>9

(* Serving a client is not seen by the others. *)
LEMMA ServedOthers ==
    ASSUME TypeInv, NEW c \in Clients, Serve(c)
    PROVE  \A d \in Clients \ {c} : SeenSame(d)
<1> SUFFICES ASSUME NEW d \in Clients \ {c} PROVE SeenSame(d)
  OBVIOUS
<1>1. /\ sv = Listening /\ toServer'[d] = toServer[d]
      /\ UNCHANGED clientVars
  BY ServeKinds
<1>2. toClient'[d] = toClient[d] /\ (sv' = sv \/ sv'.client = c)
  BY ServeKinds, SendToClientTyped DEF TypeInv
<1>3. ~BusyWith(d) /\ ~BusyWith(d)'
  BY <1>1, <1>2 DEF BusyWith, Listening
<1>4. SameClient(d)
  BY <1>1, <1>2 DEF SameClient, clientVars
<1> QED  BY <1>3, <1>4, SeenFrame

(* The request of a client in touch that is served is the one it waits for. *)
LEMMA ServedHead ==
    ASSUME SessionInv, NEW c \in Clients, InTouch(c), sv = Listening,
           toServer[c] # <<>>, Head(toServer[c]).kind # "handshake"
    PROVE  /\ Head(toServer[c]) = cur[c] /\ Tail(toServer[c]) = <<>>
           /\ cpc[c] = "await" /\ toClient[c] = <<>>
           /\ cur[c] \in Envelope /\ cur[c].kind \in {"submit", "get"}
           /\ CallOf(c) = [at |-> "asked", q |-> QuestionOf(cur[c])]
<1> USE DEF SessionInv, ListContext
<1>1. toServer[c] \in Seq(Message(c))
  BY DEF TypeInv, ToServerTypes
<1>2. /\ Len(toServer[c]) \in Nat \ {0} /\ Head(toServer[c]) = toServer[c][1]
      /\ Len(toServer[c]) = 1 => Tail(toServer[c]) = <<>>
  BY <1>1, TailAt
<1>3. 1 \in 1..Len(toServer[c])
  BY <1>2
<1>4. RequestAlone(c)
  BY DEF FlightInv
<1>5. /\ 1 = Len(toServer[c]) /\ toServer[c][1] = cur[c]
      /\ cpc[c] = "await" /\ toClient[c] = <<>> /\ ~BusyWith(c)
  BY <1>2, <1>3, <1>4 DEF RequestAlone
<1>6. cur[c] \in Elements(toServer[c])
  BY <1>3, <1>5 DEF Elements
<1>7. CallOf(c) = [at |-> "asked", q |-> QuestionOf(cur[c])]
  BY <1>5, <1>6 DEF CallOf
<1>8. cur[c] \in Envelope /\ cur[c].kind \in {"submit", "get"}
  BY <1>5 DEF AwaitInv, TypeInv, ClientTypes
<1> QED  BY <1>2, <1>5, <1>7, <1>8

(* Serving a client that is out: its tickets may be issued and consumed.    *)
LEMMA SessServeOut ==
    ASSUME SessionInv, NEW c \in Clients, Serve(c), ~InTouch(c)
    PROVE  SessStep
<1> DEFINE env == Head(toServer[c])
<1> USE DEF SessionInv, ListContext
<1>1. UNCHANGED <<clientVars, restarts>> /\ toServer[c] # <<>>
  BY ServeKinds
<1>2. ~InTouch(c)'
  BY <1>1 DEF InTouch, clientVars
<1>3. \A d \in Clients : SeenSame(d)
  BY <1>2, ServedOthers, SeenOut
<1>4. CASE SameTable
  BY <1>1, <1>3, <1>4, AsStutter
<1>5. env \in Message(c) /\ env \in Elements(toServer[c])
  BY <1>1, ElementsTail, HeadTailProperties DEF TypeInv, ToServerTypes
<1>6. ASSUME NEW t \in Ticket, SubmitNonBlocking(c, t) PROVE SessStep
  <2>1. /\ env.kind = "submit" /\ Store!Submit(t, env.req)
        /\ owner' = [owner EXCEPT ![t] = c]
    BY <1>6 DEF SubmitNonBlocking, Incoming
  <2> HIDE DEF env
  <2>2. env.req \in Requests
    BY <1>5, <2>1, MessageFields, EnvelopeFields
  <2>3. Sess!Issue(c, t, env.req)
    BY <2>1, AsIssue
  <2> QED  BY <1>1, <1>3, <2>2, <2>3, AsStray
<1>7. CASE GetNow(c)
  <2>1. /\ env.kind = "get" /\ UNCHANGED owner
        /\ \/ Store!GetFinished(env.ticket) \/ Store!GetPending(env.ticket)
           \/ Store!GetUnknown(env.ticket)
    BY <1>7 DEF GetNow, Incoming, serverVars
  <2> HIDE DEF env
  <2>2. env.ticket \in Ticket /\ owner[env.ticket] = c
    BY <1>5, <2>1, MessageFields, EnvelopeFields DEF OwnGets
  <2>3. CASE Store!GetFinished(env.ticket)
    <3>1. Sess!Consume(c, env.ticket)
      BY <2>1, <2>2, <2>3, AsConsume
    <3> QED  BY <1>1, <1>3, <2>2, <3>1, AsStray
  <2>4. CASE Store!GetPending(env.ticket) \/ Store!GetUnknown(env.ticket)
    <3>1. SameTable
      BY <2>1, <2>4 DEF SameTable, Store!GetPending, Store!GetUnknown
    <3> QED  BY <1>4, <3>1
  <2> QED  BY <2>1, <2>3, <2>4
<1>8. CASE \/ Handshake(c) \/ SubmitForbidden(c) \/ SubmitBlocking(c)
           \/ GetBlocks(c) \/ \E parses \in BOOLEAN : NotAHandshake(c, parses)
  <2>1. SameTable
    BY <1>8
    DEF SameTable, Handshake, NotAHandshake, SubmitForbidden, SubmitBlocking,
        Store!RunBlocking, GetBlocks, storeVars, serverVars
  <2> QED  BY <1>4, <2>1
<1> QED  BY <1>6, <1>7, <1>8 DEF Serve

(* The handshake of a client in touch is not seen. *)
LEMMA SessHandshake ==
    ASSUME SessionInv, NEW c \in Clients, Handshake(c), InTouch(c)
    PROVE  SessStep
<1> USE DEF SessionInv, ListContext
<1>1. Serve(c)
  BY DEF Serve
<1>2. /\ sv = Listening /\ toServer[c] # <<>>
      /\ toServer'[c] = Tail(toServer[c]) /\ UNCHANGED <<clientVars, restarts>>
      /\ Head(toServer[c]).kind = "handshake"
      /\ UNCHANGED <<toClient, sv>>
  BY <1>1, ServeKinds DEF Handshake, Incoming
<1>3. SameTable
  BY DEF SameTable, Handshake, storeVars
<1>4. toServer[c] \in Seq(Message(c)) /\ cur[c] \in Envelope
  BY DEF TypeInv, ToServerTypes, ClientTypes
<1>5. cur[c].kind # "handshake"
  BY <1>4, EnvelopeFields
<1>6. cur[c] \in Elements(toServer'[c]) <=> cur[c] \in Elements(toServer[c])
  <2>1. Elements(Tail(toServer[c])) \subseteq Elements(toServer[c])
    BY <1>2, <1>4, ElementsTail
  <2>2. ASSUME cur[c] \in Elements(toServer[c])
        PROVE  cur[c] \in Elements(Tail(toServer[c]))
    <3>1. PICK i \in 1..Len(toServer[c]) : toServer[c][i] = cur[c]
      BY <2>2 DEF Elements
    <3>2. /\ Len(toServer[c]) \in Nat \ {0}
          /\ Len(Tail(toServer[c])) = Len(toServer[c]) - 1
          /\ \A j \in 1..Len(Tail(toServer[c])) :
                Tail(toServer[c])[j] = toServer[c][j + 1]
          /\ Head(toServer[c]) = toServer[c][1]
      BY <1>2, <1>4, TailAt
    <3>3. i # 1
      BY <1>2, <1>5, <3>1, <3>2
    <3>4. i - 1 \in 1..Len(Tail(toServer[c])) /\ (i - 1) + 1 = i
      BY <3>2, <3>3
    <3>5. Tail(toServer[c])[i - 1] = cur[c]
      BY <3>1, <3>2, <3>4
    <3> QED  BY <3>4, <3>5 DEF Elements
  <2> QED  BY <1>2, <2>1, <2>2
<1>7. SeenSame(c)
  <2>1. /\ cur'[c] = cur[c] /\ cpc'[c] = cpc[c] /\ pending'[c] = pending[c]
        /\ late'[c] = late[c] /\ toClient'[c] = toClient[c] /\ sv' = sv
    BY <1>2 DEF clientVars
  <2>2. (InTouch(c)' <=> InTouch(c)) /\ (BusyWith(c)' <=> BusyWith(c))
    BY <2>1 DEF InTouch, BusyWith
  <2>3. ListOf(c)' = ListOf(c)
    BY <2>1, <2>2 DEF ListOf
  <2>4. CallOf(c)' = CallOf(c)
    BY <1>6, <2>1, <2>2 DEF CallOf
  <2> QED  BY <2>3, <2>4 DEF SeenSame
<1> QED  BY <1>1, <1>2, <1>3, <1>7, ServedOthers, AsStutter

(* The server executes for a client only what the client announced. *)
LEMMA CapableAsAnnounced ==
    ASSUME SessionInv, NEW c \in Clients, Registered(c), NEW r,
           clientHasCapabilityFor(r, mClientExecCaps[c])
    PROVE  clientHasCapabilityFor(r, Announced[c])
<1>1. mClientExecCaps[c] \in {{}, Announced[c]}
  BY DEF SessionInv, ListContext, ContentInv, CapsInv, Registered
<1> QED  BY <1>1 DEF clientHasCapabilityFor

(* An answer given at once is the reply of Sessions. *)
LEMMA ServedReply ==
    ASSUME SessionInv, NEW c \in Clients, Serve(c), InTouch(c),
           Head(toServer[c]).kind # "handshake", NEW body \in ResponseType,
           SendToClient(c, Head(toServer[c]), body), UNCHANGED sv
    PROVE  Sess!Reply(c, body)
<1> USE DEF SessionInv, ListContext
<1>1. /\ sv = Listening /\ toServer[c] # <<>>
      /\ UNCHANGED <<clientVars, restarts>>
  BY ServeKinds
<1>2. /\ Head(toServer[c]) = cur[c] /\ cpc[c] = "await" /\ toClient[c] = <<>>
      /\ CallOf(c) = [at |-> "asked", q |-> QuestionOf(cur[c])]
  BY <1>1, ServedHead
<1>3. sv' = Listening /\ SendToClient(c, cur[c], body)
  BY <1>1, <1>2
<1> QED  BY <1>1, <1>2, <1>3, ServedOthers, AsReply

(* Serving the submit of a client in touch. *)
LEMMA SessSubmit ==
    ASSUME SessionInv, NEW c \in Clients, InTouch(c),
           \/ SubmitForbidden(c) \/ SubmitBlocking(c)
           \/ \E t \in Ticket : SubmitNonBlocking(c, t)
    PROVE  SessStep
<1> USE DEF SessionInv, ListContext
<1>1. Serve(c) /\ Registered(c) /\ Head(toServer[c]).kind = "submit"
  BY DEF Serve, SubmitForbidden, SubmitBlocking, SubmitNonBlocking, Incoming
<1>2. /\ sv = Listening /\ toServer[c] # <<>>
      /\ UNCHANGED <<clientVars, restarts>>
  BY <1>1, ServeKinds
<1>3. /\ Head(toServer[c]) = cur[c] /\ cpc[c] = "await" /\ toClient[c] = <<>>
      /\ cur[c] \in Envelope
      /\ CallOf(c) = [at |-> "asked", q |-> QuestionOf(cur[c])]
  BY <1>1, <1>2, ServedHead
<1>4. /\ Sess!Asking(c, "submit") /\ Calls[c].q.mode = cur[c].mode
      /\ Calls[c].q.req = cur[c].req
      /\ Sess!Capable(c) <=> clientHasCapabilityFor(cur[c].req, Announced[c])
  BY <1>1, <1>3, AskedSubmit
<1>5. cur[c].req \in Requests
  BY <1>1, <1>3, EnvelopeFields
<1>6. CASE SubmitForbidden(c)
  <2>1. /\ ~clientHasCapabilityFor(cur[c].req, mClientExecCaps[c])
        /\ SendToClient(c, Head(toServer[c]), SubmitResp(0, InvalidInput))
        /\ UNCHANGED <<storeVars, serverVars>>
    BY <1>3, <1>6 DEF SubmitForbidden
  <2>2. Sess!Capable(c) => restarts > 0
    BY <1>1, <1>4, <2>1 DEF CapsAsAnnounced
  <2>3. Sess!Reply(c, SubmitResp(0, InvalidInput))
    BY <1>1, <2>1, BadResponseTyped, ServedReply DEF serverVars
  <2>4. Sess!Refuse(c)
    BY <1>4, <2>1, <2>2, <2>3, SessVocabulary
    DEF Sess!Refuse, Sess!table, storeVars, serverVars
  <2> QED  BY <2>4, AsExecute
<1>7. CASE SubmitBlocking(c)
  <2>1. /\ clientHasCapabilityFor(cur[c].req, mClientExecCaps[c])
        /\ cur[c].mode = "BLOCKING" /\ Store!RunBlocking(cur[c].req)
        /\ SendToClient(c, Head(toServer[c]), resp')
        /\ UNCHANGED serverVars
    BY <1>3, <1>7 DEF SubmitBlocking
  <2>2. /\ StoreTypes' /\ resp' = SubmitResp(0, execute(cur[c].req))
        /\ UNCHANGED <<phase, reqOf>>
    BY <1>5, <2>1, RunBlockingCall DEF TypeInv
  <2>3. Sess!Reply(c, resp')
    BY <1>1, <2>1, <2>2, ServedReply DEF serverVars, StoreTypes
  <2>4. Sess!Capable(c)
    BY <1>1, <1>4, <2>1, CapableAsAnnounced
  <2>5. resp' = Sess!SubmitResp(0, Sess!execute(Calls[c].q.req))
    BY <1>4, <2>2, SessVocabulary, SessExecute
  <2>6. Sess!Run(c)
    BY <1>4, <2>1, <2>2, <2>3, <2>4, <2>5
    DEF Sess!Run, Sess!table, serverVars
  <2> QED  BY <2>6, AsExecute
<1>8. ASSUME NEW t \in Ticket, SubmitNonBlocking(c, t) PROVE SessStep
  <2>1. /\ clientHasCapabilityFor(cur[c].req, mClientExecCaps[c])
        /\ cur[c].mode = "NONBLOCKING" /\ Store!Submit(t, cur[c].req)
        /\ sv' = [pc |-> "ack", client |-> c, env |-> cur[c], ticket |-> t]
        /\ owner' = [owner EXCEPT ![t] = c]
    BY <1>3, <1>8 DEF SubmitNonBlocking
  <2>2. Sess!Capable(c)
    BY <1>1, <1>4, <2>1, CapableAsAnnounced
  <2>3. Sess!Issue(c, t, Calls[c].q.req)
    BY <1>4, <2>1, AsIssue
  <2>4. /\ InTouch(c)' /\ cpc'[c] = "await" /\ cur'[c] = cur[c]
        /\ BusyWith(c)' /\ sv'.pc = "ack" /\ sv'.ticket = t
        /\ ListOf(c)' = ListOf(c)
    BY <1>2, <1>3, <2>1 DEF clientVars, InTouch, BusyWith, ListOf
  <2>5. CallOf(c)' = [at |-> "answered", q |-> QuestionOf(cur[c]),
                      body |-> SubmitResp(t, NotFinished)]
    BY <2>4 DEF CallOf
  <2>6. /\ Calls' = [Calls EXCEPT ![c] =
                       [at |-> "answered", q |-> QuestionOf(cur[c]),
                        body |-> SubmitResp(t, NotFinished)]]
        /\ Lists' = [Lists EXCEPT ![c] = ListOf(c)]
    BY <1>1, <2>4, <2>5, OneChanges, ServedOthers
  <2>7. Calls[c].q = QuestionOf(cur[c]) /\ Lists' = Lists
    <3>1. Calls[c] = CallOf(c) /\ Lists = [Lists EXCEPT ![c] = ListOf(c)]
      BY DEF Calls, Lists
    <3> QED  BY <1>3, <2>6, <3>1
  <2>8. Sess!Reply(c, Sess!SubmitResp(t, Sess!NotFinished))
    BY <1>2, <2>6, <2>7, SessVocabulary DEF Sess!Reply, Sess!Answered
  <2>9. Sess!Open(c, t)
    BY <1>4, <2>1, <2>2, <2>3, <2>8 DEF Sess!Open
  <2> QED  BY <2>9, AsExecute
<1> QED  BY <1>6, <1>7, <1>8

(* Serving a client in touch. *)
LEMMA SessServeIn ==
    ASSUME SessionInv, NEW c \in Clients, Serve(c), InTouch(c)
    PROVE  SessStep
<1> USE DEF SessionInv, ListContext
<1>1. /\ sv = Listening /\ toServer[c] # <<>>
      /\ UNCHANGED <<clientVars, restarts>>
  BY ServeKinds
<1>2. ASSUME NEW parses \in BOOLEAN, NotAHandshake(c, parses) PROVE SessStep
  <2>1. /\ Head(toServer[c]).kind \in {"submit", "get"} /\ ~Registered(c)
        /\ SendToClient(c, Head(toServer[c]), GetResp(0, InvalidInput))
        /\ UNCHANGED <<storeVars, sv, owner>>
    BY <1>2 DEF NotAHandshake, sendBadResponse
  <2>2. CallOf(c) = [at |-> "asked", q |-> QuestionOf(cur[c])]
    BY <1>1, <2>1, ServedHead
  <2>3. Calls[c].at = "asked"
    BY <2>2 DEF Calls
  <2>4. restarts > 0
    <3>1. toServer[c] \in Seq(Message(c)) /\ restarts \in Nat
      BY IpcSystemAssumption DEF TypeInv, ToServerTypes, ServerTypes
    <3>2. toServer[c][1] = Head(toServer[c])
      BY <1>1, <3>1, TailAt
    <3>3. restarts # 0
      BY <1>1, <2>1, <3>2 DEF HandshakeFirst
    <3> QED  BY <3>1, <3>3
  <2>5. Sess!Reply(c, GetResp(0, InvalidInput))
    BY <2>1, BadResponseTyped, ServedReply
  <2>6. Sess!Misread(c)
    BY <2>1, <2>3, <2>4, <2>5, SessVocabulary
    DEF Sess!Misread, Sess!table, storeVars
  <2> QED  BY <2>6, AsExecute
<1>3. ASSUME Head(toServer[c]).kind = "get"
      PROVE  /\ Head(toServer[c]) = cur[c] /\ cpc[c] = "await"
             /\ toClient[c] = <<>> /\ cur[c].kind = "get"
             /\ CallOf(c) = [at |-> "asked", q |-> QuestionOf(cur[c])]
             /\ cur[c].ticket \in Ticket /\ owner[cur[c].ticket] = c
  <2>1. /\ Head(toServer[c]) = cur[c] /\ cpc[c] = "await"
        /\ toClient[c] = <<>> /\ cur[c] \in Envelope
        /\ CallOf(c) = [at |-> "asked", q |-> QuestionOf(cur[c])]
    BY <1>1, <1>3, ServedHead
  <2>2. cur[c].ticket \in pending[c]
    BY <1>3, <2>1 DEF AwaitInv
  <2>3. owner[cur[c].ticket] = c
    BY <2>2 DEF ContentInv, TicketsPrivate
  <2>4. cur[c].ticket \in Ticket
    BY <1>3, <2>1, EnvelopeFields
  <2> QED  BY <1>3, <2>1, <2>3, <2>4
<1>4. CASE GetNow(c)
  <2>1. /\ Head(toServer[c]).kind = "get" /\ UNCHANGED serverVars
        /\ \/ Store!GetFinished(Head(toServer[c]).ticket)
           \/ Store!GetPending(Head(toServer[c]).ticket)
           \/ Store!GetUnknown(Head(toServer[c]).ticket)
        /\ SendToClient(c, Head(toServer[c]), resp')
    BY <1>4 DEF GetNow, Incoming
  <2>2. resp' \in ResponseType => Sess!Reply(c, resp')
    BY <2>1, ServedReply DEF serverVars
  <2>3. PICK t \in Ticket : t = cur[c].ticket
    BY <1>3, <2>1
  <2>4. \/ Store!GetFinished(t) \/ Store!GetPending(t) \/ Store!GetUnknown(t)
    BY <1>3, <2>1, <2>3
  <2>5. ~(sv.pc = "ack" /\ sv.client = c)
    BY <1>1 DEF Listening
  <2> QED  BY <1>1, <1>3, <2>1, <2>2, <2>3, <2>4, <2>5, AsGet DEF serverVars
<1>5. CASE GetBlocks(c)
  <2>1. /\ Head(toServer[c]).kind = "get" /\ sv'.pc = "wait" /\ sv'.client = c
        /\ UNCHANGED <<storeVars, owner, toClient>>
    BY <1>5 DEF GetBlocks, Incoming
  <2>2. /\ InTouch(c)' /\ cpc'[c] = "await" /\ cur'[c] = cur[c]
        /\ BusyWith(c)' /\ sv'.pc # "ack" /\ toClient'[c] = <<>>
        /\ ListOf(c)' = ListOf(c)
    BY <1>1, <1>3, <2>1 DEF clientVars, InTouch, BusyWith, ListOf
  <2>3. CallOf(c)' = [at |-> "asked", q |-> QuestionOf(cur[c])]
    BY <2>2 DEF CallOf
  <2>4. SeenSame(c)
    BY <1>3, <2>1, <2>2, <2>3 DEF SeenSame
  <2> QED  BY <1>1, <2>1, <2>4, ServedOthers, AsStutter DEF SameTable, storeVars
<1> QED  BY <1>2, <1>4, <1>5, SessHandshake, SessSubmit DEF Serve

(* The end of the call the server is in. *)
LEMMA SessFinishCall ==
    ASSUME SessionInv, FinishCall
    PROVE  SessStep
<1> USE DEF SessionInv, ListContext
<1>1. /\ sv.pc \in {"ack", "wait"} /\ sv' = Listening
      /\ sv.client \in Clients /\ sv.env \in Envelope /\ sv.ticket \in Ticket
      /\ resp' \in ResponseType /\ SendToClient(sv.client, sv.env, resp')
      /\ UNCHANGED <<clientVars, toServer, restarts, owner>>
  <2>1. sv.ticket \in Ticket
    BY FinishCallKinds, SvFields DEF TypeInv, ServerTypes
  <2>2. UNCHANGED owner
    BY DEF FinishCall, AnswerTicket, GetWakes, GetExpires, Answer
  <2> QED  BY <2>1, <2>2, FinishCallKinds
<1>2. PICK c \in Clients : c = sv.client
  BY <1>1
<1>3. PICK t \in Ticket : t = sv.ticket
  BY <1>1
<1>4. \A d \in Clients \ {c} : SeenSame(d)
  <2> SUFFICES ASSUME NEW d \in Clients \ {c} PROVE SeenSame(d)
    OBVIOUS
  <2>1. toClient'[d] = toClient[d]
    BY <1>1, <1>2, SendToClientTyped DEF TypeInv
  <2>2. SameClient(d)
    BY <1>1, <2>1 DEF SameClient, clientVars
  <2>3. ~BusyWith(d) /\ ~BusyWith(d)'
    BY <1>1, <1>2 DEF BusyWith, Listening
  <2> QED  BY <2>2, <2>3, SeenFrame
<1>5. \/ sv.pc = "ack" /\ Store!Acknowledge(t)
      \/ sv.pc = "wait" /\ Store!GetFinished(t)
      \/ sv.pc = "wait" /\ Store!GetPending(t)
  BY <1>3 DEF FinishCall, AnswerTicket, GetWakes, GetExpires
<1>6. Store!Acknowledge(t) \/ Store!GetPending(t) => SameTable
  BY <1>1 DEF SameTable, Store!Acknowledge, Store!GetPending
<1>7. sv.pc = "wait" => sv.env.ticket = t /\ sv.env.kind = "get" /\ owner[t] = c
  BY <1>2, <1>3 DEF OwnGets, ContentInv, BusyInv
<1>8. CASE ~InTouch(c)
  <2>1. ~InTouch(c)'
    BY <1>1, <1>8 DEF InTouch, clientVars
  <2>2. \A d \in Clients : SeenSame(d)
    BY <1>4, <1>8, <2>1, SeenOut
  <2>3. CASE SameTable
    BY <1>1, <2>2, <2>3, AsStutter
  <2>4. CASE sv.pc = "wait" /\ Store!GetFinished(t)
    <3>1. Sess!Consume(c, t)
      BY <1>1, <1>7, <2>4, AsConsume
    <3> QED  BY <1>1, <1>8, <2>2, <3>1, AsStray
  <2> QED  BY <1>5, <1>6, <2>3, <2>4
<1>9. CASE InTouch(c)
  <2>1. BusyWith(c)
    BY <1>1, <1>2 DEF BusyWith
  <2>2. cpc[c] = "await" /\ toClient[c] = <<>> /\ sv.env = cur[c]
    BY <1>9, <2>1 DEF FlightInv, CallAlone
  <2>3. CASE sv.pc = "ack"
    <3>1. resp' = SubmitResp(t, NotFinished) /\ Store!Acknowledge(t)
      BY <1>5, <2>3, AcknowledgeCall DEF TypeInv
    <3>2. CallOf(c) = [at |-> "answered", q |-> QuestionOf(cur[c]),
                       body |-> SubmitResp(t, NotFinished)]
      BY <1>3, <1>9, <2>1, <2>2, <2>3 DEF CallOf
    <3>3. toClient'[c] # <<>> /\ toClient'[c][1].body = resp'
      <4>1. cpc[c] # "exited" /\ Len(toClient[c]) + 1 = 1
        BY <2>2
      <4>2. /\ Len(toClient'[c]) = Len(toClient[c]) + 1
            /\ toClient'[c][Len(toClient[c]) + 1].body = resp'
        BY <1>1, <1>2, <4>1, LastReply
      <4>3. Len(toClient'[c]) = 1 /\ toClient'[c][1].body = resp'
        BY <4>1, <4>2, Zenon
      <4> QED  BY <4>3
    <3>4. /\ InTouch(c)' /\ cpc'[c] = "await" /\ cur'[c] = cur[c]
          /\ ~BusyWith(c)' /\ ListOf(c)' = ListOf(c)
      BY <1>1, <1>9, <2>2
      DEF clientVars, InTouch, BusyWith, ListOf, Listening
    <3>5. CallOf(c)' = [at |-> "answered", q |-> QuestionOf(cur[c]),
                        body |-> resp']
      BY <3>3, <3>4 DEF CallOf
    <3>6. SeenSame(c)
      BY <3>1, <3>2, <3>4, <3>5 DEF SeenSame
    <3> QED  BY <1>1, <1>4, <1>6, <3>1, <3>6, AsStutter
  <2>4. CASE sv.pc = "wait"
    <3>1. CallOf(c) = [at |-> "asked", q |-> QuestionOf(cur[c])]
      BY <1>9, <2>1, <2>2, <2>4 DEF CallOf
    <3>2. Sess!Reply(c, resp')
      BY <1>1, <1>2, <1>4, <1>9, <2>2, <3>1, AsReply
    <3>3. cur[c].kind = "get" /\ cur[c].ticket = t
      BY <1>7, <2>2, <2>4
    <3> QED  BY <1>1, <1>5, <1>7, <1>9, <2>2, <2>4, <3>1, <3>2, <3>3, AsGet
  <2> QED  BY <1>1, <2>3, <2>4
<1> QED  BY <1>8, <1>9

(* What a crash does to the calls that are under way. *)
LEMMA DyingCall ==
    ASSUME SessionInv, ServerDies, NEW c \in Clients
    PROVE  /\ ListOf(c)' = ListOf(c)
           /\ \/ CallOf(c)' = CallOf(c)
              \/ /\ CallOf(c).at \in {"asked", "answered"}
                 /\ CallOf(c)' = [at |-> "lost"]
<1> USE DEF SessionInv, ListContext
<1>1. /\ cpc'[c] = cpc[c] /\ cur'[c] = cur[c] /\ late'[c] = late[c]
      /\ pending'[c] = pending[c] /\ sv' = Dead
  BY DEF ServerDies, clientVars
<1>2. (InTouch(c)' <=> InTouch(c)) /\ ~BusyWith(c)'
  BY <1>1 DEF InTouch, BusyWith, Dead
<1>3. ListOf(c)' = ListOf(c)
  BY <1>1, <1>2 DEF ListOf
<1>4. CASE ~(InTouch(c) /\ cpc[c] = "await")
  BY <1>1, <1>2, <1>3, <1>4 DEF CallOf
<1>5. CASE InTouch(c) /\ cpc[c] = "await"
  <2>1. RequestAlone(c) /\ CallAlone(c) /\ cur[c] \in Envelope
    BY <1>5 DEF FlightInv, TypeInv, ClientTypes
  <2>2. CallOf(c).at \in {"asked", "answered", "lost"}
    BY <1>5 DEF CallOf
  <2>3. CASE toClient'[c] # <<>>
    <3>1. toClient[c] # <<>> /\ toClient'[c][1] = toClient[c][1]
      <4>1. /\ toClient[c] \in Seq(Reply) /\ toClient'[c] \in Seq(Reply)
            /\ Len(toClient'[c]) <= Len(toClient[c])
            /\ \A i \in 1..Len(toClient'[c]) : toClient'[c][i] = toClient[c][i]
        BY DyingCuts DEF TypeInv, ToClientTypes
      <4>2. Len(toClient'[c]) \in Nat \ {0}
        BY <2>3, <4>1
      <4>3. 1 \in 1..Len(toClient'[c])
        BY <4>2
      <4>4. Len(toClient[c]) # 0
        BY <4>1, <4>2
      <4> QED  BY <4>1, <4>3, <4>4
    <3>2. ~BusyWith(c)
      BY <2>1, <3>1 DEF CallAlone
    <3>3. CallOf(c)' = CallOf(c)
      BY <1>1, <1>2, <1>5, <2>3, <3>1, <3>2 DEF CallOf
    <3> QED  BY <1>3, <3>3
  <2>4. CASE toClient'[c] = <<>> /\ cur[c] \in Elements(toServer'[c])
    <3>1. PICK i \in 1..Len(toServer'[c]) : toServer'[c][i] = cur[c]
      BY <2>4 DEF Elements
    <3>2. PICK k \in 0..Len(toServer[c]) :
             /\ Len(toServer'[c]) = Len(toServer[c]) - k
             /\ \A j \in 1..Len(toServer'[c]) :
                   toServer'[c][j] = toServer[c][j + k]
      BY DyingCuts DEF TypeInv
    <3>3. Len(toServer[c]) \in Nat
      BY DEF TypeInv, ToServerTypes
    <3>4. i + k \in 1..Len(toServer[c]) /\ toServer[c][i + k] = cur[c]
      BY <3>1, <3>2, <3>3
    <3>5. cur[c].kind # "handshake"
      BY <2>1, EnvelopeFields
    <3>6. toClient[c] = <<>> /\ ~BusyWith(c) /\ cur[c] \in Elements(toServer[c])
      BY <2>1, <3>4, <3>5 DEF RequestAlone, Elements
    <3>7. CallOf(c)' = CallOf(c)
      BY <1>1, <1>2, <1>5, <2>4, <3>6 DEF CallOf
    <3> QED  BY <1>3, <3>7
  <2>5. CASE toClient'[c] = <<>> /\ cur[c] \notin Elements(toServer'[c])
    <3>1. CallOf(c)' = [at |-> "lost"]
      BY <1>1, <1>2, <1>5, <2>5 DEF CallOf
    <3>2. CallOf(c).at = "lost" => CallOf(c) = [at |-> "lost"]
      BY <1>5 DEF CallOf
    <3> QED  BY <1>3, <2>2, <3>1, <3>2
  <2> QED  BY <2>3, <2>4, <2>5
<1> QED  BY <1>4, <1>5

(* The server dies. *)
LEMMA SessDies ==
    ASSUME SessionInv, ServerDies
    PROVE  SessStep
<1> DEFINE gone == {c \in Clients : CallOf(c)' # CallOf(c)}
<1>1. Lists' = Lists
  BY DyingCall DEF Lists
<1>2. \A c \in gone : Calls[c].at \in {"asked", "answered"}
  BY DyingCall DEF Calls
<1>3. Calls' = [c \in Clients |-> IF c \in gone THEN [at |-> "lost"] ELSE Calls[c]]
  BY DyingCall DEF Calls
<1>4. /\ gone \in SUBSET {c \in Clients : Calls[c].at \in {"asked", "answered"}}
      /\ Calls' = [c \in Clients |-> IF c \in gone THEN Sess!Lost ELSE Calls[c]]
  BY <1>2, <1>3 DEF Sess!Lost
<1>5. /\ restarts' = restarts + 1 /\ UNCHANGED <<reqOf, owner>>
      /\ phase' = [t \in Ticket |->
                      IF phase[t] = "unused" THEN "unused" ELSE "consumed"]
  BY DEF ServerDies
<1> HIDE DEF gone
<1>6. Sess!Crash
  BY <1>1, <1>4, <1>5, SessVocabulary DEF Sess!Crash
<1> QED  BY <1>6 DEF SessStep, Sess!Next

(* Workers, the restart and stuttering. *)
LEMMA SessOther ==
    ASSUME SessionInv,
           \/ \E t \in Ticket : WorkerFinishes(t)
           \/ ServerRestarts \/ UNCHANGED vars
    PROVE  SessStep
<1>1. /\ UNCHANGED <<clientVars, toServer, toClient, restarts>>
      /\ sv' = sv \/ (sv = Dead /\ sv' = Listening)
  BY OtherKinds DEF SessionInv, ListContext
<1>2. \A d \in Clients : SeenSame(d)
  <2> SUFFICES ASSUME NEW d \in Clients PROVE SeenSame(d)
    OBVIOUS
  <2>1. SameClient(d)
    BY <1>1 DEF SameClient, clientVars
  <2>2. (BusyWith(d)' <=> BusyWith(d)) /\ (BusyWith(d) => sv' = sv)
    BY <1>1 DEF BusyWith, Dead, Listening
  <2> QED  BY <2>1, <2>2, SeenFrame
<1>3. ASSUME NEW t \in Ticket, WorkerFinishes(t) PROVE SessStep
  <2>1. /\ phase[t] = "pending" /\ phase' = [phase EXCEPT ![t] = "finished"]
        /\ UNCHANGED <<reqOf, owner>>
    BY <1>3 DEF WorkerFinishes, Store!Finish, serverVars
  <2>2. Sess!Finish(t)
    BY <1>1, <1>2, <2>1, NoneChanges DEF Sess!Finish
  <2> QED  BY <2>2, SessVocabulary DEF SessStep, Sess!Next
<1>4. CASE ServerRestarts \/ UNCHANGED vars
  <2>1. SameTable
    BY <1>4 DEF SameTable, ServerRestarts, vars, storeVars, serverVars
  <2> QED  BY <1>1, <1>2, <2>1, AsStutter
<1> QED  BY <1>3, <1>4

(* At the beginning nobody has called. *)
LEMMA SessInit == Init => Sess!Init
<1> SUFFICES ASSUME Init PROVE Sess!Init
  OBVIOUS
<1>1. \A c \in Clients : CallOf(c) = [at |-> "idle"] /\ ListOf(c) = {}
  BY DEF Init, CallOf, ListOf, InTouch
<1>2. /\ Calls = [c \in Clients |-> [at |-> "idle"]]
      /\ Lists = [c \in Clients |-> {}]
  BY <1>1 DEF Calls, Lists
<1>3. /\ phase = [t \in Ticket |-> "unused"]
      /\ reqOf = [t \in Ticket |-> NoPayload]
      /\ owner = [t \in Ticket |-> Unknown] /\ restarts = 0
  BY StoreVocabulary DEF Init, Store!Init
<1> QED  BY <1>2, <1>3, SessVocabulary DEF Sess!Init, Sess!Idle

(* Every step of the system is a step of Sessions, or none. *)
LEMMA SystemStep == SessionInv /\ [Next]_vars => SessStep
BY SessClientStep, SessServeOut, SessServeIn, SessFinishCall, SessDies, SessOther
DEF Next, Quiet

(* To a client that keeps in touch the server is one atomic table of        *)
(* tickets: whatever the queues, the blocking loop, the workers, crashes    *)
(* and the other clients do, a call is executed at most once, in one step,  *)
(* on that client's own tickets, and answered with the outcome of that step.*)
THEOREM SystemImplementsSessions == Spec => ImplementsSessions
<1>1. SessionInv /\ [Next]_vars => [Sess!Next]_(Sess!vars)
  BY SystemStep DEF SessStep
<1> QED  BY <1>1, SessInit, SessionInvariant, PTL
         DEF Spec, ImplementsSessions, Sess!Spec

-----------------------------------------------------------------------------
(* Answers.  That they are right is proved of Sessions' steps, where an     *)
(* answer is given in one, and holds of the system through the refinement.  *)

AnsweredRight ==
    \A c \in Clients : \A q, body :
        Calls[c] = Sess!Answered(q, body) => RightAnswer(c, q, body)

(* What a step never takes back. *)
Grows ==
    /\ \A t \in Ticket : phase[t] # "unused" =>
          reqOf'[t] = reqOf[t] /\ owner'[t] = owner[t]
    /\ \A t \in Ticket : phase[t] = "consumed" => phase'[t] = "consumed"
    /\ restarts > 0 => restarts' > 0

(* Issuing a ticket touches an unused one. *)
LEMMA IssueGrows ==
    ASSUME TypeInv, NEW c \in Clients, NEW t \in Ticket, NEW r,
           Sess!Issue(c, t, r), UNCHANGED restarts
    PROVE  Grows /\ owner'[t] = c /\ reqOf'[t] = r
<1>1. /\ phase[t] = "unused" /\ phase' = [phase EXCEPT ![t] = "pending"]
      /\ reqOf' = [reqOf EXCEPT ![t] = r] /\ owner' = [owner EXCEPT ![t] = c]
  BY DEF Sess!Issue
<1>2. ASSUME NEW u \in Ticket
      PROVE  /\ phase[u] # "unused" => reqOf'[u] = reqOf[u] /\ owner'[u] = owner[u]
             /\ phase[u] = "consumed" => phase'[u] = "consumed"
  BY <1>1 DEF TypeInv, StoreTypes, ServerTypes
<1>3. owner'[t] = c /\ reqOf'[t] = r
  BY <1>1 DEF TypeInv, StoreTypes, ServerTypes
<1> QED  BY <1>2, <1>3 DEF Grows

(* Consuming one leaves its request and owner. *)
LEMMA ConsumeGrows ==
    ASSUME TypeInv, NEW c \in Clients, NEW t \in Ticket, Sess!Consume(c, t),
           UNCHANGED restarts
    PROVE  Grows /\ phase'[t] = "consumed" /\ UNCHANGED reqOf
<1>1. phase' = [phase EXCEPT ![t] = "consumed"] /\ UNCHANGED <<reqOf, owner>>
  BY DEF Sess!Consume
<1>2. /\ phase'[t] = "consumed"
      /\ \A u \in Ticket : phase[u] = "consumed" => phase'[u] = "consumed"
  BY <1>1 DEF TypeInv, StoreTypes
<1> QED  BY <1>1, <1>2 DEF Grows

(* So does leaving the table alone. *)
LEMMA SameGrows ==
    ASSUME SameTable, UNCHANGED restarts
    PROVE  Grows
BY DEF Grows, SameTable

(* A right answer stays right. *)
LEMMA RightKept ==
    ASSUME ContentInv, NEW c \in Clients, NEW q, NEW body, Grows,
           q.kind = "get" => q.ticket \in Ticket, RightAnswer(c, q, body)
    PROVE  RightAnswer(c, q, body)'
<1>1. restarts > 0 => restarts' > 0
  BY DEF Grows
<1>2. ASSUME NEW t \in Ticket, owner[t] = c
      PROVE  owner'[t] = owner[t] /\ reqOf'[t] = reqOf[t]
  BY <1>2, IpcSystemAssumption DEF Grows, ContentInv, OwnerInv
<1>3. ASSUME q.kind = "get", phase[q.ticket] = "consumed"
      PROVE  phase'[q.ticket] = "consumed" /\ reqOf'[q.ticket] = reqOf[q.ticket]
  BY <1>3 DEF Grows
<1>4. CASE /\ body.status = "ERROR_INVALID_INPUT"
           /\ \/ restarts > 0
              \/ /\ q.kind = "submit"
                 /\ ~clientHasCapabilityFor(q.req, Announced[c])
  BY <1>1, <1>4 DEF RightAnswer
<1>5. CASE /\ q.kind = "submit" /\ q.mode = "BLOCKING"
           /\ body = SubmitResp(0, execute(q.req))
  BY <1>5 DEF RightAnswer
<1>6. CASE /\ q.kind = "submit" /\ q.mode = "NONBLOCKING"
           /\ \E t \in Ticket : /\ owner[t] = c /\ reqOf[t] = q.req
                                /\ body = SubmitResp(t, NotFinished)
  BY <1>2, <1>6 DEF RightAnswer
<1>7. CASE q.kind = "get" /\ body = GetResp(q.ticket, NotFinished)
  BY <1>7 DEF RightAnswer
<1>8. CASE /\ q.kind = "get" /\ phase[q.ticket] = "consumed"
           /\ body = GetResp(q.ticket, execute(reqOf[q.ticket]))
  BY <1>3, <1>8 DEF RightAnswer
<1> QED  BY <1>4, <1>5, <1>6, <1>7, <1>8 DEF RightAnswer

(* An execution gives a right answer. *)
LEMMA ExecuteRight ==
    ASSUME SessionInv, NEW c \in Clients, NEW q, Calls[c] = Sess!Asked(q),
           Sess!Execute(c)
    PROVE  /\ Grows
           /\ \E body : Sess!Reply(c, body) /\ RightAnswer(c, q, body)'
<1> USE DEF SessionInv, ListContext
<1>1. Calls[c].at = "asked" /\ Calls[c].q = q
  BY DEF Sess!Asked
<1>2. ASSUME NEW t, Sess!Asked(q) = Sess!Asked(Sess!Query(t))
      PROVE  q.kind = "get" /\ q.ticket = t
  <2>1. q = Sess!Query(t)
    BY <1>2 DEF Sess!Asked
  <2> QED  BY <2>1 DEF Sess!Query
<1>3. CASE Sess!Refuse(c)
  <2> DEFINE body == SubmitResp(0, InvalidInput)
  <2>1. /\ q.kind = "submit" /\ Sess!Reply(c, body) /\ SameTable
        /\ UNCHANGED restarts
        /\ clientHasCapabilityFor(q.req, Announced[c]) => restarts > 0
    BY <1>1, <1>3, SessVocabulary, SessCapable
    DEF Sess!Refuse, Sess!Asking, Sess!Capable, Sess!Reply, Sess!table, SameTable
  <2>2. body.status = "ERROR_INVALID_INPUT"
    BY FailTyped, ResponseFields
  <2> HIDE DEF body
  <2>3. RightAnswer(c, q, body)'
    BY <2>1, <2>2 DEF RightAnswer
  <2> QED  BY <2>1, <2>3, SameGrows
<1>4. CASE Sess!Misread(c)
  <2> DEFINE body == GetResp(0, InvalidInput)
  <2>1. /\ Sess!Reply(c, body) /\ SameTable /\ UNCHANGED restarts
        /\ restarts > 0
    BY <1>4, SessVocabulary DEF Sess!Misread, Sess!Reply, Sess!table, SameTable
  <2>2. body.status = "ERROR_INVALID_INPUT"
    BY FailTyped, ResponseFields
  <2> HIDE DEF body
  <2>3. RightAnswer(c, q, body)'
    BY <2>1, <2>2 DEF RightAnswer
  <2> QED  BY <2>1, <2>3, SameGrows
<1>5. CASE Sess!Run(c)
  <2>1. /\ q.kind = "submit" /\ q.mode = "BLOCKING"
        /\ Sess!Reply(c, SubmitResp(0, execute(q.req)))
        /\ SameTable /\ UNCHANGED restarts
    BY <1>1, <1>5, SessVocabulary, SessExecute
    DEF Sess!Run, Sess!Asking, Sess!Reply, Sess!table, SameTable
  <2>2. RightAnswer(c, q, SubmitResp(0, execute(q.req)))'
    BY <2>1 DEF RightAnswer
  <2> QED  BY <2>1, <2>2, SameGrows
<1>6. ASSUME NEW t \in Ticket, Sess!Open(c, t)
      PROVE  Grows /\ \E body : Sess!Reply(c, body) /\ RightAnswer(c, q, body)'
  <2>1. /\ q.kind = "submit" /\ q.mode = "NONBLOCKING"
        /\ Sess!Issue(c, t, q.req)
        /\ Sess!Reply(c, SubmitResp(t, NotFinished)) /\ UNCHANGED restarts
    BY <1>1, <1>6, SessVocabulary DEF Sess!Open, Sess!Asking, Sess!Reply
  <2>2. Grows /\ owner'[t] = c /\ reqOf'[t] = q.req
    BY <2>1, IssueGrows
  <2>3. RightAnswer(c, q, SubmitResp(t, NotFinished))'
    BY <2>1, <2>2 DEF RightAnswer
  <2> QED  BY <2>1, <2>2, <2>3
<1>7. ASSUME NEW t \in Ticket, Sess!TakeOutcome(c, t)
      PROVE  Grows /\ \E body : Sess!Reply(c, body) /\ RightAnswer(c, q, body)'
  <2> DEFINE body == GetResp(t, execute(reqOf[t]))
  <2>1. /\ q.kind = "get" /\ q.ticket = t
        /\ Sess!Consume(c, t) /\ Sess!Reply(c, body) /\ UNCHANGED restarts
    BY <1>2, <1>7, SessVocabulary, SessExecute DEF Sess!TakeOutcome, Sess!Reply
  <2>2. Grows /\ phase'[t] = "consumed" /\ reqOf' = reqOf
    BY <2>1, ConsumeGrows
  <2>3. PICK b : b = body
    OBVIOUS
  <2>4. b = GetResp(t, execute(reqOf'[t]))
    BY <2>2, <2>3
  <2>5. RightAnswer(c, q, b)'
    BY <2>1, <2>2, <2>4 DEF RightAnswer
  <2> QED  BY <2>1, <2>2, <2>3, <2>5
<1>8. ASSUME NEW t \in Ticket, Sess!NotYet(c, t)
      PROVE  Grows /\ \E body : Sess!Reply(c, body) /\ RightAnswer(c, q, body)'
  <2>1. /\ q.kind = "get" /\ q.ticket = t
        /\ Sess!Reply(c, GetResp(t, NotFinished))
        /\ SameTable /\ UNCHANGED restarts
    BY <1>2, <1>8, SessVocabulary
    DEF Sess!NotYet, Sess!Reply, Sess!table, SameTable
  <2>2. RightAnswer(c, q, GetResp(t, NotFinished))'
    BY <2>1 DEF RightAnswer
  <2> QED  BY <2>1, <2>2, SameGrows
<1>9. ASSUME NEW t \in Ticket, Sess!Gone(c, t)
      PROVE  Grows /\ \E body : Sess!Reply(c, body) /\ RightAnswer(c, q, body)'
  <2> DEFINE body == GetResp(t, InvalidInput)
  <2>1. /\ Sess!Reply(c, body) /\ SameTable /\ UNCHANGED restarts
        /\ restarts > 0
    BY <1>9, SessVocabulary DEF Sess!Gone, Sess!Reply, Sess!table, SameTable
  <2>2. body.status = "ERROR_INVALID_INPUT"
    BY FailTyped, ResponseFields
  <2> HIDE DEF body
  <2>3. RightAnswer(c, q, body)'
    BY <2>1, <2>2 DEF RightAnswer
  <2> QED  BY <2>1, <2>3, SameGrows
<1> QED  BY <1>3, <1>4, <1>5, <1>6, <1>7, <1>8, <1>9, SessVocabulary
         DEF Sess!Execute

(* What is asked and answered is what the client sent. *)
LEMMA CallForms ==
    ASSUME SessionInv, NEW c \in Clients
    PROVE  /\ Calls[c].at = "asked" => Calls[c] = Sess!Asked(QuestionOf(cur[c]))
           /\ \A q, body : Calls[c] = Sess!Answered(q, body) =>
                 (q.kind = "get" => q.ticket \in Ticket)
<1> USE DEF SessionInv, ListContext
<1>1. Calls[c] = CallOf(c)
  BY DEF Calls
<1>2. Calls[c].at = "asked" => Calls[c] = Sess!Asked(QuestionOf(cur[c]))
  BY <1>1 DEF CallOf, Sess!Asked
<1>3. ASSUME NEW q, NEW body, Calls[c] = Sess!Answered(q, body), q.kind = "get"
      PROVE  q.ticket \in Ticket
  <2>1. CallOf(c).at = "answered" /\ CallOf(c).q = q
    BY <1>1, <1>3 DEF Sess!Answered
  <2>2. cpc[c] = "await" /\ q = QuestionOf(cur[c])
    BY <2>1 DEF CallOf
  <2>3. cur[c].kind \in {"submit", "get"} /\ cur[c] \in Envelope
    BY <2>2 DEF AwaitInv, TypeInv, ClientTypes
  <2>4. cur[c].kind = "get" /\ q.ticket = cur[c].ticket
    BY <1>3, <2>2, <2>3 DEF QuestionOf
  <2> QED  BY <2>3, <2>4, EnvelopeFields
<1> QED  BY <1>2, <1>3

(* Only an asked call is executed. *)
LEMMA ExecuteAsked ==
    ASSUME SessionInv, NEW c \in Clients, Sess!Execute(c)
    PROVE  Calls[c] = Sess!Asked(QuestionOf(cur[c]))
<1>1. \A q : Sess!Asked(q).at = "asked"
  BY DEF Sess!Asked
<1>2. CASE Sess!Refuse(c) \/ Sess!Misread(c) \/ Sess!Run(c)
  <2>1. Calls[c].at = "asked"
    BY <1>2 DEF Sess!Refuse, Sess!Misread, Sess!Run, Sess!Asking
  <2> QED  BY <2>1, CallForms
<1>3. ASSUME NEW t, \/ Sess!Open(c, t) \/ Sess!TakeOutcome(c, t)
                   \/ Sess!NotYet(c, t) \/ Sess!Gone(c, t)
      PROVE  Calls[c] = Sess!Asked(QuestionOf(cur[c]))
  <2>1. \/ Sess!Asking(c, "submit")
        \/ Calls[c] = Sess!Asked(Sess!Query(t))
    BY <1>3 DEF Sess!Open, Sess!TakeOutcome, Sess!NotYet, Sess!Gone
  <2>2. Calls[c].at = "asked"
    BY <1>1, <2>1 DEF Sess!Asking
  <2> QED  BY <2>2, CallForms
<1> QED  BY <1>2, <1>3 DEF Sess!Execute

(* A step of Sessions takes nothing back, and answers only by executing. *)
LEMMA SessGrows ==
    ASSUME SessionInv, SessStep
    PROVE  /\ Grows
           /\ \A c \in Clients : \A q, body :
                 Calls'[c] = Sess!Answered(q, body) /\ Calls'[c] # Calls[c] =>
                    Sess!Execute(c)
<1> DEFINE NoneAnswered(c) ==
        /\ \A d \in Clients \ {c} : Calls'[d] = Calls[d]
        /\ \A q, body : Calls'[c] # Sess!Answered(q, body)
<1> USE DEF SessionInv, ListContext
<1>1. /\ \A x : Sess!Asked(x).at = "asked" /\ Sess!Idle.at = "idle"
      /\ \A q, body : Sess!Answered(q, body).at = "answered"
      /\ Sess!Out.at = "out" /\ Sess!Lost.at = "lost"
  BY DEF Sess!Asked, Sess!Answered, Sess!Idle, Sess!Out, Sess!Lost
<1>2. ASSUME NEW c \in Clients, NEW x, x.at # "answered",
             Calls' = [Calls EXCEPT ![c] = x]
      PROVE  NoneAnswered(c)
  BY <1>1, <1>2 DEF Calls
<1>3. ASSUME NEW c \in Clients, NEW q, Sess!Ask(c, q)
      PROVE  Grows /\ NoneAnswered(c)
  <2>1. /\ Calls' = [Calls EXCEPT ![c] = Sess!Asked(q)]
        /\ SameTable /\ UNCHANGED restarts
    BY <1>3 DEF Sess!Ask, Sess!table, SameTable
  <2> QED  BY <1>1, <1>2, <2>1, SameGrows
<1>4. ASSUME NEW c \in Clients, Sess!Return(c) PROVE Grows /\ NoneAnswered(c)
  <2>1. /\ Calls' = [Calls EXCEPT ![c] = Sess!Idle]
        /\ SameTable /\ UNCHANGED restarts
    BY <1>4 DEF Sess!Return, Sess!table, SameTable
  <2> QED  BY <1>1, <1>2, <2>1, SameGrows
<1>5. ASSUME NEW c \in Clients, Sess!Leave(c) PROVE Grows /\ NoneAnswered(c)
  <2>1. /\ Calls' = [Calls EXCEPT ![c] = Sess!Out]
        /\ SameTable /\ UNCHANGED restarts
    BY <1>5 DEF Sess!Leave, Sess!table, SameTable
  <2> QED  BY <1>1, <1>2, <2>1, SameGrows
<1>6. ASSUME NEW c \in Clients, Sess!Execute(c)
      PROVE  Grows /\ \A d \in Clients \ {c} : Calls'[d] = Calls[d]
  <2>1. Grows /\ \E body : Sess!Reply(c, body)
    BY <1>6, ExecuteAsked, ExecuteRight
  <2> QED  BY <2>1 DEF Sess!Reply, Calls
<1>7. ASSUME NEW c \in Clients, Sess!Stray(c) PROVE Grows /\ Calls' = Calls
  <2>1. UNCHANGED <<Calls, restarts>>
    BY <1>7 DEF Sess!Stray
  <2>2. PICK t \in Ticket : \/ \E r \in Requests : Sess!Issue(c, t, r)
                            \/ Sess!Consume(c, t)
    BY <1>7, SessVocabulary DEF Sess!Stray
  <2> QED  BY <2>1, <2>2, IssueGrows, ConsumeGrows
<1>8. ASSUME NEW t \in Ticket, Sess!Finish(t) PROVE Grows /\ Calls' = Calls
  <2>1. /\ phase[t] = "pending" /\ phase' = [phase EXCEPT ![t] = "finished"]
        /\ UNCHANGED <<reqOf, owner, Calls, restarts>>
    BY <1>8 DEF Sess!Finish
  <2>2. \A u \in Ticket : phase[u] = "consumed" => phase'[u] = "consumed"
    BY <2>1 DEF TypeInv, StoreTypes
  <2> QED  BY <2>1, <2>2 DEF Grows
<1>9. ASSUME Sess!Crash
      PROVE  Grows /\ \A c \in Clients :
                         Calls'[c] = Sess!Lost \/ Calls'[c] = Calls[c]
  <2>1. /\ restarts' = restarts + 1 /\ UNCHANGED <<reqOf, owner>>
        /\ phase' = [t \in Ticket |->
                        IF phase[t] = "unused" THEN "unused" ELSE "consumed"]
    BY <1>9, SessVocabulary DEF Sess!Crash
  <2>2. restarts \in Nat
    BY IpcSystemAssumption DEF TypeInv, ServerTypes
  <2>3. restarts' > 0
    BY <2>1, <2>2
  <2>4. \A t \in Ticket : phase[t] = "consumed" => phase'[t] = "consumed"
    BY <2>1
  <2>5. PICK gone : Calls' = [c \in Clients |->
                                 IF c \in gone THEN Sess!Lost ELSE Calls[c]]
    BY <1>9 DEF Sess!Crash
  <2>6. \A c \in Clients : Calls'[c] = Sess!Lost \/ Calls'[c] = Calls[c]
    BY <2>5
  <2> QED  BY <2>1, <2>3, <2>4, <2>6 DEF Grows
<1>10. ASSUME UNCHANGED Sess!vars PROVE Grows /\ Calls' = Calls
  BY <1>10, SameGrows DEF Sess!vars, Sess!table, SameTable
<1> HIDE DEF NoneAnswered
<1>11. Grows
  BY <1>3, <1>4, <1>5, <1>6, <1>7, <1>8, <1>9, <1>10, SessVocabulary
  DEF SessStep, Sess!Next
<1>12. \/ \E d \in Clients : NoneAnswered(d) \/ Sess!Execute(d)
       \/ Calls' = Calls \/ Sess!Crash
  BY <1>3, <1>4, <1>5, <1>7, <1>8, <1>10, SessVocabulary
  DEF SessStep, Sess!Next
<1>13. ASSUME NEW c \in Clients, NEW q, NEW body,
              Calls'[c] = Sess!Answered(q, body), Calls'[c] # Calls[c]
       PROVE  Sess!Execute(c)
  <2>1. ASSUME NEW d \in Clients, NoneAnswered(d) PROVE FALSE
    BY <1>13, <2>1 DEF NoneAnswered
  <2>2. ~Sess!Crash
    BY <1>1, <1>9, <1>13
  <2> QED  BY <1>6, <1>12, <1>13, <2>1, <2>2
<1> QED  BY <1>11, <1>13

(* Answers are right when given and stay so until they are read. *)
LEMMA AnsweredStep == SessionInv /\ AnsweredRight /\ [Next]_vars => AnsweredRight'
<1> SUFFICES ASSUME SessionInv, AnsweredRight, SessStep,
                    NEW c \in Clients, NEW q, NEW body,
                    Calls'[c] = Sess!Answered(q, body)
             PROVE  RightAnswer(c, q, body)'
  BY SystemStep DEF AnsweredRight
<1>1. CASE Calls'[c] = Calls[c]
  <2>1. RightAnswer(c, q, body) /\ (q.kind = "get" => q.ticket \in Ticket)
    BY <1>1, CallForms DEF AnsweredRight
  <2> QED  BY <2>1, SessGrows, RightKept DEF SessionInv, ListContext
<1>2. CASE Calls'[c] # Calls[c]
  <2>1. Sess!Execute(c)
    BY <1>2, SessGrows
  <2>2. PICK p : p = QuestionOf(cur[c])
    OBVIOUS
  <2>3. Calls[c] = Sess!Asked(p)
    BY <2>1, <2>2, ExecuteAsked
  <2>4. PICK b : Sess!Reply(c, b) /\ RightAnswer(c, p, b)'
    BY <2>1, <2>3, ExecuteRight
  <2>5. Calls'[c] = Sess!Answered(p, b)
    BY <2>3, <2>4 DEF Sess!Reply, Sess!Asked, Calls
  <2>6. q = p /\ body = b
    BY <2>5 DEF Sess!Answered
  <2> QED  BY <2>4, <2>6
<1> QED  BY <1>1, <1>2

(* What a client that was never late reads is right for what it asked, for  *)
(* any number of clients and commands, whoever holds up the server loop or  *)
(* gave up waiting; it is refused only without the capability or after a    *)
(* crash.                                                                   *)
THEOREM AnswersRight == Spec => []AnswersAreRight
<1>1. Init => AnsweredRight
  <2>1. Init => \A c \in Clients : Calls[c] = Sess!Idle
    BY SessInit DEF Sess!Init
  <2> QED  BY <2>1 DEF AnsweredRight, Sess!Idle, Sess!Answered
<1>2. SessionInv /\ AnsweredRight => AnswersAreRight
  <2> SUFFICES ASSUME SessionInv, AnsweredRight, NEW c \in Clients, InTouch(c),
                      toClient[c] # <<>>
               PROVE  RightAnswer(c, cur[c], toClient[c][1].body)
    BY DEF AnswersAreRight
  <2> USE DEF SessionInv, ListContext
  <2>1. cpc[c] = "await" /\ ~BusyWith(c)
    BY DEF FlightInv, CallAlone, ResponseAlone
  <2>2. Calls[c] = Sess!Answered(QuestionOf(cur[c]), toClient[c][1].body)
    BY <2>1 DEF Calls, CallOf, Sess!Answered
  <2>3. RightAnswer(c, QuestionOf(cur[c]), toClient[c][1].body)
    BY <2>2 DEF AnsweredRight
  <2>4. cur[c].kind \in {"submit", "get"}
    BY <2>1 DEF AwaitInv
  <2>5. CASE cur[c].kind = "submit"
    BY <2>3, <2>5 DEF RightAnswer, QuestionOf
  <2>6. CASE cur[c].kind = "get"
    BY <2>3, <2>6 DEF RightAnswer, QuestionOf
  <2> QED  BY <2>4, <2>5, <2>6
<1> QED  BY <1>1, <1>2, AnsweredStep, SessionInvariant, PTL DEF Spec
=============================================================================
