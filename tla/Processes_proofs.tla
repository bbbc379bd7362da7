--------------------------- MODULE Processes_proofs ---------------------------
(***************************************************************************)
(* What holds of the two processes for any number of signals and requests  *)
(* and any thread counts.  A step of the pair is a step of the server's    *)
(* variables and a step of the client's, so each side has an inductive     *)
(* invariant of its own.                                                   *)
(***************************************************************************)
EXTENDS Processes, TLAPS

(* What a step does to the server's variables, whoever takes it. *)
ServerNext == ServerMain \/ Served \/ ServerSignal \/ Arrive

(* And to the client's. *)
ClientNext ==
    \/ ClientMain \/ LocalCommand \/ ClientSignal \/ SendRequest \/ DeliverReply
    \/ \E connected \in BOOLEAN : Initialize(connected)

(* Every step of the system is such a pair of steps. *)
LEMMA NextSplits ==
    [Next]_vars => [ServerNext]_serverVars /\ [ClientNext]_clientVars
BY DEF Next, vars, ServerNext, ClientNext, ServerStep, ClientStep, Connect,
       Request, Respond, BothGone

-----------------------------------------------------------------------------
(* The server. *)

ServerTypes ==
    /\ spc \in InRun \union ServerGone \union
           {"start", "create", "init", "bind", "deinit", "close", "return"}
    /\ serverStop \in BOOLEAN /\ appPtr \in BOOLEAN /\ mInitialized \in BOOLEAN
    /\ serverSignals \in 0..MaxServerSignals
    /\ pool \in {"none", "running", "freed"}
    /\ mRouter \in {"unbound", "bound", "closed"}
    /\ inbox \in Nat /\ lateMessages \in Nat

(* What each place of main knows of the singleton, the pool and the socket: *)
(* nothing exists before init; the pool precedes the socket and outlives    *)
(* no bound socket; in deinit the socket may have failed to bind.           *)
ServerPhases ==
    /\ spc \in {"start", "create", "init", "killed", "aborted"} =>
           pool = "none" /\ mRouter = "unbound" /\ ~mInitialized
    /\ spc \in {"init", "bind", "deinit", "close"} \union InRun => appPtr
    /\ spc = "bind" => pool = "running" /\ mRouter = "unbound" /\ ~mInitialized
    /\ spc \in InRun => pool = "running" /\ mRouter = "bound" /\ mInitialized
    /\ spc = "deinit" =>
           /\ pool = "running"
           /\ mRouter = IF mInitialized THEN "bound" ELSE "unbound"
    /\ spc = "close" => pool = "freed" /\ mRouter = "bound" /\ mInitialized
    /\ spc \in {"return", "exited"} =>
           /\ ~mInitialized
           /\ \/ mRouter = "unbound"
              \/ mRouter = "closed" /\ pool = "freed"

(* A message taken although the flag was set is the last: main has passed   *)
(* the receive and can only come back to it through the test of the flag.   *)
LateIsLast ==
    /\ lateMessages \in {0, 1}
    /\ lateMessages = 1 =>
           serverStop /\ spc \notin {"start", "create", "init", "bind",
                                     "enter", "poll", "eintr"}

ServerInv == ServerTypes /\ ServerPhases /\ LateIsLast

(* The server starts in its invariant. *)
LEMMA ServerInvInit == ServerInit => ServerInv
<1> SUFFICES ASSUME ServerInit
             PROVE  ServerInv
    OBVIOUS
<1>1. /\ serverStop \in BOOLEAN /\ appPtr \in BOOLEAN
      /\ mInitialized \in BOOLEAN /\ ~mInitialized
    BY Zenon DEF ServerInit
<1>2. /\ spc = "start" /\ pool = "none" /\ mRouter = "unbound"
      /\ serverSignals = 0 /\ inbox = 0 /\ lateMessages = 0
    BY Zenon DEF ServerInit
<1> QED
    BY <1>1, <1>2, ServerLifecycleAssumption
    DEF ServerInv, ServerTypes, ServerPhases, LateIsLast, InRun, ServerGone

(* Every step of main, a signal and an arriving message keep it. *)
LEMMA ServerInvStep == ServerInv /\ [ServerNext]_serverVars => ServerInv'
<1> SUFFICES ASSUME ServerInv, [ServerNext]_serverVars
             PROVE  ServerInv'
    OBVIOUS
<1> USE ServerLifecycleAssumption
    DEF ServerInv, ServerTypes, ServerPhases, LateIsLast, InRun, ServerGone,
        ServerGoto, signalVars, runUnchanged
<1>1. ASSUME NEW logged \in BOOLEAN, ServerStarts(logged)
      PROVE  ServerInv'
    BY <1>1 DEF ServerStarts
<1>2. CASE ServerCreate
    BY <1>2 DEF ServerCreate
<1>3. ASSUME NEW t \in ThreadCounts, RunnerInit(t)
      PROVE  ServerInv'
    BY <1>3 DEF RunnerInit
<1>4. ASSUME NEW bound \in BOOLEAN, Bind(bound)
      PROVE  ServerInv'
    BY <1>4 DEF Bind
<1>5. CASE TestStop
    BY <1>5 DEF TestStop
<1>6. CASE Poll \/ PollReturns
    BY <1>6 DEF Poll, PollReturns
<1>7. CASE TakeMessage
    BY <1>7 DEF TakeMessage
<1>8. CASE Served \/ LeaveRun
    BY <1>8 DEF Served, LeaveRun
<1>9. CASE DeinitRefused
    BY <1>9 DEF DeinitRefused
<1>10. CASE RunnerDeinit
    BY <1>10 DEF RunnerDeinit
<1>11. CASE RouterClose
    BY <1>11 DEF RouterClose
<1>12. CASE ServerExit
    BY <1>12 DEF ServerExit
<1>13. CASE ServerSignal
    BY <1>13 DEF ServerSignal
<1>14. CASE Arrive
    BY <1>14 DEF Arrive
<1>15. CASE UNCHANGED serverVars
    BY <1>15 DEF serverVars
<1> QED
    BY <1>1, <1>2, <1>3, <1>4, <1>5, <1>6, <1>7, <1>8, <1>9, <1>10, <1>11,
       <1>12, <1>13, <1>14, <1>15
    DEF ServerNext, ServerMain, serverInitialize, serverRun, serverDeinitialize

-----------------------------------------------------------------------------
(* The client. *)

ClientTypes ==
    /\ cpc \in ClientGone \union
           {"load", "prepare", "init", "test", "prompt", "sent", "await",
            "deinit", "unload", "return"}
    /\ lib \in {"linked", "none", "loaded", "unloaded"}
    /\ handler \in BOOLEAN /\ clientStop \in BOOLEAN
    /\ clientSignals \in 0..MaxClientSignals
    /\ mSocket \in {"none", "open", "closed"}
    /\ replies \in Nat /\ lateRequests \in Nat
    /\ requests \in 0..MaxRequests

(* The socket is open from clientInitialize to clientDeinitialize, or for   *)
(* good when the process dies in between, and the library is there as long. *)
SocketPhases ==
    /\ cpc \in {"load", "prepare", "init"} => mSocket = "none"
    /\ mSocket = "open" => cpc \notin {"unload", "return", "exited"}
    /\ lib = "unloaded" => cpc \in ClientGone \union {"return"}
    /\ lib = "unloaded" => mSocket # "open"

(* The flag is set by the handler only; a request sent although it was set  *)
(* is the last, the prompt being reached through the test of the flag.      *)
LateRequestIsLast ==
    /\ clientStop => handler
    /\ handler => cpc \notin {"load", "prepare"}
    /\ lateRequests \in {0, 1}
    /\ lateRequests = 1 => clientStop /\ cpc \notin {"init", "prompt"}

ClientInv == ClientTypes /\ SocketPhases /\ LateRequestIsLast

(* The client starts in its invariant, linked with the library or not. *)
LEMMA ClientInvInit == ClientInit => ClientInv
<1> SUFFICES ASSUME ClientInit
             PROVE  ClientInv
    OBVIOUS
<1>1. /\ handler \in BOOLEAN /\ ~handler
      /\ clientStop \in BOOLEAN /\ ~clientStop
    BY Zenon DEF ClientInit
<1>2. /\ cpc \in {"load", "prepare"} /\ lib \in {"none", "linked"}
      /\ mSocket = "none" /\ clientSignals = 0
      /\ replies = 0 /\ requests = 0 /\ lateRequests = 0
    BY Zenon DEF ClientInit
<1> QED
    BY <1>1, <1>2, ClientLifecycleAssumption
    DEF ClientInv, ClientTypes, SocketPhases, LateRequestIsLast, ClientGone

(* Every step of main, a command, a signal and a response keep it. *)
LEMMA ClientInvStep == ClientInv /\ [ClientNext]_clientVars => ClientInv'
<1> SUFFICES ASSUME ClientInv, [ClientNext]_clientVars
             PROVE  ClientInv'
    OBVIOUS
<1> USE ClientLifecycleAssumption
    DEF ClientInv, ClientTypes, SocketPhases, LateRequestIsLast, ClientGone,
        ClientGoto, loopVars, processVars, dlclose
<1>1. CASE LoadLibrary
    BY <1>1 DEF LoadLibrary, mustSymFails
<1>2. ASSUME NEW ok \in BOOLEAN, Prepare(ok)
      PROVE  ClientInv'
    BY <1>2 DEF Prepare, GiveUp
<1>3. ASSUME NEW connected \in BOOLEAN, Initialize(connected)
      PROVE  ClientInv'
    BY <1>3 DEF Initialize
<1>4. CASE TestClientStop
    BY <1>4 DEF TestClientStop
<1>5. CASE LocalCommand
    BY <1>5 DEF LocalCommand
<1>6. CASE SendRequest
    BY <1>6 DEF SendRequest
<1>7. CASE PollReply \/ RequestEnds
    BY <1>7 DEF PollReply, RequestEnds
<1>8. CASE Deinitialize
    BY <1>8 DEF Deinitialize
<1>9. CASE Unload \/ ClientExit
    BY <1>9 DEF Unload, ClientExit
<1>10. CASE ClientSignal
    BY <1>10 DEF ClientSignal
<1>11. CASE DeliverReply
    BY <1>11 DEF DeliverReply
<1>12. CASE UNCHANGED clientVars
    BY <1>12 DEF clientVars
<1> QED
    BY <1>1, <1>2, <1>3, <1>4, <1>5, <1>6, <1>7, <1>8, <1>9, <1>10, <1>11,
       <1>12
    DEF ClientNext, ClientMain, clientStart

-----------------------------------------------------------------------------
(* Both processes keep their invariants whatever the other one does. *)
THEOREM ProcessesInvariant == Spec => [](ServerInv /\ ClientInv)
<1>1. Init => ServerInv /\ ClientInv
    BY ServerInvInit, ClientInvInit DEF Init
<1>2. ServerInv /\ ClientInv /\ [Next]_vars => ServerInv' /\ ClientInv'
    BY NextSplits, ServerInvStep, ClientInvStep
<1> QED
    BY <1>1, <1>2, PTL DEF Spec

(* Every variable of both processes keeps its type: no message is taken     *)
(* that is not there, and the bounds on signals and requests are kept.      *)
THEOREM TypeCorrect == Spec => []TypeOK
<1>1. ServerInv /\ ClientInv => TypeOK
    BY DEF ServerInv, ServerTypes, ClientInv, ClientTypes, TypeOK
<1> QED
    BY <1>1, ProcessesInvariant, PTL

(* However many signals and messages there are, run receives at most one    *)
(* message after the stop flag was set.                                     *)
THEOREM AtMostOneMoreMessage == Spec => []OneMoreMessage
<1>1. ServerInv => OneMoreMessage
    BY DEF ServerInv, LateIsLast, OneMoreMessage
<1> QED
    BY <1>1, ProcessesInvariant, PTL

(* run handles messages only with the pool alive and the socket bound. *)
THEOREM ServesReady == Spec => []ServesOnlyWhenReady
<1>1. ServerInv => ServesOnlyWhenReady
    BY DEF ServerInv, ServerPhases, InRun, ServesOnlyWhenReady
<1> QED
    BY <1>1, ProcessesInvariant, PTL

(* On every path of the server's main, any number of threads given, a bound *)
(* socket is closed before main returns and after the workers were joined.  *)
THEOREM EndsClean == Spec => []CleanEnd
<1>1. ServerInv => CleanEnd
    BY DEF ServerInv, ServerTypes, ServerPhases, InRun, ServerGone, CleanEnd
<1> QED
    BY <1>1, ProcessesInvariant, PTL

(* However many signals there are, at most one request is sent after the    *)
(* client's stop flag was set.                                              *)
THEOREM AtMostOneMoreRequest == Spec => []OneMoreRequest
<1>1. ClientInv => OneMoreRequest
    BY DEF ClientInv, LateRequestIsLast, OneMoreRequest
<1> QED
    BY <1>1, ProcessesInvariant, PTL

(* On every path of both clients' mains the socket is closed before the     *)
(* library is unloaded and before main returns.                             *)
THEOREM SocketClosedFirst == Spec => []ClosedBeforeUnload
<1>1. ClientInv => ClosedBeforeUnload
    BY DEF ClientInv, SocketPhases, ClosedBeforeUnload
<1> QED
    BY <1>1, ProcessesInvariant, PTL
=============================================================================
