--------------------------- MODULE ClientLifecycle ---------------------------
(***************************************************************************)
(* The life of a client process: main of client_1, which is linked with    *)
(* the client library, or of client_2, which loads it with dlopen; the C   *)
(* API around the singleton (ipc_clients.cpp); the command loop of         *)
(* client::Application::run, against SIGINT and SIGTERM at any moment.     *)
(* What the commands do is IpcSystem's subject.                            *)
(***************************************************************************)
EXTENDS Naturals

CONSTANTS
    MaxClientSignals,  \* bound: how many signals the client receives
    MaxRequests        \* bound: how many requests the user's commands send

ASSUME ClientLifecycleAssumption ==
    MaxClientSignals \in Nat /\ MaxRequests \in Nat

VARIABLES
    cpc,            \* where main is
    lib,            \* libclientipc.so: "linked", or loaded and unloaded
    handler,        \* stopHandleClient is installed
    clientStop,     \* sigStop of ipc_clients.cpp
    clientSignals,  \* signals received
    mSocket,        \* the DEALER socket, which lives as long as the singleton
    replies,        \* responses waiting at it
    requests,       \* requests sent
    lateRequests    \* history: requests sent after clientStop was set

clientVars == <<cpc, lib, handler, clientStop, clientSignals, mSocket, replies,
                requests, lateRequests>>
loopVars == <<replies, requests, lateRequests>>

ClientGone == {"exited", "killed", "aborted", "crashed"}

ClientInit ==
    /\ \/ cpc = "load" /\ lib = "none"
       \/ cpc = "prepare" /\ lib = "linked"
    /\ handler = FALSE
    /\ clientStop = FALSE
    /\ clientSignals = 0
    /\ mSocket = "none"
    /\ replies = 0
    /\ requests = 0
    /\ lateRequests = 0

ClientGoto(l) == cpc' = l

-----------------------------------------------------------------------------
dlclose == lib' = IF lib = "loaded" THEN "unloaded" ELSE lib

(* mustSym misses a symbol, closes the library and exits. *)
mustSymFails == lib' = "unloaded" /\ ClientGoto("return")

(* client_2: the library is loaded; or there is no file, dlopen fails, or a *)
(* symbol is missing.                                                       *)
LoadLibrary ==
    /\ cpc = "load"
    /\ \/ lib' = "loaded" /\ ClientGoto("prepare")
       \/ lib' = "none" /\ ClientGoto("return")
       \/ mustSymFails
    /\ UNCHANGED <<handler, clientStop, clientSignals, mSocket, loopVars>>

(* No log file or no address: main returns. *)
GiveUp == ClientGoto("return") /\ dlclose

(* Logging and the check of the address, then the handlers. *)
Prepare(ok) ==
    /\ cpc = "prepare"
    /\ handler' = ok
    /\ IF ok THEN ClientGoto("init") /\ UNCHANGED lib ELSE GiveUp
    /\ UNCHANGED <<clientStop, clientSignals, mSocket, loopVars>>

Bug_NoDeinitAfterFailure(connected) ==
    /\ cpc = "init"
    /\ mSocket' = "open"
    /\ ClientGoto(IF connected THEN "test" ELSE "unload")
    /\ UNCHANGED <<lib, handler, clientStop, clientSignals, loopVars>>

(* clientInitialize: create makes the singleton with its socket; init       *)
(* connects and sends the handshake, or fails on the endpoint.  The masks   *)
(* of both programs pass verifyExecCaps.                                    *)
Initialize(connected) ==
    /\ cpc = "init"
    /\ mSocket' = "open"
    /\ ClientGoto(IF connected THEN "test" ELSE "deinit")
    /\ UNCHANGED <<lib, handler, clientStop, clientSignals, loopVars>>

-----------------------------------------------------------------------------
(* run. *)
processVars == <<lib, handler, clientStop, clientSignals, mSocket>>

Bug_PromptAlways ==
    /\ cpc = "test"
    /\ ClientGoto("prompt")
    /\ UNCHANGED <<processVars, loopVars>>

TestClientStop ==
    /\ cpc = "test"
    /\ ClientGoto(IF clientStop THEN "deinit" ELSE "prompt")
    /\ UNCHANGED <<processVars, loopVars>>

(* A line that sends nothing: empty, help, list, a usage error, an unknown  *)
(* ticket; quit, exit or the end of input.                                  *)
LocalCommand ==
    /\ cpc = "prompt"
    /\ ClientGoto("test") \/ ClientGoto("deinit")
    /\ UNCHANGED <<processVars, loopVars>>

(* A submit or get: sendEnvelope, then on to recvEnvelope. *)
SendRequest ==
    /\ cpc = "prompt"
    /\ requests < MaxRequests
    /\ requests' = requests + 1
    /\ lateRequests' = lateRequests + (IF clientStop THEN 1 ELSE 0)
    /\ ClientGoto("sent")
    /\ UNCHANGED <<processVars, replies>>

PollReply ==
    /\ cpc = "sent"
    /\ ClientGoto("await")
    /\ UNCHANGED <<processVars, loopVars>>

(* recvEnvelope returns with a response or when rcvtimeo has passed; run    *)
(* goes on to the next command, or returns when an arithmetic command       *)
(* failed.                                                                  *)
RequestEnds ==
    /\ cpc \in {"sent", "await"}
    /\ \/ replies > 0 /\ replies' = replies - 1
       \/ cpc = "await" /\ UNCHANGED replies
    /\ ClientGoto("test") \/ ClientGoto("deinit")
    /\ UNCHANGED <<processVars, requests, lateRequests>>

-----------------------------------------------------------------------------
(* clientDeinitialize closes the socket. *)
Deinitialize ==
    /\ cpc = "deinit"
    /\ mSocket' = "closed"
    /\ ClientGoto("unload")
    /\ UNCHANGED <<lib, handler, clientStop, clientSignals, loopVars>>

(* client_2 closes the library, whose singleton is destroyed with it. *)
Unload ==
    /\ cpc = "unload"
    /\ dlclose
    /\ ClientGoto("return")
    /\ UNCHANGED <<handler, clientStop, clientSignals, mSocket, loopVars>>

ClientExit ==
    /\ cpc = "return"
    /\ ClientGoto("exited")
    /\ UNCHANGED <<processVars, loopVars>>

(* SIGINT or SIGTERM.  fgets is restarted and not disturbed; the receive    *)
(* throws, and nobody catches it; the handler of an unloaded library may be *)
(* gone, unless the loader kept it mapped.                                  *)
ClientSignal ==
    /\ cpc \notin ClientGone
    /\ clientSignals < MaxClientSignals
    /\ clientSignals' = clientSignals + 1
    /\ clientStop' = handler
    /\ \/ ~handler /\ ClientGoto("killed")
       \/ handler /\ cpc = "await" /\ ClientGoto("aborted")
       \/ handler /\ lib = "unloaded" /\ ClientGoto("crashed")
       \/ handler /\ cpc # "await" /\ UNCHANGED cpc
    /\ UNCHANGED <<lib, handler, mSocket, loopVars>>

(* A response reaches the socket, unless it is closed or the process gone. *)
DeliverReply ==
    /\ replies' = IF mSocket = "open" /\ cpc \notin ClientGone
                  THEN replies + 1 ELSE replies
    /\ UNCHANGED <<cpc, processVars, requests, lateRequests>>

(* What main does by itself, between clientInitialize and the commands the  *)
(* user types; rcvtimeo ends every receive.                                 *)
clientStart == TestClientStop \/ PollReply \/ RequestEnds

ClientMain ==
    \/ LoadLibrary
    \/ \E ok \in BOOLEAN : Prepare(ok)
    \/ clientStart
    \/ Deinitialize \/ Unload \/ ClientExit

-----------------------------------------------------------------------------
(* Properties. *)

(* After the stop flag is set at most one more request goes to the server:  *)
(* the one typed at a prompt that the signal did not disturb.               *)
OneMoreRequest == lateRequests <= 1

(* On every path of main, failed initialisation included, the socket is     *)
(* closed before the library with its code is unloaded and before main      *)
(* returns.                                                                 *)
ClosedBeforeUnload ==
    cpc \in {"return", "exited"} \/ lib = "unloaded" => mSocket # "open"

(* A set stop flag ends the process, except at the prompt, where it waits   *)
(* for the user to type a line.                                             *)
ClientStopNoticed ==
    (clientStop /\ cpc # "prompt") ~> cpc \in ClientGone

(* ipc.h, stopHandleClient: "A non-blocking signal handler to gracefully    *)
(* stop the client": the signal never aborts it in the middle of a request. *)
ClientStopsGracefully == cpc # "aborted"
=============================================================================
