--------------------------- MODULE ServerLifecycle ---------------------------
(***************************************************************************)
(* The life of the server process: main (server.cpp), the C API around the *)
(* singleton (ipc_server.cpp) and create, init, run and deinit of          *)
(* server::Application, against SIGINT and SIGTERM at any moment.  What a  *)
(* message does is IpcSystem's subject, what the threads do AlgoRunner's;  *)
(* here a message is served and the pool runs or does not.                 *)
(*                                                                         *)
(* A signal is delivered to the main thread (the kernel's choice when it   *)
(* does not block the signal).  glibc's signal() restarts system calls,    *)
(* except the poll inside recv_multipart, which fails with EINTR.          *)
(***************************************************************************)
EXTENDS Integers

CONSTANTS
    ThreadCounts,      \* the values given to --threads, any int
    MaxServerSignals   \* bound: how many signals the server receives

ASSUME ServerLifecycleAssumption ==
    /\ ThreadCounts \subseteq Int
    /\ MaxServerSignals \in Nat

VARIABLES
    spc,            \* where main is
    serverStop,     \* sigStop of ipc_server.cpp
    serverSignals,  \* signals received
    appPtr,         \* the singleton exists
    mInitialized,
    pool,           \* the worker threads behind AlgoRunner's outImpl
    mRouter,        \* the ROUTER socket
    inbox,          \* messages sent to it and not yet received
    lateMessages    \* history: messages received after serverStop was set

serverVars == <<spc, serverStop, serverSignals, appPtr, mInitialized, pool,
                mRouter, inbox, lateMessages>>
signalVars == <<serverStop, serverSignals>>

(* In run: about to test the flags, on the way into the poll or looking at  *)
(* what it returned, in the poll, the poll interrupted, handling a message. *)
InRun == {"test", "enter", "poll", "eintr", "serve"}

(* The default action of the signals kills the process until main has       *)
(* installed its handler; an uncaught exception aborts it.                  *)
ServerGone == {"exited", "killed", "aborted"}

ServerInit ==
    /\ spc = "start"
    /\ serverStop = FALSE
    /\ serverSignals = 0
    /\ appPtr = FALSE
    /\ mInitialized = FALSE
    /\ pool = "none"
    /\ mRouter = "unbound"
    /\ inbox = 0
    /\ lateMessages = 0

ServerGoto(l) == spc' = l

-----------------------------------------------------------------------------
(* main up to serverInitialize: logging, then the signal handlers. *)
ServerStarts(logged) ==
    /\ spc = "start"
    /\ ServerGoto(IF logged THEN "create" ELSE "exited")
    /\ UNCHANGED <<signalVars, appPtr, mInitialized, pool, mRouter, inbox,
                   lateMessages>>

(* Application::create, called once. *)
ServerCreate ==
    /\ spc = "create"
    /\ ~appPtr
    /\ appPtr' = TRUE
    /\ ServerGoto("init")
    /\ UNCHANGED <<signalVars, mInitialized, pool, mRouter, inbox,
                   lateMessages>>

(* init, first half: AlgoRunner::init makes the pool; reserving a negative  *)
(* number of threads throws, and nobody catches it.                         *)
RunnerInit(threads) ==
    /\ spc = "init"
    /\ ~mInitialized
    /\ pool = "none"
    /\ IF threads < 0
       THEN ServerGoto("aborted") /\ UNCHANGED pool
       ELSE ServerGoto("bind") /\ pool' = "running"
    /\ UNCHANGED <<signalVars, appPtr, mInitialized, mRouter, inbox,
                   lateMessages>>

Bug_BindUnchecked(bound) ==
    /\ spc = "bind"
    /\ mRouter' = IF bound THEN "bound" ELSE mRouter
    /\ mInitialized' = TRUE
    /\ ServerGoto("test")
    /\ UNCHANGED <<signalVars, appPtr, pool, inbox, lateMessages>>

(* init, second half: bind; when it fails the pool is left as it is and     *)
(* main skips serverRun.                                                    *)
Bind(bound) ==
    /\ spc = "bind"
    /\ mRouter' = IF bound THEN "bound" ELSE mRouter
    /\ mInitialized' = bound
    /\ ServerGoto(IF bound THEN "test" ELSE "deinit")
    /\ UNCHANGED <<signalVars, appPtr, pool, inbox, lateMessages>>

-----------------------------------------------------------------------------
(* run. *)
runUnchanged == <<appPtr, mInitialized, pool, mRouter, signalVars>>

Bug_TestInitializedOnly ==
    /\ spc = "test"
    /\ ServerGoto(IF mInitialized THEN "enter" ELSE "deinit")
    /\ UNCHANGED <<runUnchanged, inbox, lateMessages>>

TestStop ==
    /\ spc = "test"
    /\ ServerGoto(IF mInitialized /\ ~serverStop THEN "enter" ELSE "deinit")
    /\ UNCHANGED <<runUnchanged, inbox, lateMessages>>

(* recv_multipart polls when there is nothing to take; a message ends the   *)
(* poll, and so does a peer that connects.                                  *)
Poll ==
    /\ spc = "enter"
    /\ inbox = 0
    /\ ServerGoto("poll")
    /\ UNCHANGED <<runUnchanged, inbox, lateMessages>>

PollReturns ==
    /\ spc = "poll"
    /\ ServerGoto("enter")
    /\ UNCHANGED <<runUnchanged, inbox, lateMessages>>

Bug_TakeFromEmpty ==
    /\ spc = "enter"
    /\ inbox' = inbox - 1
    /\ ServerGoto("serve")
    /\ UNCHANGED <<runUnchanged, lateMessages>>

TakeMessage ==
    /\ spc = "enter"
    /\ inbox > 0
    /\ inbox' = inbox - 1
    /\ lateMessages' = lateMessages + (IF serverStop THEN 1 ELSE 0)
    /\ ServerGoto("serve")
    /\ UNCHANGED runUnchanged

(* A message is handled and its response, if any, sent. *)
Served ==
    /\ spc = "serve"
    /\ ServerGoto("test")
    /\ UNCHANGED <<runUnchanged, inbox, lateMessages>>

(* The loop is left: the catch clause for EINTR; RETURN_IF_ERROR after a    *)
(* failed send; the catch clauses for any other exception, after which run  *)
(* still returns EC_SUCCESS.                                                *)
LeaveRun ==
    /\ spc \in {"eintr", "serve"}
    /\ ServerGoto("deinit")
    /\ UNCHANGED <<runUnchanged, inbox, lateMessages>>

-----------------------------------------------------------------------------
(* deinit: refused when not initialised ... *)
DeinitRefused ==
    /\ spc = "deinit"
    /\ ~mInitialized
    /\ ServerGoto("return")
    /\ UNCHANGED <<runUnchanged, inbox, lateMessages>>

Bug_DeinitSkipsRunner ==
    /\ spc = "deinit"
    /\ mInitialized
    /\ ServerGoto("close")
    /\ UNCHANGED <<runUnchanged, inbox, lateMessages>>

(* ... otherwise AlgoRunner::deinit joins the workers and frees the pool,   *)
(* if ever the join returns ...                                             *)
RunnerDeinit ==
    /\ spc = "deinit"
    /\ mInitialized
    /\ pool = "running"
    /\ pool' = "freed"
    /\ ServerGoto("close")
    /\ UNCHANGED <<appPtr, mInitialized, mRouter, signalVars, inbox,
                   lateMessages>>

(* ... and the socket is closed. *)
RouterClose ==
    /\ spc = "close"
    /\ mInitialized' = FALSE
    /\ mRouter' = "closed"
    /\ ServerGoto("return")
    /\ UNCHANGED <<appPtr, pool, signalVars, inbox, lateMessages>>

(* main returns and the singleton is destroyed: the destructor calls deinit *)
(* if it finds mInitialized set.                                            *)
ServerExit ==
    /\ spc = "return"
    /\ ServerGoto(IF mInitialized THEN "deinit" ELSE "exited")
    /\ appPtr' = mInitialized
    /\ UNCHANGED <<mInitialized, pool, mRouter, signalVars, inbox,
                   lateMessages>>

-----------------------------------------------------------------------------
(* SIGINT or SIGTERM; stopHandleServer only sets the flag. *)
ServerSignal ==
    /\ spc \notin ServerGone
    /\ serverSignals < MaxServerSignals
    /\ serverSignals' = serverSignals + 1
    /\ serverStop' = (spc # "start")
    /\ ServerGoto(CASE spc = "start" -> "killed"
                    [] spc = "poll"  -> "eintr"
                    [] OTHER         -> spc)
    /\ UNCHANGED <<appPtr, mInitialized, pool, mRouter, inbox, lateMessages>>

(* A client sends a message; it waits in the client's socket until the      *)
(* server is bound.                                                         *)
Arrive ==
    /\ inbox' = IF spc \in ServerGone \/ mRouter = "closed" THEN inbox
                ELSE inbox + 1
    /\ UNCHANGED <<spc, signalVars, appPtr, mInitialized, pool, mRouter,
                   lateMessages>>

(* The C API, and main, which calls it in this order. *)
serverInitialize ==
    \/ ServerCreate
    \/ \E t \in ThreadCounts : RunnerInit(t)
    \/ \E bound \in BOOLEAN : Bind(bound)

serverRun == TestStop \/ Poll \/ PollReturns \/ TakeMessage \/ LeaveRun

serverDeinitialize == DeinitRefused \/ RunnerDeinit \/ RouterClose

ServerMain ==
    \/ \E logged \in BOOLEAN : ServerStarts(logged)
    \/ serverInitialize \/ serverRun \/ serverDeinitialize
    \/ ServerExit

(* main waits for nobody: neither for the workers it joins nor, in the      *)
(* poll, for a message.                                                     *)
ServerUnheld ==
    /\ spc = "deinit" => ~mInitialized
    /\ spc = "poll" => inbox > 0

-----------------------------------------------------------------------------
(* Properties. *)

(* Once the stop flag is set at most one more message is received, however  *)
(* many are waiting: the one that a receive already under way takes.        *)
OneMoreMessage == lateMessages <= 1

(* Messages are only handled between a successful bind and deinit, with the *)
(* pool alive: AlgoRunner's checks of outImpl never fire.                   *)
ServesOnlyWhenReady ==
    spc \in InRun => appPtr /\ pool = "running" /\ mRouter = "bound"

(* However the process ends short of being killed, a socket that was bound  *)
(* was closed, and closed after the workers had been joined, so that the    *)
(* destructor has nothing left to do (the logger it would write to is shut  *)
(* down by then); workers that outlive main are those of a server that      *)
(* could not bind.                                                          *)
CleanEnd ==
    /\ mRouter = "closed" => pool = "freed"
    /\ spc \in {"return", "exited"} => ~mInitialized /\ mRouter # "bound"
    /\ spc = "aborted" => pool = "none" /\ mRouter = "unbound"

(* A set stop flag ends run when main is not on its way into the receive or *)
(* in it, and also there as soon as a message comes in.                     *)
StopNoticed ==
    (serverStop /\ spc \in InRun /\ (spc \notin {"enter", "poll"} \/ inbox > 0))
        ~> spc \notin InRun

(* ipc.h, stopHandleServer: "A non-blocking signal handler to gracefully    *)
(* stop the server": the signal ends run.                                   *)
SignalStopsServer == serverStop ~> spc \notin InRun
=============================================================================
