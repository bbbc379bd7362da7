------------------------------ MODULE Processes ------------------------------
(***************************************************************************)
(* The server process and a client process, each with its life cycle and   *)
(* its signals: requests of the one are messages of the other.             *)
(***************************************************************************)
EXTENDS ServerLifecycle, ClientLifecycle

vars == <<serverVars, clientVars>>

Init == ServerInit /\ ClientInit

(* init connects and sends the handshake. *)
Connect(connected) ==
    /\ Initialize(connected)
    /\ IF connected THEN Arrive ELSE UNCHANGED serverVars

Request == SendRequest /\ Arrive

(* A request is answered, a handshake is not. *)
Respond ==
    /\ Served
    /\ DeliverReply \/ UNCHANGED clientVars

ServerStep == ServerMain \/ ServerSignal

ClientStep == ClientMain \/ LocalCommand \/ ClientSignal

BothGone ==
    /\ spc \in ServerGone
    /\ cpc \in ClientGone
    /\ UNCHANGED vars

Next ==
    \/ ServerStep /\ UNCHANGED clientVars
    \/ ClientStep /\ UNCHANGED serverVars
    \/ \E connected \in BOOLEAN : Connect(connected)
    \/ Request
    \/ Respond
    \/ BothGone

Spec == Init /\ [][Next]_vars

(* A process that can run runs: main goes on by itself (handling a message  *)
(* ends one way or the other, a receive of the client by its rcvtimeo), and *)
(* a poll with a message returns.  Nothing is assumed of the user at the    *)
(* prompt, of signals, of peers that connect, or of joining the workers.    *)
Fairness ==
    /\ WF_vars(ServerUnheld /\ ServerMain /\ UNCHANGED clientVars)
    /\ WF_vars(ClientMain /\ UNCHANGED serverVars)
    /\ WF_vars(\E connected \in BOOLEAN : Connect(connected))

FairSpec == Spec /\ Fairness

-----------------------------------------------------------------------------
(* Every variable has its type; neither process takes a message that is not *)
(* there.                                                                   *)
TypeOK ==
    /\ spc \in InRun \union ServerGone \union
           {"start", "create", "init", "bind", "deinit", "close", "return"}
    /\ {serverStop, appPtr, mInitialized, handler, clientStop} \subseteq BOOLEAN
    /\ serverSignals \in 0..MaxServerSignals
    /\ pool \in {"none", "running", "freed"}
    /\ mRouter \in {"unbound", "bound", "closed"}
    /\ {inbox, lateMessages, replies, lateRequests} \subseteq Nat
    /\ cpc \in ClientGone \union
           {"load", "prepare", "init", "test", "prompt", "sent", "await",
            "deinit", "unload", "return"}
    /\ lib \in {"linked", "none", "loaded", "unloaded"}
    /\ clientSignals \in 0..MaxClientSignals
    /\ mSocket \in {"none", "open", "closed"}
    /\ requests \in 0..MaxRequests
=============================================================================
