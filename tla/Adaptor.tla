------------------------------- MODULE Adaptor -------------------------------
(***************************************************************************)
(* Start-up and shut-down of the server adaptor, composed with its class    *)
(* handler: OSA_Init creates the NetworkModule, starts the server thread    *)
(* that binds the ports one by one, creates the class handler, opens the    *)
(* classes and then polls bindSuccess, an int on its own stack that the     *)
(* server thread writes. OSA_Finish shuts the messengers down, joins the    *)
(* server thread, stops the handler threads and drops the class handler.    *)
(*                                                                          *)
(* The queues and handler threads are in OpQueue; here an op matters only   *)
(* as a class call of the cache, which can start as soon as one messenger   *)
(* has been started.                                                        *)
(***************************************************************************)
EXTENDS ClassHandler

CONSTANTS
  Ports,     \* number of ports in the configuration
  MaxLives   \* bound: how often OSA_Init creates a NetworkModule

ASSUME AdaptorAssumption == Ports \in Nat \ {0} /\ MaxLives \in Nat

VARIABLES
  ctl,      \* where the thread that calls OSA_Init and OSA_Finish stands
  network,  \* g_ptrNetwork # nullptr
  server,   \* the server thread: "none" if it was never created
  started,  \* messengers bound and started: vecSvrMessenger is 1..started
  down,     \* messengers that FinishMessenger has shut down
  bind,     \* bindSuccess: "unknown" (-1), "failed" (0) or "bound" (1)
  frame,    \* OSA_Init has not returned: bindSuccess exists
  stray,    \* this life's server thread wrote bindSuccess after OSA_Init had returned
  timedOut, \* the last OSA_Init gave up polling
  result,   \* what the last OSA_Init returned; "again": 0 because a module exists
  lives     \* NetworkModules created so far

netVars == <<ctl, network, server, started, down, bind, frame, stray, timedOut, result, lives>>
vars == <<classVars, netVars>>

Init ==
  /\ ClassInit
  /\ ctl = "idle"
  /\ network = FALSE
  /\ server = "none"
  /\ started = 0
  /\ down = {}
  /\ bind = "unknown"
  /\ frame = FALSE
  /\ stray = FALSE
  /\ timedOut = FALSE
  /\ result = "none"
  /\ lives = 0

\* A class call through a null rpc_handler ends the process; so may the join
\* of a thread that was never created.
Crashed == ctl = "crash" \/ \E t \in Callers : pc[t] = "null"

-----------------------------------------------------------------------------
(* OSA_Init                                                                 *)

\* A configuration that cannot be read or has a value out of its range
\* (address, ports, cores, queues, capacity, messengers, quota cycle,
\* throttle): ERROR_PORT before anything has been done.
InitRefused ==
  /\ ctl = "idle"
  /\ result' = "error"
  /\ UNCHANGED <<classVars, ctl, network, server, started, down, bind, frame, stray, timedOut, lives>>

\* With a NetworkModule in place OSA_Init returns 0 and does nothing, even if
\* the call that created the module has failed.
InitAgain ==
  /\ ctl = "idle" /\ network
  /\ result' = "again"
  /\ UNCHANGED <<classVars, ctl, network, server, started, down, bind, frame, stray, timedOut, lives>>

InitCreate ==
  /\ ctl = "idle" /\ ~network /\ lives < MaxLives
  /\ ctl' = "thread"
  /\ network' = TRUE
  /\ server' = "none"
  /\ started' = 0
  /\ down' = {}
  /\ bind' = "unknown"
  /\ frame' = TRUE
  /\ stray' = FALSE
  /\ timedOut' = FALSE
  /\ result' = "none"
  /\ lives' = lives + 1
  /\ UNCHANGED classVars

\* InitMessenger: pthread_create may fail, and OSA_Init goes on all the same.
InitMessenger(created) ==
  /\ ctl = "thread"
  /\ ctl' = "handler"
  /\ server' = IF created THEN "bind" ELSE "none"
  /\ UNCHANGED <<classVars, network, started, down, bind, frame, stray, timedOut, result, lives>>

RpcHandler ==
  /\ ctl = "handler"
  /\ ctl' = "rpc"
  /\ NewHandler
  /\ UNCHANGED <<network, server, started, down, bind, frame, stray, timedOut, result, lives>>

\* What rpc_init returns is not looked at.
RpcInitDone ==
  /\ ctl = "rpc" /\ pc[Main] = "idle"
  /\ ctl' = "poll"
  /\ UNCHANGED <<classVars, network, server, started, down, bind, frame, stray, timedOut, result, lives>>

\* Mutant: the poll takes any port that serves for success.
SomePortServes == started > 0

\* The poll ends when the server thread has told how the binding went.
BindKnown == bind # "unknown"

InitReturns ==
  /\ ctl = "poll" /\ BindKnown
  /\ ctl' = "idle"
  /\ frame' = FALSE
  /\ result' = IF bind = "failed" THEN "error" ELSE "ok"
  /\ UNCHANGED <<classVars, network, server, started, down, bind, stray, timedOut, lives>>

\* The poll gives up after 61 rounds of one second.
InitTimeout ==
  /\ ctl = "poll" /\ bind = "unknown"
  /\ ctl' = "idle"
  /\ frame' = FALSE
  /\ timedOut' = TRUE
  /\ result' = "error"
  /\ UNCHANGED <<classVars, network, server, started, down, bind, stray, lives>>

-----------------------------------------------------------------------------
(* The server thread: ThreadFuncBodyServer.                                 *)

\* *bindSuccess = b
Report(b) ==
  /\ bind' = IF frame THEN b ELSE bind
  /\ stray' = (stray \/ ~frame)

BindPort ==
  /\ server = "bind" /\ started < Ports
  /\ started' = started + 1
  /\ UNCHANGED <<classVars, ctl, network, server, down, bind, frame, stray, timedOut, result, lives>>

\* The messengers that were started before go on serving.
BindFails ==
  /\ server = "bind" /\ started < Ports
  /\ Report("failed")
  /\ server' = "exited"
  /\ UNCHANGED <<classVars, ctl, network, started, down, frame, timedOut, result, lives>>

ServerWait ==
  /\ server = "bind" /\ started = Ports
  /\ Report("bound")
  /\ server' = "wait"
  /\ UNCHANGED <<classVars, ctl, network, started, down, frame, timedOut, result, lives>>

\* wait() of the first messenger returns once it has been shut down.
ServerExits ==
  /\ server = "wait" /\ 1 \in down
  /\ server' = "exited"
  /\ UNCHANGED <<classVars, ctl, network, started, down, bind, frame, stray, timedOut, result, lives>>

ServerStep == BindPort \/ BindFails \/ ServerWait \/ ServerExits

-----------------------------------------------------------------------------
(* OSA_Finish                                                               *)

\* Mutant: the loop forgets the first messenger.
AllButFirst == down' = 2..started

\* FinishMessenger shuts down what is in vecSvrMessenger at this moment.
ShutdownMessengers == down' = 1..started

FinishShutdown ==
  /\ ctl = "idle" /\ network
  /\ ctl' = "join"
  /\ ShutdownMessengers
  /\ UNCHANGED <<classVars, network, server, started, bind, frame, stray, timedOut, result, lives>>

FinishJoin ==
  /\ ctl = "join" /\ server = "exited"
  /\ ctl' = "stop"
  /\ UNCHANGED <<classVars, network, server, started, down, bind, frame, stray, timedOut, result, lives>>

\* pthread_join of the handle 0 the module was created with: it fails or crashes.
JoinNoThread(next) ==
  /\ ctl = "join" /\ server = "none"
  /\ ctl' = next
  /\ UNCHANGED <<classVars, network, server, started, down, bind, frame, stray, timedOut, result, lives>>

\* rpc_handler->shutdown() and rpc_handler = nullptr.
ShutdownHandler == IF handler THEN DropHandler ELSE UNCHANGED classVars

\* StopThread, the delete of the module and the end of the class handler.
\* Nothing here waits for class calls: the cache, which makes them, has ended
\* them before.
FinishDrop ==
  /\ ctl = "stop"
  /\ \A t \in Callers : pc[t] = "idle"
  /\ ctl' = "idle"
  /\ network' = FALSE
  /\ ShutdownHandler
  /\ UNCHANGED <<server, started, down, bind, frame, stray, timedOut, result, lives>>

-----------------------------------------------------------------------------
\* Ops, and with them class calls, arrive through the messengers that serve.
ClassCall(t, c) ==
  /\ network /\ 1..started \ down # {}
  /\ ExecClass(t, c)
  /\ UNCHANGED netVars

Next ==
  /\ ~Crashed
  /\ \/ InitRefused \/ InitAgain \/ InitCreate
     \/ \E created \in BOOLEAN : InitMessenger(created)
     \/ RpcHandler \/ RpcInitDone \/ InitReturns \/ InitTimeout
     \/ ServerStep
     \/ FinishShutdown \/ FinishJoin \/ FinishDrop
     \/ \E next \in {"stop", "crash"} : JoinNoThread(next)
     \/ \E t \in Callers, c \in Classes : ClassCall(t, c)
     \/ ClassNext /\ UNCHANGED netVars

\* Threads that run go on. The mutex is granted to a thread that keeps waiting
\* for it, though others take it in between.
Fairness ==
  /\ WF_vars(~Crashed /\ ServerStep)
  /\ WF_vars(~Crashed /\ FinishJoin)
  /\ WF_vars(~Crashed /\ Load /\ UNCHANGED netVars)
  /\ \A t \in Callers :
       /\ SF_vars(~Crashed /\ Open(t) /\ UNCHANGED netVars)
       /\ SF_vars(~Crashed /\ (\E found \in BOOLEAN : GetMethod(t, found)) /\ UNCHANGED netVars)
       /\ WF_vars(~Crashed /\ Exec(t) /\ UNCHANGED netVars)

Spec == Init /\ [][Next]_vars
FairSpec == Spec /\ Fairness

-----------------------------------------------------------------------------
TypeOK ==
  /\ ClassTypeOK
  /\ ctl \in {"idle", "thread", "handler", "rpc", "poll", "join", "stop", "crash"}
  /\ network \in BOOLEAN
  /\ server \in {"none", "bind", "wait", "exited"}
  /\ started \in 0..Ports
  /\ down \subseteq 1..Ports
  /\ bind \in {"unknown", "failed", "bound"}
  /\ frame \in BOOLEAN /\ stray \in BOOLEAN /\ timedOut \in BOOLEAN
  /\ result \in {"none", "ok", "error", "again"}
  /\ lives \in 0..MaxLives

\* An OSA_Init that created the module and returned 0 has every port bound,
\* its messengers serving and the class handler in place; and the server thread
\* writes bindSuccess after OSA_Init has left its frame only if OSA_Init gave up
\* polling.
InitHonest ==
  /\ ctl = "idle" /\ network /\ result = "ok" =>
       started = Ports /\ down = {} /\ server = "wait" /\ handler
  /\ stray => timedOut

\* A class call finds no handler only while OSA_Init is between starting the
\* server thread and creating the handler: never once OSA_Init has returned,
\* and not in a later life either.
NullOnlyAtStart == (\E t \in Callers : pc[t] = "null") => ctl = "handler"

\* Between calls the class handler exists exactly when the module does, and
\* what OSA_Finish leaves behind is an empty table with no library open.
HandlerFollowsModule ==
  ctl = "idle" =>
    /\ network <=> handler
    /\ ~network => \A c \in Classes : status[c] = "absent" /\ opens[c] = 0

\* OSA_Finish gets past the join of the server thread, whether the binding
\* succeeded or failed, if OSA_Init learned how it went.
ServerJoined == (ctl = "join" /\ ~timedOut) ~> (ctl # "join" \/ Crashed)

\* Every class call returns, whatever fails while classes are loaded, however
\* many calls come for the same class and whatever rpc_init does meanwhile.
CallAnswered == \A t \in Callers : pc[t] # "idle" ~> (pc[t] = "idle" \/ Crashed)
=============================================================================
