----------------------------- MODULE Lifecycle -----------------------------
(***************************************************************************)
(* The life of net::Server (src/server/server.cpp): the thread in start()  *)
(* that accepts clients, the handler thread of each client, and the thread *)
(* that calls stop() when the console reports Ctrl+C.  main() calls start()*)
(* (echo_server.cpp) or joins the thread that does (game_server.cpp), and  *)
(* destroys the server when it is back.                                    *)
(*                                                                         *)
(* They share running_, the sockets, the table connections_ of the         *)
(* ConnectionManager (each of its methods locks it for one step) and the   *)
(* list clientThreads_ with its mutex, which stop() holds while it joins   *)
(* the handlers.  What the callback does with a packet is left to module   *)
(* GameServer; here it is a phase in which the handler may send to any     *)
(* client, and so find a connection reset and cut it off.                  *)
(***************************************************************************)
CONSTANTS Clients,    (* client ids; each is handed out at most once        *)
          NoClient

ASSUME LifecycleAssumption == NoClient \notin Clients

VARIABLES running,    (* running_                                           *)
          listening,  (* is serverSocket_ open                              *)
          listener,   (* what the thread in start() does next               *)
          accepted,   (* the client it has accepted last and not yet served *)
          peer,       (* the other end of a client's connection             *)
          open,       (* clients whose socket is open on this side          *)
          conn,       (* connections_: the status of every connection       *)
          active,     (* clients whose ClientConnection has active set      *)
          listed,     (* clientThreads_                                     *)
          handler,    (* what the thread of a client does next              *)
          cut,        (* how far it is in disconnectClient                  *)
          target,     (* the client it disconnects                          *)
          stopper,    (* what the thread in stop() does next                *)
          pending,    (* connections it has to close, threads it has to join*)
          holder      (* who holds clientThreadsMutex_ between two steps    *)

vars == <<running, listening, listener, accepted, peer, open, conn, active,
          listed, handler, cut, target, stopper, pending, holder>>

listenerVars == <<listener, accepted>>
handlerVars  == <<handler, cut, target>>
stopVars     == <<running, listening, stopper, pending, holder>>
tables       == <<open, conn, active, listed>>

Statuses == {"absent", "CONNECTING", "ACTIVE", "DISCONNECTING"}

Init ==
  /\ running = TRUE
  /\ listening = TRUE
  /\ listener = "loop"
  /\ accepted = NoClient
  /\ peer = [c \in Clients |-> "away"]
  /\ open = {}
  /\ conn = [c \in Clients |-> "absent"]
  /\ active = {}
  /\ listed = {}
  /\ handler = [c \in Clients |-> "none"]
  /\ cut = [c \in Clients |-> "no"]
  /\ target = [c \in Clients |-> NoClient]
  /\ stopper = "idle"
  /\ pending = {}
  /\ holder = "nobody"

(* No thread goes on after the process has ended.                          *)
Alive == listener # "destroyed"

----------------------------------------------------------------------------
(* The other computers: a connection is closed or reset from over there.   *)
(* It is "down" once there is nothing left to receive from it.             *)
HangUp(c) ==
  /\ peer[c] = "up"
  /\ peer' = [peer EXCEPT ![c] = "down"]
  /\ UNCHANGED <<tables, listenerVars, handlerVars, stopVars>>

----------------------------------------------------------------------------
(* start(), from the loop on.                                              *)

Listen(from, to) == listener = from /\ listener' = to

TestRunning ==
  /\ Listen("loop", IF running THEN "accept" ELSE "returned")
  /\ UNCHANGED <<accepted, peer, tables, handlerVars, stopVars>>

(* INVALID_SOCKET: always, once serverSocket_ is closed.                   *)
AcceptFails ==
  /\ Listen("accept", "loop")
  /\ UNCHANGED <<accepted, peer, tables, handlerVars, stopVars>>

Accept(c) ==
  /\ listening
  /\ peer[c] = "away"
  /\ Listen("accept", "add")
  /\ accepted' = c
  /\ peer' = [peer EXCEPT ![c] = "up"]
  /\ open' = open \cup {c}
  /\ UNCHANGED <<conn, active, listed, handlerVars, stopVars>>

AddConnection ==
  /\ Listen("add", "setActive")
  /\ conn' = [conn EXCEPT ![accepted] = "CONNECTING"]
  /\ UNCHANGED <<accepted, peer, open, active, listed, handlerVars, stopVars>>

(* setStatus does nothing for a connection that is not in the table; one   *)
(* that writes connections_[id] would put it back.                         *)
StatusForced(c, status) == [conn EXCEPT ![c] = status]

WithStatus(c, status) ==
  IF conn[c] = "absent" THEN conn ELSE [conn EXCEPT ![c] = status]

SetActive ==
  /\ Listen("setActive", "push")
  /\ conn' = WithStatus(accepted, "ACTIVE")
  /\ UNCHANGED <<accepted, peer, open, active, listed, handlerVars, stopVars>>

(* The new ClientConnection is pushed on clientThreads_ under the mutex,   *)
(* and only then gets its thread.                                          *)
Push ==
  /\ holder = "nobody"
  /\ Listen("push", "spawn")
  /\ active' = active \cup {accepted}
  /\ listed' = listed \cup {accepted}
  /\ UNCHANGED <<accepted, peer, open, conn, handlerVars, stopVars>>

Spawn ==
  /\ Listen("spawn", "loop")
  /\ handler' = [handler EXCEPT ![accepted] = "loop"]
  /\ accepted' = NoClient
  /\ UNCHANGED <<peer, tables, cut, target, stopVars>>

ListenerStep ==
  \/ TestRunning \/ AcceptFails \/ (\E c \in Clients : Accept(c))
  \/ AddConnection \/ SetActive \/ Push \/ Spawn

----------------------------------------------------------------------------
(* handleClient.                                                           *)

Handle(c, from, to) ==
  /\ Alive
  /\ handler[c] = from
  /\ cut[c] = "no"
  /\ handler' = [handler EXCEPT ![c] = to]
  /\ UNCHANGED <<cut, target>>

TestLoop(c) ==
  /\ Handle(c, "loop", IF running /\ c \in active THEN "recv" ELSE "close")
  /\ UNCHANGED <<peer, tables, listenerVars, stopVars>>

(* recv() blocks while the connection is up and silent.                    *)
Receive(c) ==
  /\ c \in open /\ peer[c] = "up"
  /\ Handle(c, "recv", "callback")
  /\ UNCHANGED <<peer, tables, listenerVars, stopVars>>

(* The loop is left; a handler that only continued would never leave it.   *)
ReceiveFailsAndRetry(c) ==
  /\ c \notin open \/ peer[c] = "down"
  /\ Handle(c, "recv", "loop")
  /\ UNCHANGED <<peer, tables, listenerVars, stopVars>>

ReceiveFails(c) ==
  /\ c \notin open \/ peer[c] = "down"
  /\ Handle(c, "recv", "close")
  /\ UNCHANGED <<peer, tables, listenerVars, stopVars>>

Return(c) ==
  /\ Handle(c, "callback", "loop")
  /\ UNCHANGED <<peer, tables, listenerVars, stopVars>>

Close(c) ==
  /\ Handle(c, "close", "mark")
  /\ open' = open \ {c}
  /\ active' = active \ {c}
  /\ UNCHANGED <<peer, conn, listed, listenerVars, stopVars>>

Mark(c) ==
  /\ Handle(c, "mark", "remove")
  /\ conn' = WithStatus(c, "DISCONNECTING")
  /\ UNCHANGED <<peer, open, active, listed, listenerVars, stopVars>>

RemoveConnection(c) ==
  /\ Handle(c, "remove", "leave")
  /\ conn' = [conn EXCEPT ![c] = "absent"]
  /\ UNCHANGED <<peer, open, active, listed, listenerVars, stopVars>>

(* The callback has dealt with PLAYER_LEAVE.                               *)
Finish(c) ==
  /\ Handle(c, "leave", "done")
  /\ UNCHANGED <<peer, tables, listenerVars, stopVars>>

----------------------------------------------------------------------------
(* sendPacket to d, from the callback of c.  First the status is looked up *)
(* and then the data is sent; when the connection of d turns out to have   *)
(* been reset, disconnectClient(d) follows.  Any other outcome changes     *)
(* nothing, so a send begins here only when the peer is down.              *)

Cut(c, from, to) == Alive /\ cut[c] = from /\ cut' = [cut EXCEPT ![c] = to]

(* Faulty variant: sends to a connection that is not ACTIVE yet.           *)
BeginSendUnlessClosing(c, d) ==
  /\ handler[c] \in {"callback", "leave"}
  /\ conn[d] \in {"CONNECTING", "ACTIVE"} /\ peer[d] = "down"
  /\ Cut(c, "no", "send")
  /\ target' = [target EXCEPT ![c] = d]
  /\ UNCHANGED <<peer, tables, handler, listenerVars, stopVars>>

BeginSend(c, d) ==
  /\ handler[c] \in {"callback", "leave"}
  /\ conn[d] = "ACTIVE" /\ peer[d] = "down"
  /\ Cut(c, "no", "send")
  /\ target' = [target EXCEPT ![c] = d]
  /\ UNCHANGED <<peer, tables, handler, listenerVars, stopVars>>

EndSend(c) ==
  /\ Cut(c, "send", IF target[c] \in open THEN "find" ELSE "no")
  /\ UNCHANGED <<peer, tables, handler, target, listenerVars, stopVars>>

FindConnection(c) ==
  /\ Cut(c, "find", IF conn[target[c]] = "absent" THEN "no" ELSE "mark")
  /\ UNCHANGED <<peer, tables, handler, target, listenerVars, stopVars>>

MarkTarget(c) ==
  /\ Cut(c, "mark", "close")
  /\ conn' = WithStatus(target[c], "DISCONNECTING")
  /\ UNCHANGED <<peer, open, active, listed, handler, target, listenerVars, stopVars>>

CloseTarget(c) ==
  /\ Cut(c, "close", "deactivate")
  /\ open' = open \ {target[c]}
  /\ UNCHANGED <<peer, conn, active, listed, handler, target, listenerVars, stopVars>>

(* Under the mutex: active = false in the entry of clientThreads_, if any. *)
DeactivateTarget(c) ==
  /\ holder = "nobody"
  /\ Cut(c, "deactivate", "no")
  /\ active' = active \ ({target[c]} \cap listed)
  /\ UNCHANGED <<peer, open, conn, listed, handler, target, listenerVars, stopVars>>

SendStep(c) ==
  EndSend(c) \/ FindConnection(c) \/ MarkTarget(c) \/ CloseTarget(c) \/ DeactivateTarget(c)

(* What a handler does by itself; a Receive takes a client that sends.     *)
HandlerStep(c) ==
  \/ TestLoop(c) \/ ReceiveFails(c) \/ Return(c)
  \/ Close(c) \/ Mark(c) \/ RemoveConnection(c) \/ Finish(c)
  \/ \E d \in Clients : BeginSend(c, d)
  \/ SendStep(c)

----------------------------------------------------------------------------
(* stop(), in the thread that Windows runs ConsoleHandler in.              *)

Stop(from, to) == Alive /\ stopper = from /\ stopper' = to

CtrlC ==
  /\ running
  /\ Stop("idle", "unlisten")
  /\ running' = FALSE
  /\ UNCHANGED <<listening, pending, holder, peer, tables, listenerVars, handlerVars>>

CloseListener ==
  /\ Stop("unlisten", "snapshot")
  /\ listening' = FALSE
  /\ UNCHANGED <<running, pending, holder, peer, tables, listenerVars, handlerVars>>

GetAllConnections ==
  /\ Stop("snapshot", "drop")
  /\ pending' = {c \in Clients : conn[c] # "absent"}
  /\ UNCHANGED <<running, listening, holder, peer, tables, listenerVars, handlerVars>>

(* setStatus and closesocket of one connection of the snapshot.  Without   *)
(* the second, its handler would stay in recv().                           *)
DropStatusOnly(c) ==
  /\ Alive /\ stopper = "drop"
  /\ c \in pending
  /\ pending' = pending \ {c}
  /\ conn' = WithStatus(c, "DISCONNECTING")
  /\ UNCHANGED <<running, listening, stopper, holder, peer, open, active, listed,
                 listenerVars, handlerVars>>

DropConnection(c) ==
  /\ Alive /\ stopper = "drop"
  /\ c \in pending
  /\ pending' = pending \ {c}
  /\ conn' = WithStatus(c, "DISCONNECTING")
  /\ open' = open \ {c}
  /\ UNCHANGED <<running, listening, stopper, holder, peer, active, listed,
                 listenerVars, handlerVars>>

LockThreads ==
  /\ pending = {}
  /\ holder = "nobody"
  /\ Stop("drop", "join")
  /\ holder' = "stop"
  /\ pending' = listed
  /\ UNCHANGED <<running, listening, peer, tables, listenerVars, handlerVars>>

(* A thread that has not been started is not joinable.                     *)
JoinThread(c) ==
  /\ Alive /\ stopper = "join"
  /\ c \in pending
  /\ handler[c] \in {"none", "done"}
  /\ pending' = pending \ {c}
  /\ UNCHANGED <<running, listening, stopper, holder, peer, tables,
                 listenerVars, handlerVars>>

(* The list is emptied and the mutex released; the faulty variant keeps it.*)
ForgetThreadsLocked ==
  /\ pending = {}
  /\ Stop("join", "clear")
  /\ listed' = {}
  /\ UNCHANGED <<running, listening, pending, holder, peer, open, conn, active,
                 listenerVars, handlerVars>>

ForgetThreads ==
  /\ pending = {}
  /\ Stop("join", "clear")
  /\ listed' = {}
  /\ holder' = "nobody"
  /\ UNCHANGED <<running, listening, pending, peer, open, conn, active,
                 listenerVars, handlerVars>>

ClearAllConnections ==
  /\ Stop("clear", "finished")
  /\ conn' = [c \in Clients |-> "absent"]
  /\ UNCHANGED <<running, listening, pending, holder, peer, open, active, listed,
                 listenerVars, handlerVars>>

StopStep ==
  \/ CloseListener \/ GetAllConnections \/ (\E c \in Clients : DropConnection(c))
  \/ LockThreads \/ (\E c \in Clients : JoinThread(c))
  \/ ForgetThreads \/ ClearAllConnections

----------------------------------------------------------------------------
(* main() returns: ~Server calls stop(), which finds running_ lowered and  *)
(* returns at once; the members are destroyed and the process ends, with   *)
(* all of its threads.                                                     *)
MainReturns ==
  /\ Listen("returned", "destroyed")
  /\ UNCHANGED <<accepted, peer, tables, handlerVars, stopVars>>

Next ==
  \/ \E c \in Clients : HangUp(c) \/ Receive(c) \/ HandlerStep(c)
  \/ ListenerStep
  \/ CtrlC
  \/ StopStep
  \/ MainReturns

(* Every thread of the server that can go on does; nobody has to connect,  *)
(* hang up, send or press Ctrl+C, and main() may take its time.            *)
Fairness ==
  /\ WF_vars(ListenerStep)
  /\ WF_vars(StopStep)
  /\ \A c \in Clients : WF_vars(HandlerStep(c))

Spec     == Init /\ [][Next]_vars
FairSpec == Spec /\ Fairness

----------------------------------------------------------------------------
(* PROPERTIES                                                              *)

(* Every variable holds a value of its type, and only stop() keeps the     *)
(* mutex of clientThreads_ from one step to the next.                      *)
LifecycleTypeOK ==
  /\ running \in BOOLEAN /\ listening \in BOOLEAN
  /\ listener \in {"loop", "accept", "add", "setActive", "push", "spawn", "returned",
                   "destroyed"}
  /\ accepted \in Clients \cup {NoClient}
  /\ peer \in [Clients -> {"away", "up", "down"}]
  /\ conn \in [Clients -> Statuses]
  /\ open \subseteq Clients /\ active \subseteq Clients /\ listed \subseteq Clients
  /\ handler \in [Clients -> {"none", "loop", "recv", "callback", "close", "mark",
                              "remove", "leave", "done"}]
  /\ cut \in [Clients -> {"no", "send", "find", "mark", "close", "deactivate"}]
  /\ target \in [Clients -> Clients \cup {NoClient}]
  /\ stopper \in {"idle", "unlisten", "snapshot", "drop", "join", "clear", "finished"}
  /\ pending \subseteq Clients
  /\ holder = IF stopper = "join" THEN "stop" ELSE "nobody"

(* By the time the game hears that a player has left, its connection is out*)
(* of the table, and it stays out: neither a disconnectClient that another *)
(* handler began before, nor the closing statuses of stop(), puts it back, *)
(* so no broadcast goes to a player whose PLAYER_LEAVE has been dealt with.*)
LeaveComesLast ==
  \A c \in Clients : handler[c] \in {"leave", "done"} => conn[c] = "absent"

(* While the server runs, a connection that somebody has begun to close is *)
(* never sent to again: nothing makes it ACTIVE once it is DISCONNECTING,  *)
(* although its own handler may still be receiving from it.                *)
NoRevival ==
  [][\A c \in Clients :
       running /\ conn[c] = "DISCONNECTING" => conn'[c] # "ACTIVE"]_vars

(* A player whose connection is gone is reported to the game, whoever      *)
(* notices first (its handler in recv(), or another one that sends to it), *)
(* and even when it goes before its handler has started.                   *)
DepartureIsReported ==
  \A c \in Clients : peer[c] = "down" ~> handler[c] = "done" \/ ~running

(* stop() comes to its end when nothing else happens to be going on: from  *)
(* Ctrl+C on no client is being accepted, none is being cut off (the       *)
(* handler would need the mutex stop() holds while it joins the handler),  *)
(* and main() waits.                                                       *)
Calm == accepted = NoClient /\ Alive /\ \A c \in Clients : cut[c] = "no"

CalmStopEnds ==
  [](running \/ stopper = "finished" \/ Calm) => (~running ~> stopper = "finished")

(* README.md:115, "Press Ctrl+C to gracefully shutdown": no handler thread *)
(* is still running, and using the server, when main() destroys it.        *)
HandlersEndBeforeServer ==
  ~Alive => \A c \in Clients : handler[c] \in {"none", "done"}
=============================================================================
