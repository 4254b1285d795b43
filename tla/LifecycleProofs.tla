-------------------------- MODULE LifecycleProofs --------------------------
(***************************************************************************)
(* Connections end once and for all: the table of connections is well-     *)
(* typed, a departed player's connection is out of it before the game      *)
(* hears of the departure, and no connection that is being closed becomes  *)
(* ACTIVE again, for any number of clients.                                *)
(***************************************************************************)
EXTENDS Lifecycle, TLAPS

(* The listener has a client that has no handler thread yet.               *)
Accepting == {"add", "setActive", "push", "spawn"}

(* A client is known to nobody before it is accepted, and served by nobody *)
(* while it is being accepted.                                             *)
AcceptOK ==
  /\ \A c \in Clients : peer[c] = "away" => handler[c] = "none" /\ conn[c] = "absent"
  /\ listener \in Accepting =>
       accepted \in Clients /\ peer[accepted] # "away" /\ handler[accepted] = "none"

(* Only a connection that has been ACTIVE is ever cut off, so not the one  *)
(* the listener is about to make ACTIVE.                                   *)
CutOK ==
  \A c \in Clients : cut[c] # "no" =>
    /\ target[c] \in Clients /\ peer[target[c]] = "down"
    /\ listener \in {"add", "setActive"} => accepted # target[c]

(* The status of the client being accepted; stop() alone could have        *)
(* changed it, after it has lowered running_.                              *)
StatusOK ==
  /\ listener = "add" => conn[accepted] = "absent"
  /\ listener = "setActive" =>
       conn[accepted] # "ACTIVE" /\ (running => conn[accepted] = "CONNECTING")
  /\ stopper # "idle" => ~running

LifecycleInv == LifecycleTypeOK /\ AcceptOK /\ CutOK /\ StatusOK /\ LeaveComesLast

----------------------------------------------------------------------------
(* One lemma per thread.                                                   *)

(* The thread in start().                                                  *)
LEMMA ListenerKeepsInv ==
  ASSUME LifecycleInv, ListenerStep \/ MainReturns
  PROVE  LifecycleInv'
<1> USE LifecycleAssumption
        DEF LifecycleInv, LifecycleTypeOK, AcceptOK, CutOK, StatusOK, LeaveComesLast,
            Accepting, Statuses, Listen, tables, handlerVars, stopVars
<1>1. CASE TestRunning
  BY <1>1 DEF TestRunning
<1>2. CASE AcceptFails
  BY <1>2 DEF AcceptFails
<1>3. ASSUME NEW c \in Clients, Accept(c) PROVE LifecycleInv'
  BY <1>3 DEF Accept
<1>4. CASE AddConnection
  BY <1>4 DEF AddConnection
<1>5. CASE SetActive
  BY <1>5 DEF SetActive, WithStatus
<1>6. CASE Push
  BY <1>6 DEF Push
<1>7. CASE Spawn
  BY <1>7 DEF Spawn
<1>8. CASE MainReturns
  BY <1>8 DEF MainReturns
<1> QED
  BY <1>1, <1>2, <1>3, <1>4, <1>5, <1>6, <1>7, <1>8 DEF ListenerStep

(* The thread of a client, and the client itself.                          *)
LEMMA HandlerKeepsInv ==
  ASSUME LifecycleInv, NEW c \in Clients, HangUp(c) \/ Receive(c) \/ HandlerStep(c)
  PROVE  LifecycleInv'
<1> USE LifecycleAssumption
        DEF LifecycleInv, LifecycleTypeOK, AcceptOK, CutOK, StatusOK, LeaveComesLast,
            Accepting, Statuses, Handle, Cut, tables, listenerVars, handlerVars, stopVars
<1>1. CASE HangUp(c)
  BY <1>1 DEF HangUp
<1>2. CASE Receive(c) \/ TestLoop(c) \/ ReceiveFails(c) \/ Return(c) \/ Finish(c)
  BY <1>2 DEF Receive, TestLoop, ReceiveFails, Return, Finish
<1>3. CASE Close(c)
  BY <1>3 DEF Close
<1>4. CASE Mark(c)
  BY <1>4 DEF Mark, WithStatus
<1>5. CASE RemoveConnection(c)
  BY <1>5 DEF RemoveConnection
<1>6. ASSUME NEW d \in Clients, BeginSend(c, d) PROVE LifecycleInv'
  BY <1>6 DEF BeginSend
<1>7. CASE EndSend(c) \/ FindConnection(c)
  BY <1>7 DEF EndSend, FindConnection
<1>8. CASE MarkTarget(c)
  BY <1>8 DEF MarkTarget, WithStatus
<1>9. CASE CloseTarget(c) \/ DeactivateTarget(c)
  BY <1>9 DEF CloseTarget, DeactivateTarget
<1> QED
  BY <1>1, <1>2, <1>3, <1>4, <1>5, <1>6, <1>7, <1>8, <1>9 DEF HandlerStep, SendStep

(* The thread in stop().                                                   *)
LEMMA StopKeepsInv ==
  ASSUME LifecycleInv, CtrlC \/ StopStep
  PROVE  LifecycleInv'
<1> USE LifecycleAssumption
        DEF LifecycleInv, LifecycleTypeOK, AcceptOK, CutOK, StatusOK, LeaveComesLast,
            Accepting, Statuses, Stop, tables, listenerVars, handlerVars
<1>1. CASE CtrlC
  BY <1>1 DEF CtrlC
<1>2. CASE CloseListener
  BY <1>2 DEF CloseListener
<1>3. CASE GetAllConnections
  <2>1. pending' \subseteq Clients
    BY <1>3 DEF GetAllConnections
  <2> QED
    BY <1>3, <2>1 DEF GetAllConnections
<1>4. ASSUME NEW c \in Clients, DropConnection(c) PROVE LifecycleInv'
  BY <1>4 DEF DropConnection, WithStatus
<1>5. CASE LockThreads
  BY <1>5 DEF LockThreads
<1>6. ASSUME NEW c \in Clients, JoinThread(c) PROVE LifecycleInv'
  BY <1>6 DEF JoinThread
<1>7. CASE ForgetThreads
  BY <1>7 DEF ForgetThreads
<1>8. CASE ClearAllConnections
  BY <1>8 DEF ClearAllConnections
<1> QED
  BY <1>1, <1>2, <1>3, <1>4, <1>5, <1>6, <1>7, <1>8 DEF StopStep

(* Nothing happens.                                                        *)
LEMMA StutterKeepsInv ==
  ASSUME LifecycleInv, UNCHANGED vars
  PROVE  LifecycleInv'
BY DEF LifecycleInv, LifecycleTypeOK, AcceptOK, CutOK, StatusOK, LeaveComesLast, vars

(* The invariant holds from the start on.                                  *)
LEMMA LifecycleInvariant == Spec => []LifecycleInv
<1>1. Init => LifecycleInv
  BY DEF Init, LifecycleInv, LifecycleTypeOK, AcceptOK, CutOK, StatusOK,
         LeaveComesLast, Accepting, Statuses
<1>2. LifecycleInv /\ [Next]_vars => LifecycleInv'
  BY ListenerKeepsInv, HandlerKeepsInv, StopKeepsInv, StutterKeepsInv DEF Next
<1> QED
  BY <1>1, <1>2, PTL DEF Spec

----------------------------------------------------------------------------
(* Theorems.                                                               *)

(* Threads, sockets and tables are well-typed, and only stop() holds       *)
(* clientThreadsMutex_ between two steps.                                  *)
THEOREM LifecycleType == Spec => []LifecycleTypeOK
BY LifecycleInvariant, PTL DEF LifecycleInv

(* A connection whose departure is being reported is out of the table, for *)
(* good, whoever else is closing it.                                       *)
THEOREM LeavingIsFinal == Spec => []LeaveComesLast
BY LifecycleInvariant, PTL DEF LifecycleInv

(* Only SetActive makes a connection ACTIVE, and while the server runs it  *)
(* finds the connection CONNECTING.                                        *)
THEOREM NobodyIsRevived == Spec => NoRevival
<1>1. LifecycleInv /\ [Next]_vars =>
        [\A c \in Clients :
           running /\ conn[c] = "DISCONNECTING" => conn'[c] # "ACTIVE"]_vars
  <2> SUFFICES ASSUME LifecycleInv, Next, NEW c \in Clients, running,
                      conn[c] = "DISCONNECTING", conn'[c] = "ACTIVE"
               PROVE  FALSE
    OBVIOUS
  <2> USE DEF LifecycleInv, LifecycleTypeOK, StatusOK, AcceptOK, WithStatus, tables
  <2>1. CASE ListenerStep \/ MainReturns
    BY <2>1 DEF ListenerStep, MainReturns, TestRunning, AcceptFails, Accept, AddConnection,
                SetActive, Push, Spawn, Listen, Accepting
  <2>2. CASE \E d \in Clients : HangUp(d) \/ Receive(d) \/ HandlerStep(d)
    BY <2>2 DEF HangUp, Receive, HandlerStep, TestLoop, ReceiveFails, Return, Close, Mark,
                RemoveConnection, Finish, BeginSend, SendStep, EndSend, FindConnection,
                MarkTarget, CloseTarget, DeactivateTarget
  <2>3. CASE CtrlC \/ StopStep
    BY <2>3 DEF CtrlC, StopStep, CloseListener, GetAllConnections, DropConnection,
                LockThreads, JoinThread, ForgetThreads, ClearAllConnections
  <2> QED
    BY <2>1, <2>2, <2>3 DEF Next
<1> QED
  BY <1>1, LifecycleInvariant, PTL DEF Spec, NoRevival
=============================================================================
