----------------------------- MODULE GameClient -----------------------------
(***************************************************************************)
(* The game client: net::Client (src/client/client.cpp) as main() of       *)
(* src/client/game_client.cpp uses it.  Two threads, main() and the        *)
(* receiving thread, share connected_, receiving_ and the socket; the      *)
(* server at the other end sends packets and closes.                       *)
(*                                                                         *)
(* The bytes from the server come in units, two to a packet (its header    *)
(* and its data), and recv() returns any number of those that have         *)
(* arrived.  The lines the player types are sent and change nothing here.  *)
(***************************************************************************)
EXTENDS Integers, Sequences

CONSTANT MaxUnits        (* bound: units the server sends                  *)

ASSUME UnitsAssumption == MaxUnits \in Nat

VARIABLES peer,      (* the server's end of the connection                  *)
          wire,      (* units the server has sent                           *)
          connected, (* connected_                                          *)
          receiving, (* receiving_                                          *)
          joinable,  (* receivingThread_.joinable()                         *)
          thread,    (* what the receiving thread does next                 *)
          taken,     (* units recv() has returned                           *)
          handled,   (* packets given to the callback                       *)
          todo,      (* calls main() has yet to make, innermost first       *)
          inGame,    (* was the PLAYER_JOIN packet sent                     *)
          outcome    (* how main() ended                                    *)

vars == <<peer, wire, connected, receiving, joinable, thread, taken, handled,
          todo, inGame, outcome>>

serverVars == <<peer, wire>>
threadVars == <<thread, taken, handled>>
mainVars   == <<todo, inGame, outcome>>

Init ==
  /\ peer = "away" /\ wire = 0
  /\ connected = FALSE /\ receiving = FALSE /\ joinable = FALSE
  /\ thread = "none" /\ taken = 0 /\ handled = 0
  /\ todo = <<"connect">>
  /\ inGame = FALSE
  /\ outcome = "running"

----------------------------------------------------------------------------
(* The server.                                                             *)

SendUnit ==
  /\ peer = "up" /\ wire < MaxUnits
  /\ wire' = wire + 1
  /\ UNCHANGED <<peer, connected, receiving, joinable, threadVars, mainVars>>

(* The connection is closed in good order, or reset.                       *)
HangUp ==
  /\ peer = "up"
  /\ peer' \in {"closed", "reset"}
  /\ UNCHANGED <<wire, connected, receiving, joinable, threadVars, mainVars>>

----------------------------------------------------------------------------
(* receivingThread.                                                        *)

Go(from, to) == thread = from /\ thread' = to

TestLoop ==
  /\ Go("test", IF receiving /\ connected THEN "packet" ELSE "ended")
  /\ UNCHANGED <<serverVars, connected, receiving, joinable, taken, handled, mainVars>>

(* packetBuffer_ holds a complete packet after n units have been received; *)
(* the faulty variant is content with a header.                            *)
CompleteHeader(n) == n - 2 * handled >= 1
Complete(n) == n - 2 * handled >= 2

(* Faulty variant: only what recv() has just returned is looked at.        *)
LookNowhere ==
  /\ Go("packet", IF connected THEN "recv" ELSE "test")
  /\ UNCHANGED <<serverVars, connected, receiving, joinable, taken, handled, mainVars>>

(* receivePacket looks into packetBuffer_ before it calls recv().          *)
LookInBuffer ==
  /\ Go("packet", IF ~connected \/ Complete(taken) THEN "test" ELSE "recv")
  /\ handled' = IF connected /\ Complete(taken) THEN handled + 1 ELSE handled
  /\ UNCHANGED <<serverVars, connected, receiving, joinable, taken, mainVars>>

Receive ==
  /\ peer # "reset"
  /\ taken' \in taken + 1 .. wire
  /\ Go("recv", IF Complete(taken') THEN "test" ELSE "packet")
  /\ handled' = IF Complete(taken') THEN handled + 1 ELSE handled
  /\ UNCHANGED <<serverVars, connected, receiving, joinable, mainVars>>

EndOfStream == peer = "reset" \/ (peer = "closed" /\ taken = wire)

(* Faulty variant: the failure of recv() is returned and not remembered.   *)
ReceiveFailsOnly ==
  /\ EndOfStream
  /\ Go("recv", "test")
  /\ UNCHANGED <<serverVars, connected, receiving, joinable, taken, handled, mainVars>>

ReceiveFails ==
  /\ EndOfStream
  /\ Go("recv", "test")
  /\ connected' = FALSE
  /\ UNCHANGED <<serverVars, receiving, joinable, taken, handled, mainVars>>

ThreadStep == TestLoop \/ LookInBuffer \/ Receive \/ ReceiveFails

----------------------------------------------------------------------------
(* main().                                                                 *)

(* The call that main() is in makes the calls `inner` and returns.         *)
Call(name, inner) ==
  /\ todo # <<>> /\ Head(todo) = name
  /\ todo' = inner \o Tail(todo)

Connect ==
  \/ /\ Call("connect", <<"startReceiving">>)
     /\ connected' = TRUE
     /\ peer' = "up"
     /\ UNCHANGED <<wire, receiving, joinable, threadVars, inGame, outcome>>
  \/ /\ Call("connect", <<"~Client">>)
     /\ UNCHANGED <<serverVars, connected, receiving, joinable, threadVars,
                    inGame, outcome>>

StartReceiving ==
  /\ Call("startReceiving", <<"sendPacket">>)
  /\ receiving' = TRUE
  /\ joinable' = TRUE
  /\ thread' = "test"
  /\ UNCHANGED <<serverVars, connected, taken, handled, inGame, outcome>>

(* The PLAYER_JOIN packet: refused without a connection, and perhaps by    *)
(* send() once the server is gone.                                         *)
SendJoin ==
  \/ /\ connected
     /\ Call("sendPacket", <<"loop">>)
     /\ inGame' = TRUE
     /\ UNCHANGED <<serverVars, connected, receiving, joinable, threadVars, outcome>>
  \/ /\ ~connected \/ peer # "up"
     /\ Call("sendPacket", <<"disconnect", "~Client">>)
     /\ UNCHANGED <<serverVars, connected, receiving, joinable, threadVars,
                    inGame, outcome>>

(* while (client.isConnected())                                            *)
LeaveLoop ==
  /\ ~connected
  /\ Call("loop", <<"stopReceiving", "disconnect", "~Client">>)
  /\ UNCHANGED <<serverVars, connected, receiving, joinable, threadVars,
                 inGame, outcome>>

(* Faulty variant: the thread is told to stop and not waited for.          *)
StopWithoutJoin ==
  /\ Call("stopReceiving", <<>>)
  /\ receiving' = FALSE
  /\ UNCHANGED <<serverVars, connected, joinable, threadVars, inGame, outcome>>

StopReceiving ==
  /\ Call("stopReceiving", IF receiving /\ joinable THEN <<"join">> ELSE <<>>)
  /\ receiving' = FALSE
  /\ UNCHANGED <<serverVars, connected, joinable, threadVars, inGame, outcome>>

Join ==
  /\ thread = "ended"
  /\ Call("join", <<>>)
  /\ joinable' = FALSE
  /\ UNCHANGED <<serverVars, connected, receiving, threadVars, inGame, outcome>>

Disconnect ==
  /\ Call("disconnect", IF connected THEN <<"stopReceiving", "close">> ELSE <<>>)
  /\ UNCHANGED <<serverVars, connected, receiving, joinable, threadVars,
                 inGame, outcome>>

CloseSocket ==
  /\ Call("close", <<>>)
  /\ connected' = FALSE
  /\ UNCHANGED <<serverVars, receiving, joinable, threadVars, inGame, outcome>>

Destroy ==
  /\ Call("~Client", <<"disconnect", "~thread">>)
  /\ UNCHANGED <<serverVars, connected, receiving, joinable, threadVars,
                 inGame, outcome>>

(* Destroying a std::thread that is joinable terminates the program.       *)
DestroyThread ==
  /\ Call("~thread", <<>>)
  /\ outcome' = IF joinable THEN "terminated" ELSE "returned"
  /\ UNCHANGED <<serverVars, connected, receiving, joinable, threadVars, inGame>>

MainStep ==
  \/ Connect \/ StartReceiving \/ SendJoin \/ LeaveLoop
  \/ StopReceiving \/ Join \/ Disconnect \/ CloseSocket \/ Destroy \/ DestroyThread

----------------------------------------------------------------------------
Next == SendUnit \/ HangUp \/ ThreadStep \/ MainStep

(* Both threads go on when they can; the server owes nobody anything.      *)
Spec == Init /\ [][Next]_vars /\ WF_vars(ThreadStep) /\ WF_vars(MainStep)

----------------------------------------------------------------------------
(* PROPERTIES                                                              *)

(* Every variable has its type; units are received after they were sent,   *)
(* and packets handled after their units were received.                    *)
ClientTypeOK ==
  /\ peer \in {"away", "up", "closed", "reset"}
  /\ wire \in 0..MaxUnits /\ taken \in 0..wire /\ 2 * handled \in 0..taken
  /\ {connected, receiving, joinable, inGame} \subseteq BOOLEAN
  /\ thread \in {"none", "test", "packet", "recv", "ended"}
  /\ \A i \in 1..Len(todo) :
       todo[i] \in {"connect", "startReceiving", "sendPacket", "loop", "stopReceiving",
                    "join", "disconnect", "close", "~Client", "~thread"}
  /\ outcome \in {"running", "returned", "terminated"}

(* A server that sends and then closes in good order is heard to the end:  *)
(* packets that arrived together in one recv(), or in pieces, have all     *)
(* been handled when the receiving thread ends by itself.                  *)
NothingIsLost ==
  thread = "ended" /\ receiving /\ peer = "closed" => handled = wire \div 2

(* A client that has joined the game ends in good order: the receiving     *)
(* thread, which is the first to see the server go, is joined before it is *)
(* destroyed.  (When the server goes before PLAYER_JOIN is sent,           *)
(* disconnect() finds connected_ lowered, does not join, and the program   *)
(* is terminated.)                                                         *)
PlayersEndInOrder == outcome = "terminated" => ~inGame

(* When the server is gone main() notices and ends: neither the loop nor   *)
(* the join of a thread that is blocked in recv() keeps it.                *)
ServerGoneIsNoticed == peer \in {"closed", "reset"} ~> outcome # "running"
=============================================================================
