-------------------------- MODULE GameClientProofs --------------------------
(***************************************************************************)
(* What the game client does whatever the server sends and whenever it     *)
(* closes: what arrived in good order is handled before the thread ends,   *)
(* and a player's receiving thread is joined before it is destroyed.       *)
(***************************************************************************)
EXTENDS GameClient, SequenceTheorems, TLAPS

(* The calls main() may be in, with those that follow when they return.    *)
Early   == {<<"connect">>, <<"startReceiving">>}
Joining == <<"sendPacket">>
Playing == {<<"loop">>, <<"stopReceiving", "disconnect", "~Client">>}
Waiting == <<"join", "disconnect", "~Client">>
Stopping ==
  {<<"stopReceiving", "close", "~Client">>, <<"stopReceiving", "close", "~thread">>}
Closing ==
  {<<"join", "close", "~Client">>, <<"close", "~Client">>,
   <<"join", "close", "~thread">>, <<"close", "~thread">>}
Ending ==
  {<<"disconnect", "~Client">>, <<"~Client">>, <<"disconnect", "~thread">>,
   <<"~thread">>, <<>>}

Stacks == Early \cup {Joining} \cup Playing \cup {Waiting} \cup Stopping \cup Closing
            \cup Ending

(* Where main() is, what it has done to the receiving thread: a player's   *)
(* way out of the loop leads through the join.                             *)
MainOK ==
  /\ todo \in Stacks
  /\ todo \in Early => ~receiving /\ ~joinable /\ ~inGame /\ thread = "none"
  /\ todo = <<"startReceiving">> => connected
  /\ todo = Joining => ~inGame /\ receiving /\ joinable
  /\ todo \in Playing => receiving /\ joinable
  /\ todo \in Closing => ~receiving
  /\ inGame => todo = <<"loop">> \/ ~connected
  /\ inGame => todo \in Playing \cup {Waiting} \/ ~joinable
  /\ outcome = "terminated" => todo = <<>> /\ ~inGame

(* Unless main() has told the thread to stop, connected_ is only lowered   *)
(* at the end of the stream, with no complete packet left.                 *)
StreamOK ==
  /\ handled \in Nat
  /\ thread = "recv" => ~Complete(taken)
  /\ thread = "ended" /\ receiving => ~connected
  /\ receiving /\ ~connected =>
       thread \in {"test", "ended"} /\ EndOfStream /\ ~Complete(taken)

ClientInv == ClientTypeOK /\ MainOK /\ StreamOK

----------------------------------------------------------------------------
(* The server sends or goes.                                               *)
LEMMA ServerKeepsInv ==
  ASSUME ClientInv, SendUnit \/ HangUp
  PROVE  ClientInv'
<1> USE UnitsAssumption
        DEF ClientInv, ClientTypeOK, MainOK, StreamOK, EndOfStream, Complete,
            threadVars, mainVars
<1>1. CASE SendUnit
  BY <1>1 DEF SendUnit
<1>2. CASE HangUp
  BY <1>2 DEF HangUp
<1> QED
  BY <1>1, <1>2

(* How the calls of one function come before those that follow it.        *)
LEMMA OneMore ==
  ASSUME NEW a, NEW b
  PROVE  <<a>> \o <<b>> = <<a, b>>
<1> DEFINE S == {a, b}
           t == <<a>> \o <<b>>
           u == <<a, b>>
<1>1. <<a>> \in Seq(S) /\ <<b>> \in Seq(S)
  OBVIOUS
<1>2. u \in Seq(S) /\ Len(u) = 2 /\ u[1] = a /\ u[2] = b
  OBVIOUS
<1>3. t = Append(<<a>>, b)
  BY <1>1, AppendIsConcat
<1>4. t \in Seq(S) /\ Len(t) = 2 /\ t[1] = a /\ t[2] = b
  BY <1>1, <1>3, AppendProperties
<1> HIDE DEF t, u
<1>5. \A i \in 1 .. Len(t) : t[i] = u[i]
  BY <1>2, <1>4
<1>6. t = u
  BY <1>2, <1>4, <1>5, SeqEqual
<1> QED
  BY <1>6 DEF t, u

(* Two calls before one.                                                   *)
LEMMA TwoMore ==
  ASSUME NEW a, NEW b, NEW c
  PROVE  <<a, b>> \o <<c>> = <<a, b, c>>
<1> DEFINE S == {a, b, c}
           t == <<a, b>> \o <<c>>
           u == <<a, b, c>>
<1>1. <<a, b>> \in Seq(S) /\ <<c>> \in Seq(S)
  OBVIOUS
<1>2. u \in Seq(S) /\ Len(u) = 3 /\ u[1] = a /\ u[2] = b /\ u[3] = c
  OBVIOUS
<1>3. t = Append(<<a, b>>, c)
  BY <1>1, AppendIsConcat
<1>4. t \in Seq(S) /\ Len(t) = 3 /\ t[1] = a /\ t[2] = b /\ t[3] = c
  BY <1>1, <1>3, AppendProperties
<1> HIDE DEF t, u
<1>5. \A i \in 1 .. Len(t) : t[i] = u[i]
  BY <1>2, <1>4
<1>6. t = u
  BY <1>2, <1>4, <1>5, SeqEqual
<1> QED
  BY <1>6 DEF t, u

(* One call before two.                                                    *)
LEMMA BeforeTwo ==
  ASSUME NEW a, NEW b, NEW c
  PROVE  <<a>> \o <<b, c>> = <<a, b, c>>
<1>1. <<a>> \in Seq({a, b, c}) /\ <<b>> \in Seq({a, b, c}) /\ <<c>> \in Seq({a, b, c})
  OBVIOUS
<1>2. (<<a>> \o <<b>>) \o <<c>> = <<a>> \o (<<b>> \o <<c>>)
  BY <1>1, ConcatAssociative
<1>3. <<a>> \o <<b>> = <<a, b>> /\ <<b>> \o <<c>> = <<b, c>>
  BY OneMore, Zenon
<1>4. <<a, b>> \o <<c>> = <<a, b, c>>
  BY TwoMore, Zenon
<1> QED
  BY ONLY <1>2, <1>3, <1>4

(* The kinds of stacks are disjoint.                                       *)
LEMMA Apart ==
  ASSUME NEW s
  PROVE  /\ s \in Early => s # Joining /\ s \notin Playing /\ s # Waiting
                         /\ s \notin Stopping \cup Closing \cup Ending
         /\ s = Joining => s \notin Playing /\ s # Waiting
                         /\ s \notin Stopping \cup Closing \cup Ending
         /\ s \in Playing => s # Waiting /\ s \notin Stopping \cup Closing \cup Ending
         /\ s = Waiting => s \notin Stopping \cup Closing \cup Ending
         /\ s \in Stopping => s \notin Closing \cup Ending
         /\ s \in Closing => s \notin Ending
         /\ <<"startReceiving">> \in Early /\ <<"loop">> \in Playing
         /\ <<"stopReceiving", "disconnect", "~Client">> \in Playing
         /\ <<"stopReceiving", "disconnect", "~Client">> # <<"loop">>
BY DEF Early, Joining, Playing, Waiting, Stopping, Closing, Ending

(* What main() does next says where it is.                                 *)
LEMMA Heads ==
  ASSUME todo \in Stacks, todo # <<>>
  PROVE  /\ Head(todo) = "connect" => todo = <<"connect">>
         /\ Head(todo) = "startReceiving" => todo = <<"startReceiving">>
         /\ Head(todo) = "sendPacket" => todo = <<"sendPacket">>
         /\ Head(todo) = "loop" => todo = <<"loop">>
         /\ Head(todo) = "stopReceiving" =>
              todo \in {<<"stopReceiving", "disconnect", "~Client">>} \cup Stopping
         /\ Head(todo) = "join" =>
              todo \in {Waiting, <<"join", "close", "~Client">>, <<"join", "close", "~thread">>}
         /\ Head(todo) = "disconnect" =>
              todo \in {<<"disconnect", "~Client">>, <<"disconnect", "~thread">>}
         /\ Head(todo) = "close" =>
              todo \in {<<"close", "~Client">>, <<"close", "~thread">>}
         /\ Head(todo) = "~Client" => todo = <<"~Client">>
         /\ Head(todo) = "~thread" => todo = <<"~thread">>
BY DEF Stacks, Early, Joining, Playing, Waiting, Stopping, Closing, Ending

(* What is left after the first call.                                      *)
LEMMA Tails ==
  ASSUME NEW a, NEW b, NEW c
  PROVE  /\ Tail(<<a>>) = <<>> /\ Tail(<<a, b>>) = <<b>> /\ Tail(<<a, b, c>>) = <<b, c>>
         /\ <<>> \o <<>> = <<>> /\ <<>> \o <<a>> = <<a>> /\ <<>> \o <<a, b>> = <<a, b>>
         /\ <<a>> \o <<>> = <<a>> /\ <<a, b>> \o <<>> = <<a, b>>
         /\ <<a, b, c>> \o <<>> = <<a, b, c>>
<1>1. Tail(<<a>>) = <<>> /\ Tail(<<a, b>>) = <<b>> /\ Tail(<<a, b, c>>) = <<b, c>>
  OBVIOUS
<1>2. <<>> \o <<>> = <<>> /\ <<>> \o <<a>> = <<a>> /\ <<>> \o <<a, b>> = <<a, b>>
  OBVIOUS
<1>3. <<a>> \o <<>> = <<a>> /\ <<a, b>> \o <<>> = <<a, b>>
  OBVIOUS
<1>4. <<a, b, c>> \o <<>> = <<a, b, c>>
  OBVIOUS
<1> QED
  BY <1>1, <1>2, <1>3, <1>4

(* A call that returns at once.                                            *)
LEMMA Returns ==
  ASSUME todo \in Stacks, NEW name, Call(name, <<>>)
  PROVE  /\ name = "stopReceiving" =>
              \/ todo \in Playing /\ todo' = <<"disconnect", "~Client">>
              \/ todo \in Stopping /\ todo' \in Closing
         /\ name = "join" =>
              \/ todo = Waiting /\ todo' = <<"disconnect", "~Client">>
              \/ todo \in Closing /\ todo' \in Closing
         /\ name = "disconnect" => todo \in Ending /\ todo' \in Ending
         /\ name = "close" => todo \in Closing /\ todo' \in Ending
         /\ name = "~thread" => todo \in Ending /\ todo' \in Ending
<1>0. todo # <<>> /\ Head(todo) = name /\ todo' = <<>> \o Tail(todo)
  BY DEF Call
<1>1. CASE name = "stopReceiving"
  <2>1. todo \in {<<"stopReceiving", "disconnect", "~Client">>} \cup Stopping
    BY <1>0, <1>1, Heads
  <2>2. CASE todo = <<"stopReceiving", "disconnect", "~Client">>
    BY <1>0, <1>1, <2>2, Tails, Apart
  <2>3. CASE todo = <<"stopReceiving", "close", "~Client">>
    BY <1>0, <1>1, <2>3, Tails DEF Stopping, Closing
  <2>4. CASE todo = <<"stopReceiving", "close", "~thread">>
    BY <1>0, <1>1, <2>4, Tails DEF Stopping, Closing
  <2> QED
    BY <2>1, <2>2, <2>3, <2>4 DEF Stopping
<1>2. CASE name = "join"
  <2>1. CASE todo = Waiting
    BY <1>0, <1>2, <2>1, Tails DEF Waiting
  <2>2. CASE todo = <<"join", "close", "~Client">>
    BY <1>0, <1>2, <2>2, Tails DEF Closing
  <2>3. CASE todo = <<"join", "close", "~thread">>
    BY <1>0, <1>2, <2>3, Tails DEF Closing
  <2> QED
    BY <1>0, <1>2, <2>1, <2>2, <2>3, Heads
<1>3. CASE name = "disconnect"
  <2>1. CASE todo = <<"disconnect", "~Client">>
    BY <1>0, <1>3, <2>1, Tails DEF Ending
  <2>2. CASE todo = <<"disconnect", "~thread">>
    BY <1>0, <1>3, <2>2, Tails DEF Ending
  <2> QED
    BY <1>0, <1>3, <2>1, <2>2, Heads
<1>4. CASE name = "close"
  <2>1. CASE todo = <<"close", "~Client">>
    BY <1>0, <1>4, <2>1, Tails DEF Closing, Ending
  <2>2. CASE todo = <<"close", "~thread">>
    BY <1>0, <1>4, <2>2, Tails DEF Closing, Ending
  <2> QED
    BY <1>0, <1>4, <2>1, <2>2, Heads
<1>5. CASE name = "~thread"
  BY <1>0, <1>5, Heads, Tails DEF Ending
<1> QED
  BY <1>1, <1>2, <1>3, <1>4, <1>5

(* A call that makes others, the last of a function.                       *)
LEMMA Continues ==
  ASSUME todo \in Stacks, NEW name, NEW inner, Call(name, inner),
         name \in {"connect", "startReceiving", "sendPacket", "loop", "~Client"},
         inner \o <<>> = inner
  PROVE  todo = <<name>> /\ todo' = inner
BY Heads, Tails DEF Call

(* A call that makes others, with more to follow.                          *)
LEMMA Descends ==
  ASSUME todo \in Stacks
  PROVE  /\ Call("stopReceiving", <<"join">>) =>
              \/ todo \in Playing /\ todo # <<"loop">> /\ todo' = Waiting
              \/ todo \in Stopping /\ todo' \in Closing
         /\ Call("disconnect", <<"stopReceiving", "close">>) =>
              todo \in Ending /\ todo' \in Stopping
<1>1. ASSUME Call("stopReceiving", <<"join">>)
      PROVE  \/ todo \in Playing /\ todo # <<"loop">> /\ todo' = Waiting
             \/ todo \in Stopping /\ todo' \in Closing
  <2>0. todo # <<>> /\ Head(todo) = "stopReceiving" /\ todo' = <<"join">> \o Tail(todo)
    BY <1>1 DEF Call
  <2>1. CASE todo = <<"stopReceiving", "disconnect", "~Client">>
    BY <2>0, <2>1, Tails, BeforeTwo, Apart DEF Waiting
  <2>2. CASE todo = <<"stopReceiving", "close", "~Client">>
    BY <2>0, <2>2, Tails, BeforeTwo DEF Stopping, Closing
  <2>3. CASE todo = <<"stopReceiving", "close", "~thread">>
    BY <2>0, <2>3, Tails, BeforeTwo DEF Stopping, Closing
  <2> QED
    BY <2>0, <2>1, <2>2, <2>3, Heads DEF Stopping
<1>2. ASSUME Call("disconnect", <<"stopReceiving", "close">>)
      PROVE  todo \in Ending /\ todo' \in Stopping
  <2>0. todo # <<>> /\ Head(todo) = "disconnect"
        /\ todo' = <<"stopReceiving", "close">> \o Tail(todo)
    BY <1>2 DEF Call
  <2>1. CASE todo = <<"disconnect", "~Client">>
    BY <2>0, <2>1, Tails, TwoMore DEF Stopping, Ending
  <2>2. CASE todo = <<"disconnect", "~thread">>
    BY <2>0, <2>2, Tails, TwoMore DEF Stopping, Ending
  <2> QED
    BY <2>0, <2>1, <2>2, Heads
<1> QED
  BY <1>1, <1>2

(* main() is in the calls it can be in.                                    *)
LEMMA StacksAreCalls ==
  ASSUME NEW s \in Stacks
  PROVE  \A i \in 1..Len(s) :
           s[i] \in {"connect", "startReceiving", "sendPacket", "loop", "stopReceiving",
                     "join", "disconnect", "close", "~Client", "~thread"}
BY DEF Stacks, Early, Joining, Playing, Waiting, Stopping, Closing, Ending

(* A packet is handled when its units have been received.                  *)
LEMMA OnePacketMore ==
  ASSUME NEW h \in Nat, NEW n \in Nat, n - 2 * h >= 2
  PROVE  h + 1 \in Nat /\ 2 * (h + 1) \in 0..n
OBVIOUS

(* The receiving thread.                                                   *)
LEMMA ThreadKeepsInv ==
  ASSUME ClientInv, ThreadStep
  PROVE  ClientInv'
<1> USE UnitsAssumption
        DEF ClientInv, ClientTypeOK, MainOK, StreamOK, EndOfStream, Complete, Go,
            serverVars, mainVars
<1>1. CASE TestLoop
  BY <1>1 DEF TestLoop
<1>2. CASE LookInBuffer
  BY <1>2 DEF LookInBuffer
<1>3. CASE Receive
  <2>1. taken \in Nat /\ wire \in Nat /\ taken' \in Nat /\ taken' > taken /\ taken' <= wire
    BY <1>3 DEF Receive
  <2>2. CASE Complete(taken')
    <3>1. handled' = handled + 1 /\ thread = "recv" /\ thread' = "test"
      BY <1>3, <2>2 DEF Receive
    <3>2. handled' \in Nat /\ 2 * handled' \in 0..taken'
      BY <2>1, <2>2, <3>1, OnePacketMore
    <3>3. ~(receiving /\ ~connected) /\ todo \notin Early
      BY <3>1
    <3>4. UNCHANGED <<serverVars, connected, receiving, joinable, mainVars>>
      BY <1>3 DEF Receive
    <3>5. MainOK' /\ StreamOK'
      BY <3>1, <3>2, <3>3, <3>4
    <3>6. wire' \in 0..MaxUnits /\ taken' \in 0..wire'
      BY <2>1, <3>4
    <3>7. ClientTypeOK'
      BY ONLY <3>1, <3>2, <3>4, <3>6, ClientTypeOK
         DEF ClientTypeOK, serverVars, mainVars
    <3> QED
      BY <3>5, <3>7
  <2>3. CASE ~Complete(taken')
    BY <1>3, <2>1, <2>3 DEF Receive
  <2> QED
    BY <2>2, <2>3
<1>4. CASE ReceiveFails
  <2>1. thread = "recv" /\ todo \notin Early /\ todo # <<"startReceiving">>
    BY <1>4, Apart DEF ReceiveFails
  <2> QED
    BY <1>4, <2>1 DEF ReceiveFails
<1> QED
  BY <1>1, <1>2, <1>3, <1>4 DEF ThreadStep

(* main().  Each step has its effect on the stack and on the rest.         *)
LEMMA MainKeepsInv ==
  ASSUME ClientInv, MainStep
  PROVE  ClientInv'
<1> USE UnitsAssumption, Apart, StacksAreCalls
        DEF ClientInv, ClientTypeOK, MainOK, StreamOK, EndOfStream, Complete,
            serverVars, threadVars
<1>0. todo # <<>> /\ outcome # "terminated"
  BY DEF MainStep, Connect, StartReceiving, SendJoin, LeaveLoop, StopReceiving, Join,
         Disconnect, CloseSocket, Destroy, DestroyThread, Call
<1>1. CASE Connect
  <2>1. todo \in Early
    BY <1>1, Continues, Tails DEF Connect, Early
  <2>2. CASE todo' \in Early /\ connected' = TRUE /\ peer' = "up"
    <3>1. todo' \in Stacks
      BY <2>2 DEF Stacks
    <3>2. UNCHANGED <<wire, receiving, joinable, threadVars, inGame, outcome>>
      BY <1>1 DEF Connect
    <3>3. MainOK'
      BY <1>0, <2>1, <2>2, <3>1, <3>2
    <3>4. StreamOK'
      BY <2>1, <2>2, <3>2
    <3>5. ClientTypeOK'
      BY <2>2, <3>1, <3>2
    <3> QED
      BY <3>3, <3>4, <3>5
  <2>3. CASE todo' \in Ending /\ UNCHANGED <<connected, peer>>
    <3>1. todo' \in Stacks
      BY <2>3 DEF Stacks
    <3>2. UNCHANGED <<wire, receiving, joinable, threadVars, inGame, outcome>>
      BY <1>1 DEF Connect
    <3>3. MainOK'
      BY <1>0, <2>1, <2>3, <3>1, <3>2
    <3>4. StreamOK'
      BY <2>1, <2>3, <3>2
    <3>5. ClientTypeOK'
      BY <2>3, <3>1, <3>2
    <3> QED
      BY <3>3, <3>4, <3>5
  <2>4. CASE Call("connect", <<"startReceiving">>) /\ connected' = TRUE /\ peer' = "up"
    <3>1. todo' = <<"startReceiving">>
      BY <2>4, Continues, Tails
    <3> QED
      BY <2>2, <2>4, <3>1 DEF Early
  <2>5. CASE Call("connect", <<"~Client">>) /\ UNCHANGED <<connected, peer>>
    <3>1. todo' = <<"~Client">>
      BY <2>5, Continues, Tails
    <3> QED
      BY <2>3, <2>5, <3>1 DEF Ending
  <2> QED
    BY ONLY <1>1, <2>4, <2>5 DEF Connect, serverVars
<1>2. CASE StartReceiving
  <2>1. todo \in Early /\ todo = <<"startReceiving">> /\ todo' = Joining
    BY <1>2, Continues, Tails DEF StartReceiving, Early, Joining
  <2>2. todo' \in Stacks
    BY <2>1 DEF Stacks
  <2> QED
    BY <1>0, <1>2, <2>1, <2>2 DEF StartReceiving
<1>3. CASE SendJoin
  <2>1. todo = Joining
    BY <1>3, Continues, Tails DEF SendJoin, Joining
  <2>2. \/ todo' = <<"loop">> /\ inGame' = TRUE /\ connected
        \/ todo' \in Ending /\ UNCHANGED inGame
    BY <1>3, Continues, Tails DEF SendJoin, Ending
  <2>3. todo' \in Stacks
    BY <2>2 DEF Stacks
  <2>4. UNCHANGED <<serverVars, connected, receiving, joinable, threadVars, outcome>>
    BY <1>3 DEF SendJoin
  <2>5. MainOK'
    BY <1>0, <2>1, <2>2, <2>3, <2>4
  <2>6. StreamOK'
    BY <2>4
  <2>7. ClientTypeOK'
    BY <2>2, <2>3, <2>4
  <2> QED
    BY <2>5, <2>6, <2>7
<1>4. CASE LeaveLoop
  <2>1. todo = <<"loop">> /\ todo' = <<"stopReceiving", "disconnect", "~Client">>
    BY <1>4, Continues, Tails DEF LeaveLoop
  <2>2. todo' \in Stacks
    BY <2>1 DEF Stacks
  <2> QED
    BY <1>0, <1>4, <2>1, <2>2 DEF LeaveLoop
<1>5. CASE StopReceiving
  <2>1. CASE receiving /\ joinable
    <3>1. \/ todo \in Playing /\ todo # <<"loop">> /\ todo' = Waiting
          \/ todo \in Stopping /\ todo' \in Closing
      BY <1>5, <2>1, Descends DEF StopReceiving
    <3>2. todo' \in Stacks
      BY <3>1 DEF Stacks
    <3> QED
      BY <1>0, <1>5, <3>1, <3>2 DEF StopReceiving
  <2>2. CASE ~(receiving /\ joinable)
    <3>1. todo \in Stopping /\ todo' \in Closing
      BY <1>5, <2>2, Returns DEF StopReceiving
    <3>2. todo' \in Stacks
      BY <3>1 DEF Stacks
    <3> QED
      BY <1>0, <1>5, <3>1, <3>2 DEF StopReceiving
  <2> QED
    BY <2>1, <2>2
<1>6. CASE Join
  <2>1. \/ todo = Waiting /\ todo' \in Ending
        \/ todo \in Closing /\ todo' \in Closing
    BY <1>6, Returns DEF Join, Ending
  <2>2. todo' \in Stacks
    BY <2>1 DEF Stacks
  <2> QED
    BY <1>0, <1>6, <2>1, <2>2 DEF Join
<1>7. CASE Disconnect
  <2>1. \/ todo \in Ending /\ todo' \in Stopping /\ connected
        \/ todo \in Ending /\ todo' \in Ending
    BY <1>7, Returns, Descends DEF Disconnect
  <2>2. todo' \in Stacks
    BY <2>1 DEF Stacks
  <2> QED
    BY <1>0, <1>7, <2>1, <2>2 DEF Disconnect
<1>8. CASE CloseSocket
  <2>1. todo \in Closing /\ todo' \in Ending
    BY <1>8, Returns DEF CloseSocket
  <2>2. todo' \in Stacks
    BY <2>1 DEF Stacks
  <2> QED
    BY <1>0, <1>8, <2>1, <2>2 DEF CloseSocket
<1>9. CASE Destroy
  <2>1. todo \in Ending /\ todo' \in Ending
    BY <1>9, Continues, Tails DEF Destroy, Ending
  <2>2. todo' \in Stacks
    BY <2>1 DEF Stacks
  <2> QED
    BY <1>0, <1>9, <2>1, <2>2 DEF Destroy
<1>10. CASE DestroyThread
  <2>1. todo \in Ending /\ todo' = <<>>
    BY <1>10, Heads, Tails, Returns DEF DestroyThread, Call
  <2>2. todo' \in Ending /\ todo' \in Stacks
    BY <2>1 DEF Ending, Stacks
  <2> QED
    BY <1>0, <1>10, <2>1, <2>2 DEF DestroyThread
<1> QED
  BY <1>1, <1>2, <1>3, <1>4, <1>5, <1>6, <1>7, <1>8, <1>9, <1>10 DEF MainStep

(* The invariant holds from the start on.                                  *)
LEMMA ClientInvariant == Spec => []ClientInv
<1>1. Init => ClientInv
  <2> SUFFICES ASSUME Init PROVE ClientInv
    OBVIOUS
  <2>1. todo \in Early /\ todo \in Stacks /\ todo # <<"startReceiving">>
    BY DEF Init, Early, Stacks
  <2>2. MainOK /\ StreamOK
    BY <2>1, Apart DEF Init, MainOK, StreamOK
  <2>3. wire \in 0..MaxUnits /\ taken \in 0..wire /\ 2 * handled \in 0..taken
    BY UnitsAssumption DEF Init
  <2> QED
    BY <2>1, <2>2, <2>3, StacksAreCalls DEF Init, ClientInv, ClientTypeOK
<1>2. ClientInv /\ [Next]_vars => ClientInv'
  <2> SUFFICES ASSUME ClientInv, [Next]_vars PROVE ClientInv'
    OBVIOUS
  <2>1. CASE UNCHANGED vars
    BY <2>1 DEF vars, ClientInv, ClientTypeOK, MainOK, StreamOK, EndOfStream, Complete
  <2> QED
    BY <2>1, ServerKeepsInv, ThreadKeepsInv, MainKeepsInv DEF Next
<1> QED
  BY <1>1, <1>2, PTL DEF Spec

----------------------------------------------------------------------------
(* Theorems.                                                               *)

(* The client is well-typed: nothing is received before it was sent, or    *)
(* handled before it was received.                                         *)
THEOREM ClientType == Spec => []ClientTypeOK
BY ClientInvariant, PTL DEF ClientInv

(* A stream that is closed in good order is handled to its end.            *)
THEOREM StreamIsHandled == Spec => []NothingIsLost
<1>1. ClientInv => NothingIsLost
  <2> SUFFICES ASSUME ClientInv, thread = "ended", receiving, peer = "closed"
               PROVE  handled = wire \div 2
    BY DEF NothingIsLost
  <2>1. taken = wire /\ ~Complete(taken)
    BY DEF ClientInv, StreamOK, EndOfStream
  <2>2. handled \in Nat /\ wire \in Nat /\ 2 * handled <= wire /\ wire - 2 * handled < 2
    BY <2>1, UnitsAssumption DEF ClientInv, StreamOK, ClientTypeOK, Complete
  <2> QED
    BY <2>2
<1> QED
  BY <1>1, ClientInvariant, PTL

(* Whoever has joined the game leaves it with the receiving thread joined. *)
THEOREM PlayersAreJoined == Spec => []PlayersEndInOrder
<1>1. ClientInv => PlayersEndInOrder
  BY DEF ClientInv, MainOK, PlayersEndInOrder
<1> QED
  BY <1>1, ClientInvariant, PTL
=============================================================================
