------------------------- MODULE SerialServerProofs -------------------------
(***************************************************************************)
(* What holds when packets are handled one at a time, for any number of    *)
(* clients: the clients' lists are right between packets, and the server   *)
(* plays the game of module LiarLine.                                      *)
(***************************************************************************)
EXTENDS SerialServer, RoleDealingProofs

----------------------------------------------------------------------------
(* The lists the clients show, when packets do not overlap.                *)

ListOf(S) == [q \in S |-> score[q]]

Newcomer == <<"welcome", "joined">>
Announce == <<"joined">>
Farewell == <<"left", "update">>
Update   == <<"update">>

(* Who has not joined, or has left, is not a player.                       *)
SeatsOK == \A c \in Ids : pc[c] \in {"new", "gone", "enough"} => c \notin players

(* One thread at most has a packet to handle.                              *)
SoloOK == \A c, d \in Ids : pc[c] \notin Home /\ pc[d] \notin Home => c = d

(* What a thread has to send, and where in the callback it is meanwhile.   *)
ErrandsOK ==
  \A c \in Ids :
    \/ errand[c].todo = <<>> /\ errand[c].at = "read"
    \/ errand[c].todo \in {Newcomer, Announce} /\ pc[c] = "canStart" /\ c \in players
    \/ errand[c].todo = Update /\ pc[c] \in {"canStart", "enough"}
    \/ errand[c].todo = Farewell /\ pc[c] = "enough"

(* p has been sent the packet under way.                                   *)
Reached(c, p) == errand[c].at = "send" /\ p \notin errand[c].to

(* The news a thread has read, if it has, are those of now.                *)
IsNews(c, list) == errand[c].at # "read" => errand[c].news = list

(* A newcomer is sent the list; the others do not know it yet.             *)
Welcoming(c) ==
  /\ IsNews(c, ListOf(players))
  /\ errand[c].at = "send" => errand[c].to \subseteq {c}
  /\ Reached(c, c) => shown[c] = ListOf(players)
  /\ \A p \in players \ {c} : shown[p] = ListOf(players \ {c})

(* Then the others are told of it.                                         *)
Announcing(c) ==
  /\ IsNews(c, ListOf({c}))
  /\ errand[c].at = "send" => c \notin errand[c].to
  /\ shown[c] = ListOf(players)
  /\ \A p \in players \ {c} :
       shown[p] = IF Reached(c, p) THEN ListOf(players) ELSE ListOf(players \ {c})

(* A new list does away with whatever there was before it.                 *)
Updating(c) ==
  /\ IsNews(c, ListOf(players))
  /\ \A p \in players : Reached(c, p) => shown[p] = ListOf(players)

(* A list is out of date while a thread is in clearRound or has something  *)
(* to send, and only then.                                                 *)
ListsOK ==
  /\ (\A c \in Ids : ~Busy(c) /\ pc[c] \notin ClearStages)
       => \A p \in players : shown[p] = ListOf(players)
  /\ \A c \in Ids : /\ errand[c].todo = Newcomer => Welcoming(c)
                    /\ errand[c].todo = Announce => Announcing(c)
                    /\ errand[c].todo = Update => Updating(c)

ListInv == SeatsOK /\ SoloOK /\ ErrandsOK /\ ListsOK

(* The four errands there are.                                             *)
LEMMA ErrandFacts ==
  /\ Head(Newcomer) = "welcome" /\ Tail(Newcomer) = Announce
  /\ Head(Announce) = "joined" /\ Tail(Announce) = <<>>
  /\ Head(Farewell) = "left" /\ Tail(Farewell) = Update
  /\ Head(Update) = "update" /\ Tail(Update) = <<>>
  /\ Newcomer # <<>> /\ Announce # <<>> /\ Farewell # <<>> /\ Update # <<>>
  /\ Newcomer # Announce /\ Newcomer # Update /\ Newcomer # Farewell
  /\ Announce # Update /\ Announce # Farewell /\ Update # Farewell
BY SMT DEF Newcomer, Announce, Farewell, Update

(* While a thread handles its packet, the others have nothing to send.     *)
LEMMA OthersAreIdle ==
  ASSUME ErrandsOK, NEW c \in Ids, Alone(c)
  PROVE  \A d \in Ids \ {c} : /\ pc[d] \in Home /\ pc[d] \notin ClearStages
                            /\ errand[d].todo = <<>> /\ errand[d].at = "read"
BY DEF Alone, ErrandsOK, Home, ClearStages

(* What the steps of the game mean for the lists.                          *)
Joins(c)   == pc[c] = "new" /\ pc'[c] = "canStart" /\ AddPlayer(c)
Removes(c) == pc[c] = "remove" /\ pc'[c] \in {"clearFlag", "enough"} /\ RemovePlayer(c)
Awards(c)  == pc[c] = "score" /\ pc'[c] = "clearFlag" /\ UNCHANGED players
Clears(c)  == /\ {pc[c], pc'[c]} \subseteq ClearStages
              /\ UNCHANGED <<players, score>>
Cleared(c) == /\ pc[c] = "clearRoles"
              /\ pc'[c] = IF c \in players THEN "canStart" ELSE "enough"
              /\ UNCHANGED <<players, score>>
Passes(c)  == /\ pc[c] \notin ClearStages \cup {"new"}
              /\ pc'[c] \notin ClearStages \cup {"new", "enough"}
              /\ pc'[c] = "gone" => c \notin players
              /\ UNCHANGED <<players, score>>

(* There are no other steps.                                               *)
LEMMA GameStepKinds ==
  ASSUME TypeOK, SeatsOK, NEW c \in Ids, DealStep(c) \/ OtherStep(c)
  PROVE  /\ pc' = [pc EXCEPT ![c] = pc'[c]]
         /\ \/ Joins(c) \/ Removes(c) \/ Awards(c)
            \/ Clears(c) \/ Cleared(c) \/ Passes(c)
<1>0. pc \in [Ids -> Stages]
  BY DEF TypeOK
<1>1. CASE Deal(c)
  BY <1>0, <1>1 DEF Deal, Goto, Reads, gameVars, Return, Passes, ClearStages
<1>2. CASE DealStep(c) /\ UNCHANGED vars
  <2>1. pc[c] = "deal" /\ UNCHANGED <<pc, players, score>>
    BY <1>2 DEF DealStep, ReadTopic, ReadWord, ReadLiar, ReadRoles, Send, Dealt, At,
                vars, gameVars, Deal, Goto
  <2> QED
    BY <1>0, <2>1 DEF Passes, ClearStages
<1>3. CASE StartRoundStep(c)
  BY <1>0, <1>3 DEF StartRoundStep, TestCanStart, TestActive, BeginRound, PickWord, PickLiar,
     DealRoles, Goto, Reads, gameVars, Return, Passes, ClearStages
<1>4. CASE VoteStep(c)
  <2>1. CASE ApplyScores(c)
    BY <1>0, <2>1 DEF ApplyScores, Goto, CalculateAndApplyScores, Awards
  <2>2. CASE Submit(c) \/ Record(c)
    BY <1>0, <2>2 DEF Submit, Record, Goto, Reads, gameVars, Passes, ClearStages
  <2>3. CASE Lookup(c) \/ ReadTotal(c) \/ Snapshot(c) \/ StopCounting(c) \/ ReadTally(c)
    BY <1>0, <2>3 DEF Lookup, ReadTotal, Snapshot, StopCounting, ReadTally, Goto, Reads,
       gameVars, Passes, ClearStages
  <2>4. CASE CountVote(c)
    BY <1>0, <2>4 DEF CountVote, gameVars, Passes, ClearStages
  <2>5. CASE ReadLiarAndJudge(c)
    BY <1>0, <2>5 DEF ReadLiarAndJudge, Goto, Reads, gameVars, Passes, ClearStages
  <2> QED
    BY <1>4, <2>1, <2>2, <2>3, <2>4, <2>5 DEF VoteStep
<1>5. CASE ClearStep(c)
  BY <1>0, <1>5 DEF ClearStep, StoreFlag, StoreTopic, StoreWord, StoreLiar, StoreBallot,
     StoreRole, EndClear, Goto, Reads, gameVars, ClearStages, Clears, Cleared
<1>6. CASE LeaveStep(c)
  BY <1>0, <1>6 DEF LeaveStep, Remove, TestEnough, Goto, Reads, gameVars, Removes, Passes,
     ClearStages, SeatsOK
<1>7. CASE Packet(c)
  BY <1>0, <1>7 DEF Packet, Join, VoteCommand, Leave, Goto, Reads, gameVars, Joins, Passes,
     ClearStages
<1>8. DealStep(c) => Deal(c) \/ UNCHANGED vars
  BY DEF DealStep, ReadTopic, ReadWord, ReadLiar, ReadRoles, Send, Dealt
<1> QED
  BY <1>1, <1>2, <1>3, <1>4, <1>5, <1>6, <1>7, <1>8 DEF OtherStep, HandlerStep, LockedStep

(* Only the lists of the thread that has a packet are of interest.         *)
LEMMA ListsOfOne ==
  ASSUME NEW c \in Ids,
         \A d \in Ids \ {c} : errand'[d].todo = <<>>,
         errand'[c].todo = <<>> /\ pc'[c] \notin ClearStages
           => \A p \in players' : shown'[p] = ListOf(players)',
         errand'[c].todo = Newcomer => Welcoming(c)',
         errand'[c].todo = Announce => Announcing(c)',
         errand'[c].todo = Update => Updating(c)'
  PROVE  ListsOK'
BY ErrandFacts DEF ListsOK, Busy

(* Sending the news brings the lists up to date, packet by packet.         *)
LEMMA MailKeepsLists ==
  ASSUME TypeOK, LobbyOK, ListInv, NEW c \in Ids, Alone(c), MailStep(c)
  PROVE  ListInv'
<1>0. /\ errand = [d \in Ids |-> errand[d]] /\ shown = [d \in Ids |-> shown[d]]
      /\ IsErrand(errand[c])
  BY DEF LobbyOK, MailOK
<1>1. UNCHANGED <<pc, players, score>>
  BY DEF MailStep, Read, List, SendNews, Sent, dealVars, vars, gameVars
<1>2. SeatsOK' /\ SoloOK'
  BY <1>1 DEF ListInv, SeatsOK, SoloOK
<1>3. \A S : ListOf(S)' = ListOf(S)
  BY <1>1 DEF ListOf
<1>4. \A d \in Ids \ {c} : errand[d].todo = <<>> /\ errand[d].at = "read"
  BY OthersAreIdle DEF ListInv
<1>5. /\ errand[c].todo \in {Newcomer, Announce, Update, Farewell}
      /\ pc[c] \in {"canStart", "enough"}
      /\ errand[c].todo \in {Newcomer, Announce} => c \in players
      /\ errand[c].todo = Newcomer => Welcoming(c)
      /\ errand[c].todo = Announce => Announcing(c)
      /\ errand[c].todo = Update => Updating(c)
  <2>1. errand[c].todo # <<>>
    BY DEF MailStep, Read, List, SendNews, Sent, Mails, Busy
  <2>2. /\ errand[c].todo \in {Newcomer, Announce, Update, Farewell}
        /\ pc[c] \in {"canStart", "enough"}
        /\ errand[c].todo \in {Newcomer, Announce} => c \in players
    BY <2>1, ErrandFacts DEF ListInv, ErrandsOK
  <2> QED
    BY <2>2 DEF ListInv, ListsOK
<1>6. ASSUME errand'[c].todo = errand[c].todo, errand' = [errand EXCEPT ![c] = errand'[c]]
      PROVE  ErrandsOK' /\ \A d \in Ids \ {c} : errand'[d].todo = <<>>
  <2>1. \A d \in Ids \ {c} : errand'[d] = errand[d]
    BY <1>0, <1>6
  <2> QED
    BY <1>1, <1>4, <1>5, <1>6, <2>1, ErrandFacts DEF ListInv, ErrandsOK
<1>7. CASE Read(c)
  <2>1. /\ errand'[c].todo = errand[c].todo /\ errand'[c].at = "list"
        /\ errand'[c].news = ListOf(About(c))
        /\ errand' = [errand EXCEPT ![c] = errand'[c]] /\ UNCHANGED shown
    BY <1>0, <1>7 DEF Read, ListOf, IsErrand
  <2>2. /\ errand[c].todo \in {Newcomer, Update} => About(c) = players
        /\ errand[c].todo = Announce => About(c) = {c}
    BY ErrandFacts DEF About, Current
  <2>3. Mails(c, "read")
    BY <1>7 DEF Read
  <2>4. /\ errand'[c].todo = Newcomer => Welcoming(c)'
        /\ errand'[c].todo = Announce => Announcing(c)'
        /\ errand'[c].todo = Update => Updating(c)'
    BY <1>1, <1>3, <1>5, <2>1, <2>2, <2>3
       DEF Mails, Welcoming, Announcing, Updating, IsNews, Reached
  <2>5. ListsOK'
    BY <1>5, <1>6, <2>1, <2>4, ListsOfOne, ErrandFacts
  <2> QED
    BY <1>2, <1>6, <2>1, <2>5 DEF ListInv
<1>8. CASE List(c)
  <2>1. /\ errand'[c].todo = errand[c].todo /\ errand'[c].at = "send"
        /\ errand'[c].news = errand[c].news /\ errand'[c].to = Recipients(c)
        /\ errand' = [errand EXCEPT ![c] = errand'[c]] /\ UNCHANGED shown
        /\ errand[c].at = "list"
    BY <1>0, <1>8 DEF List, IsErrand, Mails
  <2>2. players \subseteq Connections
    BY <1>5, OthersAreIdle DEF Connections, Online, ListInv, Home, TypeOK, GameTypeOK
  <2>3. /\ errand[c].todo = Newcomer => Recipients(c) = {c}
        /\ errand[c].todo = Update => players \subseteq Recipients(c)
        /\ errand[c].todo = Announce => Recipients(c) = Connections \ {c}
    BY <2>2, ErrandFacts DEF Recipients, Current
  <2>4. /\ errand'[c].todo = Newcomer => Welcoming(c)'
        /\ errand'[c].todo = Announce => Announcing(c)'
        /\ errand'[c].todo = Update => Updating(c)'
    BY <1>1, <1>3, <1>5, <2>1, <2>2, <2>3
       DEF Welcoming, Announcing, Updating, IsNews, Reached
  <2>5. ListsOK'
    BY <1>5, <1>6, <2>1, <2>4, ListsOfOne, ErrandFacts
  <2> QED
    BY <1>2, <1>6, <2>1, <2>5 DEF ListInv
<1>9. ASSUME NEW p \in Ids, SendNews(c, p) PROVE ListInv'
  <2>1. /\ errand'[c].todo = errand[c].todo /\ errand'[c].at = "send"
        /\ errand'[c].news = errand[c].news /\ errand'[c].to = errand[c].to \ {p}
        /\ errand' = [errand EXCEPT ![c] = errand'[c]]
        /\ errand[c].at = "send" /\ p \in errand[c].to
    BY <1>0, <1>9 DEF SendNews, IsErrand, Mails
  <2>2. p \in players => Online(p)
    BY <1>5, OthersAreIdle DEF Online, ListInv, Home
  <2>3. /\ \A q \in Ids \ {p} : shown'[q] = shown[q]
        /\ p \in players => shown'[p] = Handled(Current(c), errand[c].news, shown[p])
    BY <1>0, <1>9, <2>2 DEF SendNews
  <2>4. /\ errand[c].todo = Newcomer => Current(c) = "welcome"
        /\ errand[c].todo = Announce => Current(c) = "joined"
        /\ errand[c].todo = Update => Current(c) = "update"
    BY ErrandFacts DEF Current
  <2>5. players \subseteq Ids
    BY DEF TypeOK, GameTypeOK
  <2>6. errand'[c].todo = Newcomer => Welcoming(c)'
    BY <1>1, <1>3, <1>5, <2>1, <2>3, <2>4, <2>5 DEF Welcoming, IsNews, Reached, Handled
  <2>7. errand'[c].todo = Update => Updating(c)'
    BY <1>1, <1>3, <1>5, <2>1, <2>3, <2>4, <2>5 DEF Updating, IsNews, Reached, Handled
  <2>8. ASSUME c \in players
        PROVE  Handled("joined", ListOf({c}), ListOf(players \ {c})) = ListOf(players)
    <3>1. (players \ {c}) \cup {c} = players
      BY <2>8
    <3> QED
      BY <3>1 DEF Handled, ListOf
  <2>9. errand'[c].todo = Announce => Announcing(c)'
    BY <1>1, <1>3, <1>5, <2>1, <2>3, <2>4, <2>5, <2>8 DEF Announcing, IsNews, Reached
  <2>10. ListsOK'
    BY <1>5, <1>6, <2>1, <2>6, <2>7, <2>9, ListsOfOne, ErrandFacts
  <2> QED
    BY <1>2, <1>6, <2>1, <2>10 DEF ListInv
<1>10. CASE Sent(c)
  <2>1. /\ errand'[c].todo = Tail(errand[c].todo) /\ errand'[c].at = "read"
        /\ \A d \in Ids \ {c} : errand'[d] = errand[d]
        /\ UNCHANGED shown
        /\ errand[c].at = "send" /\ errand[c].to = {}
    BY <1>0, <1>10 DEF Sent, Mails, NoErrand
  <2>2. ErrandsOK'
    BY <1>1, <1>4, <1>5, <2>1, ErrandFacts DEF ListInv, ErrandsOK
  <2>3. errand'[c].todo = <<>> => \A p \in players : shown[p] = ListOf(players)
    <3>1. errand'[c].todo = <<>> => errand[c].todo \in {Announce, Update}
      BY <1>5, <2>1, ErrandFacts
    <3> QED
      BY <1>5, <2>1, <3>1 DEF Announcing, Updating, Reached
  <2>4. /\ errand'[c].todo # Newcomer
        /\ errand'[c].todo = Announce => errand[c].todo = Newcomer
    BY <1>5, <2>1, ErrandFacts
  <2>5. errand'[c].todo = Announce => Announcing(c)'
    BY <1>1, <1>3, <1>5, <2>1, <2>4 DEF Welcoming, Announcing, IsNews, Reached
  <2>6. errand'[c].todo = Update => Updating(c)'
    BY <2>1 DEF Updating, IsNews, Reached
  <2>7. \A d \in Ids \ {c} : errand'[d].todo = <<>>
    BY <1>4, <2>1
  <2>8. ListsOK'
    BY <1>1, <1>3, <2>1, <2>3, <2>4, <2>5, <2>6, <2>7, ListsOfOne
  <2> QED
    BY <1>2, <2>2, <2>8 DEF ListInv
<1> QED
  BY <1>7, <1>8, <1>9, <1>10 DEF MailStep

(* A step of the game puts the lists out of date only when it leaves a     *)
(* packet to send, or is on its way to one.                                *)
LEMMA GameStepKeepsLists ==
  ASSUME TypeOK, LobbyOK, ListInv, NEW c \in Ids, Alone(c), GameStep(c)
  PROVE  ListInv'
<1>0. /\ errand = [d \in Ids |-> errand[d]] /\ shown = [d \in Ids |-> shown[d]]
      /\ IsErrand(errand[c]) /\ pc \in [Ids -> Stages] /\ players \subseteq Ids
      /\ score \in [Ids -> Nat]
  BY DEF LobbyOK, MailOK, TypeOK, GameTypeOK
<1>1. /\ pc' = [pc EXCEPT ![c] = pc'[c]]
      /\ \/ Joins(c) \/ Removes(c) \/ Awards(c)
         \/ Clears(c) \/ Cleared(c) \/ Passes(c)
  BY GameStepKinds DEF GameStep, ListInv
<1>2. \A d \in Ids \ {c} : pc'[d] = pc[d]
  BY <1>0, <1>1
<1>3. \A d \in Ids \ {c} : /\ pc[d] \in Home /\ pc[d] \notin ClearStages
                          /\ errand[d].todo = <<>> /\ errand[d].at = "read"
  BY OthersAreIdle DEF ListInv
<1>4. errand[c].todo = <<>> /\ errand[c].at = "read"
  BY ErrandFacts DEF GameStep, Busy, ListInv, ErrandsOK
<1>5. /\ errand'[c].todo = Due(c) /\ errand'[c].at = "read"
      /\ \A d \in Ids \ {c} : errand'[d] = errand[d]
  BY <1>0, <1>4 DEF GameStep, IsErrand
<1>6. SoloOK'
  BY <1>2, <1>3 DEF SoloOK
<1>7. /\ pc[c] \notin ClearStages => \A p \in players : shown[p] = ListOf(players)
      /\ pc[c] \in {"new", "gone", "enough"} => c \notin players
      /\ \A d \in Ids : pc[d] \in {"new", "gone", "enough"} => d \notin players
  BY <1>3, <1>4 DEF ListInv, ListsOK, SeatsOK, Busy
<1>8. /\ Joins(c) => Due(c) = Newcomer
      /\ Removes(c) => Due(c) = IF pc'[c] = "enough" THEN Farewell ELSE <<>>
      /\ Awards(c) \/ Clears(c) \/ Passes(c) => Due(c) = <<>>
      /\ Cleared(c) => Due(c) = IF c \in players THEN Update ELSE Farewell
  BY DEF Due, Joins, Removes, Awards, Clears, Cleared, Passes, Newcomer, Update, Farewell,
         ClearStages
<1>9. SeatsOK'
  BY <1>1, <1>2, <1>7
     DEF SeatsOK, Joins, Removes, Awards, Clears, Cleared, Passes, AddPlayer, RemovePlayer,
         ClearStages
<1>10. ErrandsOK'
  BY <1>1, <1>3, <1>5, <1>8
     DEF ErrandsOK, Joins, Removes, Awards, Clears, Cleared, Passes, AddPlayer, ClearStages
<1>11. \A d \in Ids \ {c} : errand'[d].todo = <<>>
  BY <1>3, <1>5
<1>12. \A p \in Ids : p \notin players \ players' => shown'[p] = shown[p]
  BY DEF GameStep
<1>13. ASSUME errand'[c].todo = <<>>, pc'[c] \notin ClearStages
       PROVE  \A p \in players' : shown'[p] = ListOf(players)'
  <2>1. Passes(c)
    BY <1>1, <1>5, <1>8, <1>13, ErrandFacts
       DEF Joins, Removes, Awards, Clears, Cleared, ClearStages
  <2> QED
    BY <1>0, <1>7, <1>12, <2>1 DEF Passes, ListOf
<1>14. ASSUME errand'[c].todo = Newcomer PROVE Welcoming(c)'
  <2>1. Joins(c)
    BY <1>1, <1>5, <1>8, <1>14, ErrandFacts
  <2>2. c \notin players /\ players' \ {c} = players /\ c \notin players \ players'
    BY <2>1 DEF Joins, AddPlayer
  <2>3. ListOf(players \ {c})' = ListOf(players)
    BY <1>0, <2>1, <2>2 DEF ListOf, Joins, AddPlayer
  <2>4. \A p \in players : shown'[p] = ListOf(players)
    BY <1>0, <1>7, <1>12, <2>1, <2>2 DEF Joins, ClearStages, AddPlayer
  <2> QED
    BY <1>5, <2>2, <2>3, <2>4 DEF Welcoming, IsNews, Reached
<1>15. errand'[c].todo # Announce
  BY <1>1, <1>5, <1>8, ErrandFacts
<1>16. Updating(c)'
  BY <1>5 DEF Updating, IsNews, Reached
<1>17. ListsOK'
  BY <1>11, <1>13, <1>14, <1>15, <1>16, ListsOfOne
<1> QED
  BY <1>6, <1>9, <1>10, <1>17 DEF ListInv

(* Nothing happens to the lists when nothing happens.                      *)
LEMMA SerialStutter ==
  ASSUME ListInv, UNCHANGED lobbyVars
  PROVE  ListInv'
<1>1. UNCHANGED <<pc, players, score, errand, shown>>
  BY DEF lobbyVars, dealVars, vars, gameVars
<1>2. SeatsOK' /\ SoloOK' /\ ErrandsOK'
  BY <1>1 DEF ListInv, SeatsOK, SoloOK, ErrandsOK
<1>3. \A S : ListOf(S)' = ListOf(S)
  BY <1>1 DEF ListOf
<1>4. ASSUME NEW c \in Ids
      PROVE  /\ Welcoming(c) => Welcoming(c)'
             /\ Announcing(c) => Announcing(c)'
             /\ Updating(c) => Updating(c)'
  <2>1. Welcoming(c) => Welcoming(c)'
    BY <1>1, <1>3 DEF Welcoming, IsNews, Reached
  <2>2. Announcing(c) => Announcing(c)'
    BY <1>1, <1>3 DEF Announcing, IsNews, Reached
  <2>3. Updating(c) => Updating(c)'
    BY <1>1, <1>3 DEF Updating, IsNews, Reached
  <2> QED
    BY <2>1, <2>2, <2>3
<1>5. ListsOK'
  BY <1>1, <1>3, <1>4 DEF ListInv, ListsOK, Busy
<1> QED
  BY <1>2, <1>5 DEF ListInv

(* It is a special case of the server with its lobby, for which the types  *)
(* have been proved.                                                       *)
LEMMA SerialIsLobby == SerialSpec => LobbySpec
<1>1. [SerialNext]_lobbyVars => [LobbyNext]_lobbyVars
  BY DEF SerialNext, SerialStep, LobbyNext
<1> QED
  BY <1>1, PTL DEF SerialSpec, LobbySpec

(* With packets handled one at a time, every player's client shows the     *)
(* players there are and their scores whenever no packet is being handled, *)
(* for any number of clients.                                              *)
THEOREM SerialListsAgree == SerialSpec => []LobbiesAgree
<1>1. LobbyInit => ListInv
  <2> SUFFICES ASSUME LobbyInit PROVE ListInv
    OBVIOUS
  <2>1. /\ players = {} /\ \A c \in Ids : pc[c] = "new" /\ errand[c] = NoErrand
    BY DEF LobbyInit, DealInit, Init, GameInit
  <2>2. \A c \in Ids : errand[c].todo = <<>> /\ errand[c].at = "read"
    BY <2>1 DEF NoErrand
  <2> QED
    BY <2>1, <2>2, ErrandFacts DEF ListInv, SeatsOK, SoloOK, ErrandsOK, ListsOK, Home
<1>2. TypeOK /\ LobbyOK /\ ListInv /\ [SerialNext]_lobbyVars => ListInv'
  <2> SUFFICES ASSUME TypeOK, LobbyOK, ListInv, [SerialNext]_lobbyVars PROVE ListInv'
    OBVIOUS
  <2>1. CASE UNCHANGED lobbyVars
    BY <2>1, SerialStutter
  <2>2. ASSUME NEW c \in Ids, Alone(c), LobbyStep(c) PROVE ListInv'
    BY <2>2, MailKeepsLists, GameStepKeepsLists DEF LobbyStep
  <2> QED
    BY <2>1, <2>2 DEF SerialNext, SerialStep
<1>3. ListInv => LobbiesAgree
  <2>1. \A c \in Ids : pc[c] \in Home =>
          pc[c] \notin ClearStages /\ pc[c] \notin {"canStart", "enough"}
    BY DEF Home, ClearStages
  <2>2. ErrandsOK /\ Quiet => \A c \in Ids : ~Busy(c) /\ pc[c] \notin ClearStages
    BY <2>1 DEF Quiet, ErrandsOK, Busy
  <2> QED
    BY <2>2 DEF ListInv, ListsOK, LobbiesAgree, ListOf
<1> QED
  BY <1>1, <1>2, <1>3, SerialIsLobby, LobbyInvariant, PTL DEF SerialSpec

----------------------------------------------------------------------------
(* The game, when packets do not overlap.                                  *)

(* No thread is at one of these stages.                                    *)
Nowhere(S) == \A c \in Ids : pc[c] \notin S

(* Stages at which the votes of a complete ballot may be about to be       *)
(* looked at.                                                              *)
CountStages == {"total", "snapshot", "count", "verdict", "score"}

(* A round that is running has its liar, its players and its cards, and    *)
(* has given no points yet.                                                *)
RoundIsOn ==
  /\ liar \in players
  /\ Cardinality(players) >= MinPlayers
  /\ topic = round /\ word = round /\ round > 0
  /\ scored < round

RunningOK == Running => RoundIsOn

(* A round that is being started has what has been chosen for it so far.   *)
DrawOK(c) ==
  /\ pc[c] \in Starting => topic = round /\ round > 0 /\ scored < round /\ votes = NoVotes
  /\ pc[c] \in {"pickLiar", "dealRoles"} => word = round
  /\ pc[c] = "dealRoles" => liar \in players

(* What a thread has read of the round is still so.                        *)
StageOK(c) ==
  /\ pc[c] \in {"deal"} \cup VoteStages => roundActive
  /\ pc[c] \in {"start"} \cup Starting => ~roundActive
  /\ pc[c] \in ClearStages \ {"clearFlag"} => ~roundActive
  /\ pc[c] = "remove" => frame[c].wasActive = roundActive
  /\ pc[c] \in {"isActive", "start"} \cup Starting => CanStartRound
  /\ DrawOK(c)

(* The players among these that have voted.                                *)
VotersIn(S) == {p \in S : HasPlayerVoted(p)}

VerdictOn(w) ==
  LET majority == HasMajority(VoteTally, w, Cardinality(players))
  IN  [winner |-> w, majority |-> majority, caught |-> majority /\ w = liar]

(* What a thread has counted is right so far.                              *)
CountOK(c) ==
  /\ pc[c] \in {"total", "snapshot"} => frame[c].counted = 0
  /\ pc[c] \in {"snapshot", "count", "verdict"} => frame[c].total = Cardinality(players)
  /\ pc[c] = "count" =>
       /\ frame[c].toVisit \subseteq players
       /\ frame[c].counted = Cardinality(VotersIn(players \ frame[c].toVisit))
  /\ pc[c] \in {"verdict", "score"} => VotersIn(players) = players
  /\ pc[c] = "verdict" => frame[c].tally = VoteTally
  /\ pc[c] = "score" => \E w \in Winners(VoteTally) : frame[c].verdict = VerdictOn(w)

(* Unless somebody counts, somebody has yet to vote.                       *)
BallotOK == Running /\ Nowhere(CountStages) => VotersIn(players) # players

PlayInv ==
  SoloOK /\ RunningOK /\ BallotOK /\ \A c \in Ids : StageOK(c) /\ CountOK(c)

(* What p was told last is its card in the running round.                  *)
Briefed(p) ==
  told[p] = [role |-> role[p], topic |-> topic,
             word |-> IF role[p] = "LIAR" THEN 0 ELSE word]

(* A hand is that of the running round, and whoever is not to be told any  *)
(* more has been.                                                          *)
HandOK(c) ==
  /\ pc[c] # "deal" => hand[c].at = "topic"
  /\ pc[c] = "deal" =>
       /\ hand[c].at # "topic" => hand[c].topic = topic
       /\ hand[c].at \notin {"topic", "word"} => hand[c].word = word
       /\ hand[c].at = "send" =>
            \A p \in Ids : \/ hand[c].seats[p] = role[p]
                           \/ hand[c].seats[p] = "NONE" /\ Briefed(p)

BriefInv ==
  /\ Running /\ Nowhere({"deal"}) => \A p \in players : role[p] # "NONE" => Briefed(p)
  /\ \A c \in Ids : HandOK(c)

(* While the others wait in recv(), only the stage of this thread matters. *)
LEMMA OneThreadCounts ==
  ASSUME TypeOK, NEW c \in Ids, Alone(c), HandlerStep(c) \/ Packet(c)
  PROVE  /\ Running <=> roundActive /\ pc[c] \notin ClearStages
         /\ Running' <=> roundActive' /\ pc'[c] \notin ClearStages
         /\ Nowhere(CountStages) <=> pc[c] \notin CountStages
         /\ Nowhere(CountStages)' <=> pc'[c] \notin CountStages
         /\ \A d \in Ids \ {c} : pc[d] \in Home /\ pc'[d] = pc[d]
<1>1. \A d \in Ids \ {c} : pc[d] \in Home /\ pc'[d] = pc[d]
  BY OneThreadMoves DEF TypeOK, Alone
<1>2. \A x \in Home : x \notin ClearStages /\ x \notin CountStages
  BY DEF Home, ClearStages, CountStages
<1> QED
  BY <1>1, <1>2 DEF Running, Nowhere

(* So only this thread's part of the invariant has to be looked at.        *)
LEMMA PlayInvOfOne ==
  ASSUME TypeOK, NEW c \in Ids, Alone(c), HandlerStep(c) \/ Packet(c),
         roundActive' /\ pc'[c] \notin ClearStages => RoundIsOn',
         roundActive' /\ pc'[c] \notin ClearStages \cup CountStages
           => VotersIn(players)' # players',
         StageOK(c)', CountOK(c)'
  PROVE  PlayInv'
<1>1. \A d \in Ids \ {c} : pc'[d] \in Home
  BY OneThreadCounts
<1>2. SoloOK'
  BY <1>1 DEF SoloOK
<1>3. \A d \in Ids \ {c} : StageOK(d)' /\ CountOK(d)'
  BY <1>1 DEF Home, StageOK, DrawOK, CountOK, VoteStages, ClearStages, Starting
<1>4. RunningOK' /\ BallotOK'
  BY OneThreadCounts DEF RunningOK, BallotOK
<1> QED
  BY <1>2, <1>3, <1>4 DEF PlayInv

(* What the invariant says of the thread that has the packet.              *)
LEMMA PlayInvHere ==
  ASSUME TypeOK, PlayInv, NEW c \in Ids, Alone(c), HandlerStep(c) \/ Packet(c)
  PROVE  /\ roundActive /\ pc[c] \notin ClearStages => RoundIsOn
         /\ roundActive /\ pc[c] \notin ClearStages \cup CountStages
              => VotersIn(players) # players
         /\ StageOK(c) /\ CountOK(c)
BY OneThreadCounts DEF PlayInv, RunningOK, BallotOK

(* startNewRoundIfPossible.                                                *)
LEMMA StartKeepsPlay ==
  ASSUME TypeOK, PlayInv, NEW c \in Ids, Alone(c), HandlerStep(c),
         StartRoundStep(c) \/ Deal(c)
  PROVE  PlayInv'
<1>0. pc \in [Ids -> Stages] /\ Return(c) \in Home
  BY DEF TypeOK, Return, Home
<1>1. CASE TestCanStart(c) \/ TestActive(c) \/ Deal(c)
  <2>1. UNCHANGED <<gameVars, frame, scored>>
    BY <1>1 DEF TestCanStart, TestActive, Deal, Reads
  <2>2. /\ pc[c] \in StartStages
        /\ \/ pc'[c] \in Home
           \/ pc'[c] = "isActive" /\ CanStartRound
           \/ pc'[c] = "start" /\ ~roundActive /\ pc[c] = "isActive"
    <3>1. CASE TestCanStart(c)
      BY <1>0, <3>1, SMT DEF TestCanStart, Goto, StartStages, CanStartRound
    <3>2. CASE TestActive(c)
      BY <1>0, <3>2, SMT DEF TestActive, Goto, StartStages, CanStartRound
    <3>3. CASE Deal(c)
      <4>1. pc[c] = "deal" /\ pc'[c] = Return(c)
        BY <1>0, <3>3, SMT DEF Deal, Goto
      <4> QED
        BY <1>0, <4>1, SMT DEF StartStages
    <3> QED
      BY <1>1, <3>1, <3>2, <3>3
  <2>3. /\ pc[c] \notin ClearStages \cup CountStages
        /\ pc'[c] \notin ClearStages \cup CountStages
    BY <2>2 DEF StartStages, Starting, ClearStages, CountStages, Home
  <2>4. StageOK(c)'
    BY <1>0, <2>1, <2>2, PlayInvHere
       DEF StageOK, DrawOK, gameVars, Home, VoteStages, ClearStages, Starting, CanStartRound
  <2>5. CountOK(c)'
    BY <2>3 DEF CountOK, CountStages
  <2>6. roundActive => RoundIsOn' /\ VotersIn(players)' # players'
    BY <1>0, <2>1, <2>3, PlayInvHere DEF gameVars, RoundIsOn, VotersIn, HasPlayerVoted
  <2> QED
    BY <1>0, <2>1, <2>4, <2>5, <2>6, PlayInvOfOne DEF gameVars
<1>2. ASSUME ~roundActive', pc'[c] \in Starting, CanStartRound', DrawOK(c)'
      PROVE  PlayInv'
  <2>1. StageOK(c)' /\ CountOK(c)'
    BY <1>2 DEF StageOK, CountOK, ClearStages, VoteStages, Starting
  <2> QED
    BY <1>2, <2>1, PlayInvOfOne
<1>3. CASE BeginRound(c)
  <2>1. pc[c] = "start" /\ CanStartRound
    BY <1>3, PlayInvHere DEF BeginRound, Goto, StageOK
  <2>2. /\ pc'[c] = "pickWord" /\ ~roundActive' /\ round' = round + 1 /\ topic' = round'
        /\ votes' = NoVotes /\ UNCHANGED <<players, scored>>
    BY <1>0, <1>3, <2>1 DEF BeginRound, Goto, Keep, ClearFlag, ClearBallot
  <2>3. round' > 0 /\ scored < round'
    BY <2>2 DEF TypeOK, GameTypeOK
  <2> QED
    BY <1>2, <2>1, <2>2, <2>3 DEF DrawOK, Starting, CanStartRound
<1>4. CASE PickWord(c) \/ PickLiar(c)
  <2>1. /\ \/ pc[c] = "pickWord" /\ pc'[c] = "pickLiar" /\ word' = round
           \/ pc[c] = "pickLiar" /\ pc'[c] = "dealRoles" /\ word' = word /\ liar' \in players
        /\ UNCHANGED <<players, roundActive, topic, votes, round, scored>>
    BY <1>0, <1>4 DEF PickWord, PickLiar, Goto, Keep
  <2>2. ~roundActive /\ CanStartRound /\ DrawOK(c)
    BY <2>1, PlayInvHere DEF StageOK, Starting
  <2> QED
    BY <1>2, <2>1, <2>2 DEF DrawOK, Starting, CanStartRound
<1>5. CASE DealRoles(c)
  <2>1. /\ pc[c] = "dealRoles" /\ pc'[c] = "deal" /\ roundActive'
        /\ UNCHANGED <<players, topic, word, liar, votes, round, scored>>
    BY <1>0, <1>5 DEF DealRoles, Goto, Keep
  <2>2. CanStartRound /\ DrawOK(c)
    BY <2>1, PlayInvHere DEF StageOK, Starting
  <2>3. RoundIsOn'
    BY <2>1, <2>2, Counts, GameStateAssumption
       DEF DrawOK, Starting, RoundIsOn, CanStartRound, TypeOK, GameTypeOK
  <2>4. VotersIn(players)' # players'
    BY <2>1, <2>2, GameStateAssumption
       DEF DrawOK, Starting, VotersIn, HasPlayerVoted, NoVotes, TypeOK, GameTypeOK
  <2>5. StageOK(c)' /\ CountOK(c)'
    BY <2>1 DEF StageOK, DrawOK, CountOK, ClearStages, VoteStages, Starting
  <2> QED
    BY <2>3, <2>4, <2>5, PlayInvOfOne
<1> QED
  BY <1>1, <1>3, <1>4, <1>5 DEF StartRoundStep

(* clearRound.                                                             *)
LEMMA ClearKeepsPlay ==
  ASSUME TypeOK, PlayInv, NEW c \in Ids, Alone(c), ClearStep(c)
  PROVE  PlayInv'
<1>0. pc \in [Ids -> Stages] /\ HandlerStep(c)
  BY DEF TypeOK, HandlerStep
<1>1. /\ pc[c] \in ClearStages /\ pc'[c] \in ClearStages \cup {"canStart", "enough"}
      /\ pc'[c] # "clearFlag"
      /\ roundActive' = IF pc[c] = "clearFlag" THEN FALSE ELSE roundActive
  BY <1>0 DEF ClearStep, StoreFlag, StoreTopic, StoreWord, StoreLiar, StoreBallot, StoreRole,
     EndClear, Reads, gameVars, ClearFlag, Goto, ClearStages
<1>2. ~roundActive'
  BY <1>0, <1>1, PlayInvHere DEF StageOK, TypeOK, GameTypeOK
<1>3. StageOK(c)' /\ CountOK(c)'
  BY <1>1, <1>2 DEF StageOK, DrawOK, CountOK, ClearStages, VoteStages, Starting
<1> QED
  BY <1>0, <1>2, <1>3, PlayInvOfOne

(* PLAYER_LEAVE.                                                           *)
LEMMA LeaveKeepsPlay ==
  ASSUME TypeOK, PlayInv, NEW c \in Ids, Alone(c), HandlerStep(c), LeaveStep(c)
  PROVE  PlayInv'
<1>0. pc \in [Ids -> Stages]
  BY DEF TypeOK
<1>1. CASE Remove(c)
  <2>1. /\ pc[c] = "remove" /\ UNCHANGED roundActive
        /\ pc'[c] = IF frame[c].wasActive THEN "clearFlag" ELSE "enough"
    BY <1>0, <1>1 DEF Remove, RemovePlayer, Goto
  <2>2. pc'[c] = IF roundActive THEN "clearFlag" ELSE "enough"
    BY <1>0, <2>1, PlayInvHere DEF StageOK
  <2>3. StageOK(c)' /\ CountOK(c)'
    BY <2>1, <2>2 DEF StageOK, DrawOK, CountOK, ClearStages, VoteStages, Starting
  <2> QED
    BY <1>0, <2>1, <2>2, <2>3, PlayInvOfOne DEF ClearStages
<1>2. CASE TestEnough(c)
  <2>1. /\ pc[c] = "enough" /\ pc'[c] \in {"gone", "canStart"}
        /\ UNCHANGED <<gameVars, frame, scored>>
    BY <1>0, <1>2 DEF TestEnough, Goto, Reads
  <2>2. StageOK(c)' /\ CountOK(c)'
    BY <2>1 DEF StageOK, DrawOK, CountOK, ClearStages, VoteStages, Starting
  <2>3. roundActive => RoundIsOn' /\ VotersIn(players)' # players'
    BY <1>0, <2>1, PlayInvHere
       DEF gameVars, RoundIsOn, VotersIn, HasPlayerVoted, ClearStages, CountStages
  <2> QED
    BY <1>0, <2>1, <2>2, <2>3, PlayInvOfOne DEF gameVars
<1> QED
  BY <1>1, <1>2 DEF LeaveStep

(* What a client makes its thread do.                                      *)
LEMMA PacketKeepsPlay ==
  ASSUME TypeOK, PlayInv, NEW c \in Ids, Alone(c), Packet(c)
  PROVE  PlayInv'
<1>0. pc \in [Ids -> Stages] /\ frame \in [Ids -> Frames]
  BY DEF TypeOK
<1>1. CASE Join(c)
  <2>1. /\ pc[c] = "new" /\ pc'[c] = "canStart" /\ players' = players \cup {c}
        /\ c \notin players /\ UNCHANGED <<roundActive, topic, word, liar, votes, round, scored>>
    BY <1>0, <1>1 DEF Join, Goto, AddPlayer, Keep
  <2>2. /\ Cardinality(players) \in Nat /\ Cardinality(players') \in Nat
        /\ Cardinality(players') >= Cardinality(players)
    <3>1. IsFiniteSet(players)
      BY FS_Subset, GameStateAssumption DEF TypeOK, GameTypeOK
    <3>2. /\ IsFiniteSet(players')
          /\ Cardinality(players') = Cardinality(players) + 1
      BY <2>1, <3>1, FS_AddElement
    <3>3. Cardinality(players) \in Nat
      BY <3>1, FS_CardinalityType
    <3> QED
      BY <3>2, <3>3
  <2>3. RoundIsOn => RoundIsOn'
    BY <2>1, <2>2, GameStateAssumption DEF RoundIsOn
  <2>4. VotersIn(players) # players => VotersIn(players)' # players'
    BY <2>1 DEF VotersIn, HasPlayerVoted
  <2>5. StageOK(c)' /\ CountOK(c)'
    BY <2>1 DEF StageOK, DrawOK, CountOK, ClearStages, VoteStages, Starting
  <2> QED
    BY <2>1, <2>3, <2>4, <2>5, PlayInvHere, PlayInvOfOne DEF ClearStages, CountStages
<1>2. CASE VoteCommand(c) \/ Leave(c)
  <2>1. /\ pc[c] = "recv" /\ UNCHANGED <<gameVars, scored>>
        /\ \/ pc'[c] = "lookup" /\ roundActive
           \/ pc'[c] = "remove" /\ frame'[c].wasActive = roundActive
    BY <1>0, <1>2 DEF VoteCommand, Leave, Goto, Reads, Frames
  <2>2. StageOK(c)' /\ CountOK(c)'
    BY <2>1 DEF StageOK, DrawOK, CountOK, ClearStages, VoteStages, Starting, gameVars
  <2>3. roundActive => RoundIsOn' /\ VotersIn(players)' # players'
    BY <2>1, PlayInvHere
       DEF gameVars, RoundIsOn, VotersIn, HasPlayerVoted, ClearStages, CountStages
  <2> QED
    BY <2>1, <2>2, <2>3, PlayInvOfOne DEF gameVars
<1> QED
  BY <1>1, <1>2 DEF Packet
(* A call that only reads the game leaves everything said of it true.      *)
LEMMA ReadsChangeNothing ==
  ASSUME Reads
  PROVE  /\ UNCHANGED <<roundActive, players, votes, round>>
         /\ RoundIsOn => RoundIsOn'
         /\ VoteTally' = VoteTally
         /\ VotersIn(players)' = VotersIn(players)
         /\ \A S : VotersIn(S)' = VotersIn(S)
         /\ \A w : VerdictOn(w)' = VerdictOn(w)
<1>1. UNCHANGED gameVars /\ UNCHANGED scored
  BY DEF Reads
<1>2. VoteTally' = VoteTally
  BY <1>1 DEF VoteTally, gameVars
<1>3. \A w : VerdictOn(w)' = VerdictOn(w)
  BY <1>1, <1>2 DEF VerdictOn, HasMajority, gameVars
<1> QED
  BY <1>1, <1>2, <1>3 DEF gameVars, RoundIsOn, VotersIn, HasPlayerVoted

(* The callback counts the votes with one look at each player, and comes   *)
(* to the number there is.                                                 *)
LEMMA CountingCounts ==
  ASSUME TypeOK, NEW S \in SUBSET players, NEW p \in S
  PROVE  Cardinality(VotersIn(players \ (S \ {p}))) =
           IF HasPlayerVoted(p) THEN Cardinality(VotersIn(players \ S)) + 1
                                ELSE Cardinality(VotersIn(players \ S))
<1>1. IsFiniteSet(VotersIn(players \ S))
  BY FS_Subset, GameStateAssumption DEF TypeOK, GameTypeOK, VotersIn
<1>2. VotersIn(players \ (S \ {p})) =
        IF HasPlayerVoted(p) THEN VotersIn(players \ S) \cup {p} ELSE VotersIn(players \ S)
  BY DEF VotersIn
<1>3. p \notin VotersIn(players \ S)
  BY DEF VotersIn
<1> QED
  BY <1>1, <1>2, <1>3, FS_AddElement

(* The number is that of the players only if every player has voted.       *)
LEMMA AllVoted ==
  ASSUME TypeOK
  PROVE  /\ Cardinality(VotersIn(players)) >= Cardinality(players)
              <=> VotersIn(players) = players
         /\ Cardinality(VotersIn(players)) \in Nat /\ Cardinality(players) \in Nat
<1>1. VotersIn(players) \in SUBSET players
  BY DEF VotersIn
<1>2. IsFiniteSet(players)
  BY FS_Subset, GameStateAssumption DEF TypeOK, GameTypeOK
<1>3. IsFiniteSet(VotersIn(players))
  BY <1>1, <1>2, FS_Subset
<1>4. Cardinality(VotersIn(players)) \in Nat /\ Cardinality(players) \in Nat
  BY <1>2, <1>3, FS_CardinalityType
<1>5. /\ Cardinality(VotersIn(players)) <= Cardinality(players)
      /\ Cardinality(players) = Cardinality(VotersIn(players)) => VotersIn(players) = players
  BY <1>1, <1>2, FS_Subset
<1> QED
  BY <1>4, <1>5

(* A vote: only the last one is followed by a verdict, and the verdict is  *)
(* on the votes of all players.                                            *)
LEMMA VoteKeepsPlay ==
  ASSUME TypeOK, PlayInv, NEW c \in Ids, Alone(c), HandlerStep(c), VoteStep(c)
  PROVE  PlayInv'
<1>0. /\ pc \in [Ids -> Stages] /\ frame \in [Ids -> Frames]
      /\ roundActive \in BOOLEAN
  BY DEF TypeOK, GameTypeOK
<1>1. pc[c] \in VoteStages
  BY StagesLeft
<1>2. /\ roundActive /\ RoundIsOn /\ CountOK(c)
      /\ pc[c] \notin CountStages => VotersIn(players) # players
  <2>1. pc[c] \notin ClearStages
    BY <1>1 DEF VoteStages, ClearStages
  <2> QED
    BY <1>0, <1>1, <2>1, PlayInvHere DEF StageOK
<1>3. ASSUME Reads, CountOK(c)', pc'[c] \in VoteStages \cup {"recv"},
             pc'[c] \in CountStages \/ VotersIn(players) # players
      PROVE  PlayInv'
  <2>1. StageOK(c)'
    BY <1>2, <1>3, ReadsChangeNothing DEF StageOK, DrawOK, VoteStages, ClearStages, Starting
  <2> QED
    BY <1>0, <1>2, <1>3, <2>1, ReadsChangeNothing, PlayInvOfOne
<1>4. CASE Lookup(c)
  <2>1. pc[c] = "lookup" /\ pc'[c] \in {"submit", "recv"} /\ Reads
    BY <1>0, <1>4 DEF Lookup, Goto
  <2> QED
    BY <1>2, <1>3, <2>1 DEF CountOK, CountStages, VoteStages
<1>5. CASE Submit(c)
  <2>1. pc[c] = "submit" /\ pc'[c] \in {"record", "recv"} /\ Reads
    BY <1>0, <1>5 DEF Submit, Goto
  <2> QED
    BY <1>2, <1>3, <2>1 DEF CountOK, CountStages, VoteStages
<1>6. CASE Record(c)
  <2>1. pc[c] = "record"
    BY <1>6 DEF Record, Goto
  <2>2. CASE pc'[c] = "recv" /\ Reads
    BY <1>2, <1>3, <2>1, <2>2 DEF CountOK, CountStages, VoteStages
  <2>3. CASE /\ pc'[c] = "total" /\ Drop(c)
             /\ UNCHANGED <<players, roundActive, topic, word, liar, round, scored>>
    <3>1. frame'[c] = Blank
      BY <1>0, <2>3 DEF Drop
    <3>2. CountOK(c)'
      BY <2>3, <3>1 DEF CountOK, Blank
    <3>3. StageOK(c)' /\ RoundIsOn'
      BY <1>2, <2>3 DEF StageOK, DrawOK, VoteStages, ClearStages, Starting, RoundIsOn
    <3> QED
      BY <2>3, <3>2, <3>3, PlayInvOfOne DEF CountStages
  <2> QED
    BY <1>0, <1>6, <2>2, <2>3 DEF Record, Goto
<1>7. CASE ReadTotal(c)
  <2>1. /\ pc[c] = "total" /\ pc'[c] = "snapshot" /\ Reads
        /\ frame'[c].total = Cardinality(players) /\ frame'[c].counted = frame[c].counted
    BY <1>0, <1>7 DEF ReadTotal, Goto, Frames
  <2>2. CountOK(c)'
    BY <1>2, <2>1, ReadsChangeNothing DEF CountOK
  <2> QED
    BY <1>3, <2>1, <2>2 DEF CountStages, VoteStages
<1>8. CASE Snapshot(c)
  <2>1. /\ pc[c] = "snapshot" /\ pc'[c] = "count" /\ Reads
        /\ frame'[c].total = frame[c].total /\ frame'[c].counted = frame[c].counted
        /\ frame'[c].toVisit = players
    BY <1>0, <1>8 DEF Snapshot, Goto, Frames
  <2>2. Cardinality(VotersIn(players \ players)) = 0
    BY FS_EmptySet DEF VotersIn
  <2>3. CountOK(c)'
    BY <1>2, <2>1, <2>2, ReadsChangeNothing DEF CountOK
  <2> QED
    BY <1>3, <2>1, <2>3 DEF CountStages, VoteStages
<1>9. CASE CountVote(c)
  <2>1. PICK p \in frame[c].toVisit :
          /\ pc[c] = "count" /\ pc'[c] = "count" /\ Reads
          /\ frame'[c].total = frame[c].total
          /\ frame'[c].toVisit = frame[c].toVisit \ {p}
          /\ frame'[c].counted = IF HasPlayerVoted(p) THEN frame[c].counted + 1
                                                      ELSE frame[c].counted
    BY <1>0, <1>9 DEF CountVote, Frames, Reads
  <2>2. /\ frame[c].toVisit \subseteq players
        /\ frame[c].total = Cardinality(players)
        /\ frame[c].counted = Cardinality(VotersIn(players \ frame[c].toVisit))
    BY <1>2, <2>1 DEF CountOK
  <2>3. frame'[c].counted = Cardinality(VotersIn(players \ frame'[c].toVisit))
    BY <2>1, <2>2, CountingCounts
  <2>4. CountOK(c)'
    BY <2>1, <2>2, <2>3, ReadsChangeNothing DEF CountOK
  <2> QED
    BY <1>3, <2>1, <2>4 DEF CountStages, VoteStages
<1>10. CASE StopCounting(c) \/ ReadTally(c)
  <2>1. /\ pc[c] = "count" /\ frame[c].toVisit = {} /\ Reads
        /\ \/ /\ pc'[c] = "recv" /\ ~(frame[c].counted >= frame[c].total)
           \/ /\ pc'[c] = "verdict" /\ frame[c].counted >= frame[c].total
              /\ frame'[c].tally = VoteTally /\ frame'[c].total = frame[c].total
    BY <1>0, <1>10 DEF StopCounting, ReadTally, EveryoneVoted, Goto, Frames
  <2>2. /\ frame[c].total = Cardinality(players)
        /\ frame[c].counted = Cardinality(VotersIn(players))
    <3>1. players \ {} = players
      OBVIOUS
    <3> QED
      BY <1>2, <2>1, <3>1 DEF CountOK
  <2>3. pc'[c] = "verdict" <=> VotersIn(players) = players
    BY <2>1, <2>2, AllVoted
  <2>4. CountOK(c)'
    BY <2>1, <2>2, <2>3, ReadsChangeNothing DEF CountOK
  <2> QED
    BY <1>3, <2>1, <2>3, <2>4 DEF CountStages, VoteStages
<1>11. CASE ReadLiarAndJudge(c)
  <2>1. PICK w \in Winners(frame[c].tally) :
          /\ pc[c] = "verdict" /\ pc'[c] = "score" /\ Reads
          /\ frame'[c].verdict =
               LET majority == HasMajority(frame[c].tally, w, frame[c].total)
               IN  [winner |-> w, majority |-> majority, caught |-> majority /\ w = liar]
    BY <1>0, <1>11 DEF ReadLiarAndJudge, Goto, Blank
  <2>2. /\ frame[c].tally = VoteTally /\ frame[c].total = Cardinality(players)
        /\ VotersIn(players) = players
    BY <1>2, <2>1 DEF CountOK
  <2>3. w \in Winners(VoteTally) /\ frame'[c].verdict = VerdictOn(w)
    BY <2>1, <2>2 DEF VerdictOn
  <2>4. Winners(VoteTally)' = Winners(VoteTally)
    BY <2>1, ReadsChangeNothing DEF Winners
  <2>5. CountOK(c)'
    BY <2>1, <2>2, <2>3, <2>4, ReadsChangeNothing DEF CountOK
  <2> QED
    BY <1>3, <2>1, <2>5 DEF CountStages, VoteStages
<1>12. CASE ApplyScores(c)
  <2>1. pc'[c] = "clearFlag"
    BY <1>0, <1>12 DEF ApplyScores, Goto
  <2>2. StageOK(c)' /\ CountOK(c)'
    BY <2>1 DEF StageOK, DrawOK, CountOK, VoteStages, ClearStages, Starting
  <2> QED
    BY <1>0, <2>1, <2>2, PlayInvOfOne DEF ClearStages
<1> QED
  BY <1>4, <1>5, <1>6, <1>7, <1>8, <1>9, <1>10, <1>11, <1>12 DEF VoteStep

(* Every step keeps it.                                                    *)
LEMMA StepKeepsPlay ==
  ASSUME TypeOK, PlayInv, [SerialNext]_lobbyVars
  PROVE  PlayInv'
<1>1. CASE UNCHANGED vars
  <2>1. Reads /\ UNCHANGED <<pc, frame>>
    BY <1>1 DEF vars, Reads
  <2>2. \A c \in Ids : StageOK(c)'
    BY <1>1 DEF PlayInv, vars, gameVars, StageOK, DrawOK, CanStartRound
  <2>3. Winners(VoteTally)' = Winners(VoteTally)
    BY <2>1, ReadsChangeNothing DEF Winners
  <2>4. \A c \in Ids : CountOK(c)'
    BY <2>1, <2>3, ReadsChangeNothing DEF PlayInv, CountOK
  <2>5. SoloOK' /\ RunningOK' /\ BallotOK'
    BY <2>1, ReadsChangeNothing DEF PlayInv, SoloOK, RunningOK, BallotOK, Running, Nowhere
  <2> QED
    BY <2>2, <2>4, <2>5 DEF PlayInv
<1>2. ASSUME NEW c \in Ids, Alone(c), HandlerStep(c) \/ Packet(c)
      PROVE  PlayInv'
  BY <1>2, StartKeepsPlay, VoteKeepsPlay, ClearKeepsPlay, LeaveKeepsPlay, PacketKeepsPlay
     DEF HandlerStep, LockedStep
<1>3. ASSUME NEW c \in Ids, Alone(c), LobbyStep(c) PROVE PlayInv'
  <2>1. DealStep(c) => HandlerStep(c) \/ UNCHANGED vars
    BY DealStepIsDeal DEF HandlerStep
  <2>2. MailStep(c) => UNCHANGED vars
    BY DEF MailStep, Read, List, SendNews, Sent, dealVars
  <2> QED
    BY <1>1, <1>2, <1>3, <2>1, <2>2 DEF LobbyStep, GameStep, OtherStep
<1> QED
  BY <1>1, <1>3 DEF SerialNext, SerialStep, lobbyVars, dealVars

(* Types, votes and the invariant of the game.                             *)
LEMMA SerialInvariant ==
  SerialSpec => [](DealTypeOK /\ TypeOK /\ VotesAmongPlayers /\ PlayInv)
<1>1. LobbyInit => PlayInv
  BY DEF LobbyInit, DealInit, Init, GameInit, Home, PlayInv, SoloOK, RunningOK, BallotOK, Running,
     StageOK, DrawOK, CountOK, VoteStages, ClearStages, Starting
<1> QED
  BY <1>1, StepKeepsPlay, SerialIsLobby, LobbyInvariant, LobbyImplementsDealing,
     DealImplementsServer, ServerVotes, PTL DEF SerialSpec

(* Between packets, a round that is running has a liar and enough players. *)
THEOREM SerialRoundIsPlayable == SerialSpec => []RoundIsPlayable
<1>1. TypeOK /\ PlayInv => RoundIsPlayable
  <2> SUFFICES ASSUME TypeOK, PlayInv, Quiet, roundActive
               PROVE  liar # Nobody /\ Cardinality(players) >= MinPlayers
    BY DEF RoundIsPlayable
  <2>1. Running
    BY DEF Quiet, Running, Home, ClearStages
  <2> QED
    BY <2>1, GameStateAssumption DEF PlayInv, RunningOK, RoundIsOn, TypeOK, GameTypeOK
<1> QED
  BY <1>1, SerialInvariant, PTL

(* Between packets, somebody has yet to vote in a round that is running.   *)
THEOREM SerialVotedRoundsAreResolved == SerialSpec => []VotedRoundsAreResolved
<1>1. PlayInv => VotedRoundsAreResolved
  <2> SUFFICES ASSUME PlayInv, Quiet, roundActive
               PROVE  \E p \in players : ~HasPlayerVoted(p)
    BY DEF VotedRoundsAreResolved
  <2>1. Running /\ Nowhere(CountStages)
    BY DEF Quiet, Running, Nowhere, Home, ClearStages, CountStages
  <2> QED
    BY <2>1 DEF PlayInv, BallotOK, VotersIn
<1> QED
  BY <1>1, SerialInvariant, PTL

----------------------------------------------------------------------------
(* The moves of the game.                                                  *)

(* Only these steps of the callback change the game; those of clearRound   *)
(* come when the round is over, those of startNewRound but the last before *)
(* it is on.                                                               *)
Moves(c) ==
  \/ Join(c) /\ (Running' <=> Running)
  \/ Remove(c) /\ ~Running'
  \/ /\ DealRoles(c) /\ ~Running /\ Running'
     /\ CanStartRound /\ liar \in players /\ votes = NoVotes
  \/ SubmitVote(c, frame[c].target) /\ Running /\ Running'
  \/ ApplyScores(c) /\ Running /\ ~Running' /\ pc[c] = "score" /\ ~OthersClear(c)
  \/ ~Running /\ ~Running' /\ ~roundActive' /\ UNCHANGED <<players, score>>
  \/ UNCHANGED gameVars /\ (Running' <=> Running)

(* There are no others.                                                    *)
LEMMA StepsAreMoves ==
  ASSUME TypeOK, PlayInv, NEW c \in Ids, Alone(c), HandlerStep(c) \/ Packet(c)
  PROVE  Moves(c)
<1>0. pc \in [Ids -> Stages] /\ roundActive \in BOOLEAN
  BY DEF TypeOK, GameTypeOK
<1>1. /\ Running <=> roundActive /\ pc[c] \notin ClearStages
      /\ Running' <=> roundActive' /\ pc'[c] \notin ClearStages
      /\ StageOK(c)
  BY OneThreadCounts, PlayInvHere
<1>2. ASSUME UNCHANGED gameVars, pc[c] \notin ClearStages, pc'[c] \notin ClearStages
      PROVE  Moves(c)
  BY <1>1, <1>2 DEF Moves, gameVars
<1>3. CASE StartRoundStep(c) \/ Deal(c)
  <2>1. CASE DealRoles(c)
    <3>1. pc[c] = "dealRoles" /\ pc'[c] = "deal" /\ roundActive'
      BY <1>0, <2>1 DEF DealRoles, Goto
    <3>2. ~roundActive /\ CanStartRound /\ liar \in players /\ votes = NoVotes
      BY <1>1, <3>1 DEF StageOK, DrawOK, Starting
    <3> QED
      BY <1>1, <2>1, <3>1, <3>2 DEF Moves, ClearStages
  <2>2. CASE BeginRound(c) \/ PickWord(c) \/ PickLiar(c)
    <3>1. pc[c] \in {"start"} \cup Starting
      BY <2>2 DEF BeginRound, PickWord, PickLiar, Goto, Starting
    <3>2. ~roundActive
      BY <1>1, <3>1 DEF StageOK
    <3>3. ~roundActive' /\ UNCHANGED <<players, score>>
      BY <2>2, <3>2 DEF BeginRound, PickWord, PickLiar, ClearFlag, Reads, gameVars
    <3> QED
      BY <1>1, <3>2, <3>3 DEF Moves
  <2>3. CASE TestCanStart(c) \/ TestActive(c) \/ Deal(c)
    BY <1>0, <1>2, <2>3
       DEF TestCanStart, TestActive, Deal, Goto, Reads, Return, ClearStages
  <2> QED
    BY <1>3, <2>1, <2>2, <2>3 DEF StartRoundStep
<1>4. CASE VoteStep(c)
  <2>1. CASE Submit(c) \/ Record(c)
    <3>1. /\ pc[c] \in {"submit", "record"} /\ pc[c] \notin ClearStages
          /\ pc'[c] \notin ClearStages
      BY <1>0, <2>1 DEF Submit, Record, Goto, ClearStages
    <3>2. CASE UNCHANGED gameVars
      BY <1>2, <3>1, <3>2
    <3>3. CASE Record(c) /\ VoteCounts(c, frame[c].target)
      <4>1. roundActive
        BY <1>1, <3>1 DEF StageOK, VoteStages
      <4>2. SubmitVote(c, frame[c].target) /\ roundActive'
        BY <3>3, <4>1 DEF Record, SubmitVote
      <4> QED
        BY <1>1, <3>1, <4>1, <4>2 DEF Moves
    <3> QED
      BY <2>1, <3>2, <3>3 DEF Submit, Record, Reads
  <2>2. CASE ApplyScores(c)
    <3>1. pc[c] = "score" /\ pc'[c] = "clearFlag"
      BY <1>0, <2>2 DEF ApplyScores, Goto
    <3>2. ~OthersClear(c)
      BY DEF OthersClear, Alone, Home, ClearStages
    <3> QED
      BY <1>1, <2>2, <3>1, <3>2 DEF Moves, StageOK, VoteStages, ClearStages
  <2>3. CASE Lookup(c) \/ ReadTotal(c) \/ Snapshot(c) \/ StopCounting(c) \/ ReadTally(c)
    BY <1>0, <1>2, <2>3
       DEF Lookup, ReadTotal, Snapshot, StopCounting, ReadTally, Goto, Reads, ClearStages
  <2>4. CASE CountVote(c)
    BY <1>0, <1>2, <2>4 DEF CountVote, ClearStages
  <2>5. CASE ReadLiarAndJudge(c)
    BY <1>0, <1>2, <2>5 DEF ReadLiarAndJudge, Goto, Reads, ClearStages
  <2> QED
    BY <1>4, <2>1, <2>2, <2>3, <2>4, <2>5 DEF VoteStep
<1>5. CASE ClearStep(c)
  <2>1. /\ pc[c] \in ClearStages
        /\ roundActive' = IF pc[c] = "clearFlag" THEN FALSE ELSE roundActive
        /\ UNCHANGED <<players, score>>
    BY <1>0, <1>5 DEF ClearStep, StoreFlag, StoreTopic, StoreWord, StoreLiar, StoreBallot,
       StoreRole, EndClear, Reads, gameVars, ClearFlag, Goto, ClearStages
  <2>2. ~roundActive'
    BY <1>0, <1>1, <2>1 DEF StageOK
  <2> QED
    BY <1>1, <2>1, <2>2 DEF Moves
<1>6. CASE Remove(c)
  <2>1. /\ pc[c] = "remove" /\ UNCHANGED roundActive
        /\ pc'[c] = IF frame[c].wasActive THEN "clearFlag" ELSE "enough"
    BY <1>0, <1>6 DEF Remove, RemovePlayer, Goto
  <2>2. ~Running'
    BY <1>1, <2>1 DEF StageOK, ClearStages
  <2> QED
    BY <1>6, <2>2 DEF Moves
<1>7. CASE TestEnough(c) \/ VoteCommand(c) \/ Leave(c)
  BY <1>0, <1>2, <1>7 DEF TestEnough, VoteCommand, Leave, Goto, Reads, ClearStages
<1>8. CASE Join(c)
  <2>1. pc[c] = "new" /\ pc'[c] = "canStart" /\ UNCHANGED roundActive
    BY <1>0, <1>8 DEF Join, Goto, AddPlayer
  <2> QED
    BY <1>1, <1>8, <2>1 DEF Moves, ClearStages
<1> QED
  BY <1>3, <1>4, <1>5, <1>6, <1>7, <1>8 DEF HandlerStep, LockedStep, LeaveStep, Packet

(* What does not change the game is one of the other steps of the model.   *)
LEMMA SerialStepIsMove ==
  ASSUME TypeOK, PlayInv, [SerialNext]_lobbyVars
  PROVE  \/ UNCHANGED <<gameVars, pc>>
         \/ \E c \in Ids : Alone(c) /\ Moves(c) /\ (HandlerStep(c) \/ Packet(c))
<1>1. ASSUME NEW c \in Ids, Alone(c), LobbyStep(c)
      PROVE  UNCHANGED vars \/ HandlerStep(c) \/ Packet(c)
  BY <1>1, LobbyStepIsDealStep, DealStepIsDeal DEF dealVars, OtherStep, HandlerStep
<1> QED
  BY <1>1, StepsAreMoves DEF SerialNext, SerialStep, lobbyVars, dealVars, vars

(* No round gives points a second time.                                    *)
THEOREM SerialPointsOncePerRound == SerialSpec => PointsOncePerRound
<1>1. TypeOK /\ PlayInv /\ [SerialNext]_lobbyVars
        => [(\E p \in Ids : score'[p] > score[p]) => scored < round]_vars
  <2> SUFFICES ASSUME TypeOK, PlayInv, [SerialNext]_lobbyVars,
                      NEW p \in Ids, score'[p] > score[p]
               PROVE  scored < round
    OBVIOUS
  <2>0. score \in [Ids -> Nat] /\ score[p] \in Nat /\ ~(score[p] > score[p]) /\ ~(0 > score[p])
    BY DEF TypeOK, GameTypeOK
  <2>1. PICK c \in Ids : Alone(c) /\ Moves(c) /\ (HandlerStep(c) \/ Packet(c))
    BY <2>0, SerialStepIsMove DEF gameVars
  <2>2. ~Join(c) /\ ~Remove(c)
    BY <2>0 DEF Join, AddPlayer, Remove, RemovePlayer, EraseState
  <2>3. UNCHANGED score \/ (ApplyScores(c) /\ Running)
    BY <2>1, <2>2 DEF Moves, DealRoles, SubmitVote, gameVars
  <2> QED
    BY <2>0, <2>3 DEF PlayInv, RunningOK, RoundIsOn
<1> QED
  BY <1>1, SerialInvariant, PTL DEF SerialSpec, PointsOncePerRound

(* A vote stays what it is as long as its round and its players do.        *)
THEOREM SerialBallotsAreKept == SerialSpec => BallotsAreKept
<1> DEFINE Kept(v) == \/ votes'[v] = votes[v]
                      \/ ~roundActive'
                      \/ round' # round
                      \/ ~({v, votes[v]} \subseteq players')
<1>1. TypeOK /\ PlayInv /\ [SerialNext]_lobbyVars
        => [\A v \in players : HasPlayerVoted(v) => Kept(v)]_vars
  <2> SUFFICES ASSUME TypeOK, PlayInv, [SerialNext]_lobbyVars,
                      NEW v \in players, HasPlayerVoted(v)
               PROVE  Kept(v)
    OBVIOUS
  <2>0. /\ votes \in [Ids -> Ids \cup {Nobody}] /\ v \in Ids /\ round \in Nat
        /\ players \subseteq Ids
    BY DEF TypeOK, GameTypeOK
  <2>1. CASE UNCHANGED votes
    BY <2>1
  <2>2. ASSUME NEW c \in Ids, Moves(c) PROVE Kept(v)
    <3>1. CASE Remove(c)
      BY <2>0, <3>1 DEF Remove, RemovePlayer, VotesErased
    <3>2. CASE DealRoles(c)
      BY <2>1, <3>2 DEF DealRoles
    <3>3. CASE SubmitVote(c, frame[c].target)
      BY <2>0, <3>3 DEF SubmitVote, VoteCounts
    <3>4. CASE ~roundActive'
      BY <3>4
    <3>5. CASE Join(c) \/ ApplyScores(c) \/ UNCHANGED gameVars
      BY <2>1, <3>5 DEF Join, AddPlayer, ApplyScores, CalculateAndApplyScores, gameVars
    <3> QED
      BY <2>2, <3>1, <3>2, <3>3, <3>4, <3>5 DEF Moves
  <2>3. CASE UNCHANGED gameVars
    BY <2>1, <2>3 DEF gameVars
  <2> HIDE DEF Kept
  <2> QED
    BY <2>2, <2>3, SerialStepIsMove
<1> QED
  BY <1>1, SerialInvariant, PTL DEF SerialSpec, BallotsAreKept
----------------------------------------------------------------------------
(* The cards, when packets do not overlap.                                 *)

(* The thread that has the packet is the one that deals, if one does.      *)
LEMMA OneThreadDeals ==
  ASSUME BriefInv, NEW c \in Ids, Alone(c)
  PROVE  /\ \A d \in Ids \ {c} : pc[d] # "deal" /\ hand[d].at = "topic"
         /\ Nowhere({"deal"}) <=> pc[c] # "deal"
         /\ HandOK(c)
<1>1. \A d \in Ids \ {c} : pc[d] # "deal"
  BY DEF Alone, Home
<1> QED
  BY <1>1 DEF BriefInv, HandOK, Nowhere

(* Dealing: what is read is the running round's, and everybody is told.    *)
LEMMA DealingBriefs ==
  ASSUME DealTypeOK, PlayInv, BriefInv, NEW c \in Ids, Alone(c), DealStep(c)
  PROVE  BriefInv'
<1>0. /\ hand \in [Ids -> Hands] /\ told \in [Ids -> Assignments] /\ TypeOK
      /\ pc \in [Ids -> Stages] /\ topic \in Nat /\ role \in [Ids -> Roles]
      /\ round \in Nat /\ roundActive \in BOOLEAN
  BY DEF DealTypeOK, TypeOK, GameTypeOK
<1>1. pc[c] = "deal"
  BY DEF DealStep, ReadTopic, ReadWord, ReadLiar, ReadRoles, Send, Dealt, At
<1>2. /\ \A d \in Ids \ {c} : pc[d] # "deal" /\ hand[d].at = "topic"
      /\ HandOK(c)
  BY OneThreadDeals
<1>3. liar # Nobody /\ topic # 0
  <2>1. Running
    BY <1>0, <1>1 DEF PlayInv, StageOK, Running, Alone, Home, ClearStages
  <2> QED
    BY <1>0, <2>1, GameStateAssumption DEF PlayInv, RunningOK, RoundIsOn, TypeOK, GameTypeOK
<1>4. ASSUME UNCHANGED vars, \A d \in Ids \ {c} : hand'[d] = hand[d], HandOK(c)'
      PROVE  BriefInv'
  <2>1. pc'[c] = "deal" /\ \A d \in Ids \ {c} : pc'[d] # "deal" /\ hand'[d].at = "topic"
    BY <1>1, <1>2, <1>4 DEF vars
  <2> QED
    BY <1>4, <2>1 DEF BriefInv, Nowhere, HandOK
<1>5. ASSUME UNCHANGED <<vars, told>> PROVE \A p \in Ids : Briefed(p)' <=> Briefed(p)
  BY <1>5 DEF Briefed, vars, gameVars
<1>6. CASE ReadTopic(c)
  <2>1. /\ UNCHANGED <<vars, told>> /\ \A d \in Ids \ {c} : hand'[d] = hand[d]
        /\ hand'[c].at = "word" /\ hand'[c].topic = topic
    BY <1>0, <1>6 DEF ReadTopic, Hands
  <2>2. HandOK(c)'
    BY <1>1, <2>1 DEF HandOK, vars, gameVars
  <2> QED
    BY <1>4, <2>1, <2>2
<1>7. CASE ReadWord(c)
  <2>1. /\ UNCHANGED <<vars, told>> /\ \A d \in Ids \ {c} : hand'[d] = hand[d]
        /\ hand[c].at = "word"
        /\ hand'[c].at = "liar" /\ hand'[c].topic = hand[c].topic /\ hand'[c].word = word
    BY <1>0, <1>7 DEF ReadWord, At, Hands
  <2>2. HandOK(c)'
    BY <1>1, <1>2, <2>1 DEF HandOK, vars, gameVars
  <2> QED
    BY <1>4, <2>1, <2>2
<1>8. CASE ReadLiar(c)
  <2>0. hand[c].at = "liar" /\ hand[c].topic = topic /\ hand[c].word = word
    BY <1>1, <1>2, <1>8 DEF ReadLiar, At, HandOK
  <2>1. /\ UNCHANGED <<vars, told>> /\ \A d \in Ids \ {c} : hand'[d] = hand[d]
        /\ hand'[c].at = "roles" /\ hand'[c].topic = topic /\ hand'[c].word = word
    BY <1>0, <1>3, <1>8, <2>0 DEF ReadLiar, Hands
  <2>2. HandOK(c)'
    BY <1>1, <2>1 DEF HandOK, vars, gameVars
  <2> QED
    BY <1>4, <2>1, <2>2
<1>9. CASE ReadRoles(c)
  <2>1. /\ UNCHANGED <<vars, told>> /\ \A d \in Ids \ {c} : hand'[d] = hand[d]
        /\ hand[c].at = "roles"
        /\ hand'[c].at = "send" /\ hand'[c].topic = hand[c].topic
        /\ hand'[c].word = hand[c].word /\ hand'[c].seats = role
    BY <1>0, <1>9 DEF ReadRoles, At, Hands
  <2>2. HandOK(c)'
    BY <1>1, <1>2, <2>1 DEF HandOK, vars, gameVars
  <2> QED
    BY <1>4, <2>1, <2>2
<1>10. ASSUME NEW p \in Ids, Send(c, p) PROVE BriefInv'
  <2>1. /\ UNCHANGED vars /\ \A d \in Ids \ {c} : hand'[d] = hand[d]
        /\ hand[c].at = "send" /\ hand[c].seats[p] # "NONE"
        /\ hand'[c].at = "send" /\ hand'[c].topic = hand[c].topic
        /\ hand'[c].word = hand[c].word
        /\ hand'[c].seats = [hand[c].seats EXCEPT ![p] = "NONE"]
        /\ hand[c].seats \in [Ids -> Roles]
    BY <1>0, <1>10 DEF Send, At, Hands
  <2>2. /\ hand[c].topic = topic /\ hand[c].word = word
        /\ \A q \in Ids : \/ hand[c].seats[q] = role[q]
                          \/ hand[c].seats[q] = "NONE" /\ Briefed(q)
    BY <1>1, <1>2, <2>1 DEF HandOK
  <2>3. hand[c].seats[p] = role[p] /\ role[p] \in {"LIAR", "GUESSER"}
    BY <1>0, <2>1, <2>2 DEF Roles
  <2>4. Online(p)
    BY <1>0, <1>1, <2>3 DEF Online, Alone, Home, TypeOK, GameTypeOK
  <2>5. told' = [told EXCEPT ![p] = Assignment(c, p)]
    BY <1>10, <2>4 DEF Send
  <2>6. Briefed(p)'
    BY <1>0, <2>1, <2>2, <2>3, <2>5 DEF Briefed, Assignment, vars, gameVars
  <2>7. \A q \in Ids \ {p} : Briefed(q) => Briefed(q)'
    BY <1>0, <2>1, <2>5 DEF Briefed, vars, gameVars
  <2>8. \A q \in Ids : \/ hand'[c].seats[q] = role[q]
                       \/ hand'[c].seats[q] = "NONE" /\ Briefed(q)'
    BY <2>1, <2>2, <2>6, <2>7
  <2>9. HandOK(c)'
    BY <1>1, <2>1, <2>2, <2>8 DEF HandOK, vars, gameVars
  <2> QED
    BY <1>4, <2>1, <2>9
<1>11. CASE Dealt(c)
  <2>1. /\ UNCHANGED <<gameVars, told>> /\ \A d \in Ids \ {c} : hand'[d] = hand[d]
        /\ hand[c].at = "send" /\ hand[c].seats = NoRoles
        /\ hand'[c].at = "topic"
        /\ pc'[c] # "deal" /\ \A d \in Ids \ {c} : pc'[d] = pc[d]
    BY <1>0, <1>11 DEF Dealt, At, Deal, Goto, Return, Reads, EmptyHand
  <2>2. \A p \in Ids : role[p] # "NONE" => Briefed(p)
    BY <1>1, <1>2, <2>1 DEF HandOK, NoRoles
  <2>3. \A p \in players' : role'[p] # "NONE" => Briefed(p)'
    BY <1>0, <2>1, <2>2 DEF Briefed, gameVars, TypeOK, GameTypeOK
  <2>4. \A d \in Ids : HandOK(d)'
    BY <1>2, <2>1 DEF HandOK
  <2> QED
    BY <2>3, <2>4 DEF BriefInv
<1> QED
  BY <1>6, <1>7, <1>8, <1>9, <1>10, <1>11 DEF DealStep

(* The cards dealt stay those of the round until it is over.               *)
LEMMA OthersKeepBriefed ==
  ASSUME DealTypeOK, PlayInv, BriefInv, NEW c \in Ids, Alone(c), OtherStep(c)
  PROVE  BriefInv'
<1>0. /\ TypeOK /\ players \subseteq Ids /\ role \in [Ids -> Roles] /\ pc[c] # "deal"
      /\ told \in [Ids -> Assignments]
      /\ HandlerStep(c) \/ Packet(c)
  BY DEF DealTypeOK, TypeOK, GameTypeOK, OtherStep
<1>1. /\ \A d \in Ids \ {c} : pc'[d] # "deal" /\ hand'[d].at = "topic"
      /\ hand'[c].at = "topic"
      /\ Nowhere({"deal"})
  BY <1>0, OneThreadDeals, OneThreadCounts DEF OtherStep, HandOK, Home
<1>2. \A d \in Ids : HandOK(d)'
  BY <1>1 DEF HandOK
<1>3. ASSUME Running', pc'[c] # "deal", NEW p \in players', role'[p] # "NONE"
      PROVE  Briefed(p)'
  <2>1. Moves(c)
    BY <1>0, StepsAreMoves
  <2>2. ~DealRoles(c)
    BY <1>0, <1>3 DEF DealRoles, Goto, TypeOK
  <2>3. /\ Running /\ UNCHANGED <<topic, word>> /\ players \subseteq players'
        /\ role' = role \/ Join(c)
    BY <1>3, <2>1, <2>2 DEF Moves, Join, AddPlayer, SubmitVote, gameVars
  <2>4. UNCHANGED role /\ told' = told
    <3>1. CASE Join(c)
      BY <1>0, <2>3, <3>1 DEF Join, AddPlayer, TypeOK, GameTypeOK, OtherStep
    <3>2. CASE role' = role
      BY <1>0, <2>3, <3>2 DEF OtherStep
    <3> QED
      BY <2>3, <3>1, <3>2
  <2>5. p \in players
    BY <1>3, <2>1, <2>2, <2>4, <1>0 DEF Moves, Join, AddPlayer, SubmitVote, gameVars,
       TypeOK, GameTypeOK
  <2> QED
    BY <1>1, <1>3, <2>3, <2>4, <2>5 DEF BriefInv, Briefed
<1> QED
  BY <1>2, <1>3 DEF BriefInv, Nowhere

(* Between packets, every player with a role has been told it, the topic   *)
(* and, if it is to know it, the word of the running round.                *)
THEOREM SerialEveryoneIsBriefed == SerialSpec => []EveryoneIsBriefed
<1>1. LobbyInit => BriefInv
  BY DEF LobbyInit, DealInit, Init, GameInit, EmptyHand, BriefInv, HandOK, Running
<1>2. DealTypeOK /\ PlayInv /\ BriefInv /\ [SerialNext]_lobbyVars => BriefInv'
  <2> SUFFICES ASSUME DealTypeOK, PlayInv, BriefInv, [SerialNext]_lobbyVars
               PROVE  BriefInv'
    OBVIOUS
  <2>1. CASE UNCHANGED dealVars
    BY <2>1 DEF dealVars, vars, gameVars, BriefInv, HandOK, Briefed, Running, Nowhere
  <2>2. ASSUME NEW c \in Ids, Alone(c), LobbyStep(c) PROVE BriefInv'
    BY <2>1, <2>2, LobbyStepIsDealStep, DealingBriefs, OthersKeepBriefed
  <2> QED
    BY <2>1, <2>2 DEF SerialNext, SerialStep, lobbyVars
<1>3. BriefInv => EveryoneIsBriefed
  <2> SUFFICES ASSUME BriefInv, Quiet, roundActive PROVE EveryoneIsBriefed
    BY DEF EveryoneIsBriefed
  <2>1. Running /\ Nowhere({"deal"})
    BY DEF Quiet, Running, Nowhere, Home, ClearStages
  <2> QED
    BY <2>1 DEF BriefInv, Briefed, EveryoneIsBriefed
<1> QED
  BY <1>1, <1>2, <1>3, SerialInvariant, PTL DEF SerialSpec
----------------------------------------------------------------------------
(* The game of LiarLine.                                                   *)

(* Only players are dealt a role or voted for, and only players vote.      *)
SeatedOK == TypeOK /\ VotesAmongPlayers

(* More than half of the players, in whole numbers.                        *)
LEMMA HalfOf ==
  ASSUME NEW n \in Nat, NEW t \in Nat
  PROVE  n > (t \div 2) <=> 2 * n > t
OBVIOUS

(* LiarLine counts as GameState does.                                      *)
LEMMA SameCount == \A S : Game!Cardinality(S) = Cardinality(S)
BY DEF Game!Cardinality, Cardinality

(* The tally counts the votes of the ballot.                               *)
LEMMA TallyOfBallot ==
  ASSUME SeatedOK, Running, NEW t \in Ids
  PROVE  /\ VoteTally[t] = Cardinality(Game!VotersFor(t))
         /\ VoteTally[t] \in Nat /\ Cardinality(players) \in Nat
         /\ Game!VotersFor(t) \subseteq players /\ IsFiniteSet(players)
         /\ Game!VotersFor(t) # {} => t \in players
         /\ Game!VotersFor(t) = {} => VoteTally[t] = 0
         /\ Game!VotedOut(t) <=> VoteTally[t] > (Cardinality(players) \div 2)
<1>1. Game!VotersFor(t) = {v \in players : votes[v] = t}
  BY DEF Game!VotersFor
<1>2. {v \in players : votes[v] = t} = {v \in Ids : votes[v] = t}
  BY GameStateAssumption
     DEF SeatedOK, VotesAmongPlayers, HasPlayerVoted, TypeOK, GameTypeOK
<1>3. VoteTally[t] = Cardinality(Game!VotersFor(t))
  BY <1>1, <1>2 DEF VoteTally
<1>4. VoteTally[t] \in Nat /\ Cardinality(players) \in Nat
  BY Counts DEF SeatedOK, TypeOK
<1>5. IsFiniteSet(players)
  BY FS_Subset, GameStateAssumption DEF SeatedOK, TypeOK, GameTypeOK
<1>6. Game!VotersFor(t) # {} => t \in players
  BY <1>1, GameStateAssumption DEF SeatedOK, VotesAmongPlayers, HasPlayerVoted, TypeOK, GameTypeOK
<1>7. Game!VotersFor(t) = {} => VoteTally[t] = 0
  BY <1>3, FS_EmptySet
<1>8. Game!VotedOut(t) <=> VoteTally[t] > (Cardinality(players) \div 2)
  BY <1>3, <1>4, HalfOf, SameCount DEF Game!VotedOut
<1> QED
  BY <1>1, <1>3, <1>4, <1>5, <1>6, <1>7, <1>8

(* No two players are both voted out.                                      *)
LEMMA OneIsVotedOut ==
  ASSUME SeatedOK, Running, NEW p \in Ids, NEW q \in Ids, Game!VotedOut(p), Game!VotedOut(q)
  PROVE  p = q
<1> DEFINE P == Game!VotersFor(p)
           Q == Game!VotersFor(q)
<1>1. /\ IsFiniteSet(players) /\ P \subseteq players /\ Q \subseteq players
      /\ Cardinality(P) \in Nat /\ Cardinality(Q) \in Nat /\ Cardinality(players) \in Nat
  BY TallyOfBallot
<1>2. 2 * Cardinality(P) > Cardinality(players) /\ 2 * Cardinality(Q) > Cardinality(players)
  BY SameCount DEF Game!VotedOut
<1>3. Cardinality(P) + Cardinality(Q) > Cardinality(players)
  <2> HIDE DEF P, Q
  <2> QED
    BY <1>1, <1>2
<1>4. P \cap Q # {}
  <2> HIDE DEF P, Q
  <2> QED
    BY <1>1, <1>3, FS_MajoritiesIntersect
<1> QED
  BY <1>4 DEF Game!VotersFor

(* What the loop over the tally ends with is voted out if anybody is.      *)
LEMMA WinnerIsVotedOut ==
  ASSUME SeatedOK, Running, NEW w \in Winners(VoteTally)
  PROVE  /\ w \in Ids \cup {Nobody}
         /\ HasMajority(VoteTally, w, Cardinality(players))
              <=> \E q \in players : Game!VotedOut(q)
         /\ \A q \in players : Game!VotedOut(q) => q = w
<1>0. /\ players \subseteq Ids /\ VoteTally \in [Ids -> Nat] /\ Cardinality(players) \in Nat
      /\ Nobody \notin Ids
  BY Counts, GameStateAssumption DEF SeatedOK, TypeOK, GameTypeOK
<1>1. (Cardinality(players) \div 2) \in Nat
  BY <1>0
<1>2. w \in Ids \cup {Nobody}
  BY DEF Winners
<1>3. ASSUME NEW q \in players, Game!VotedOut(q)
      PROVE  q = w /\ HasMajority(VoteTally, w, Cardinality(players))
  <2>1. q \in Ids /\ VoteTally[q] > (Cardinality(players) \div 2)
    BY <1>0, <1>3, TallyOfBallot
  <2>2. w \in Ids /\ VoteTally[q] <= VoteTally[w]
    BY <1>0, <1>1, <2>1 DEF Winners
  <2>3. VoteTally[w] > (Cardinality(players) \div 2)
    BY <1>0, <1>1, <2>1, <2>2
  <2>4. Game!VotedOut(w)
    BY <2>2, <2>3, TallyOfBallot
  <2> QED
    BY <1>0, <1>3, <2>1, <2>2, <2>3, <2>4, OneIsVotedOut DEF HasMajority
<1>4. ASSUME HasMajority(VoteTally, w, Cardinality(players))
      PROVE  w \in players /\ Game!VotedOut(w)
  <2>1. w \in Ids /\ VoteTally[w] > (Cardinality(players) \div 2)
    BY <1>2, <1>4 DEF HasMajority
  <2>2. VoteTally[w] # 0
    BY <1>0, <1>1, <2>1
  <2> QED
    BY <2>1, <2>2, TallyOfBallot
<1> QED
  BY <1>2, <1>3, <1>4

(* The points given are those of the game.                                 *)
LEMMA PointsAreWinnings ==
  ASSUME SeatedOK, PlayInv, Running, NEW c \in Ids, pc[c] = "score", ApplyScores(c),
         ~OthersClear(c)
  PROVE  score' = [p \in Ids |-> score[p] + Game!Winnings[p]]
<1>0. /\ players \subseteq Ids /\ score \in [Ids -> Nat] /\ Nobody \notin Ids
      /\ liar \in players /\ roundActive /\ liar # Nobody
      /\ \A p \in Ids : role[p] = "GUESSER" => p \in players
  BY GameStateAssumption
     DEF SeatedOK, TypeOK, GameTypeOK, PlayInv, RunningOK, RoundIsOn, Running
<1>1. PICK w \in Winners(VoteTally) : frame[c].verdict = VerdictOn(w)
  BY DEF PlayInv, CountOK
<1> DEFINE majority == HasMajority(VoteTally, w, Cardinality(players))
           caught   == Game!VotedOut(liar)
<1>2. /\ majority <=> \E q \in players : Game!VotedOut(q)
      /\ caught <=> majority /\ w = liar
  BY <1>0, <1>1, WinnerIsVotedOut
<1>3. /\ frame[c].verdict.winner = w
      /\ frame[c].verdict.majority = majority
      /\ frame[c].verdict.caught = (majority /\ w = liar)
  <2>1. VerdictOn(w) = [winner |-> w, majority |-> majority, caught |-> majority /\ w = liar]
    BY DEF VerdictOn
  <2> HIDE DEF majority
  <2> QED
    BY <1>1, <2>1
<1>4. score' = IF caught THEN Award(CorrectGuessers, 1)
               ELSE IF majority THEN Award({liar} \cap players, 2)
               ELSE score
  <2>1. CorrectGuessers \cap Ids = CorrectGuessers /\ {liar} \cap players \cap Ids = {liar} \cap players
    BY <1>0 DEF CorrectGuessers
  <2>2. Seen(c) = {Ids}
    BY DEF Seen
  <2> HIDE DEF majority, caught
  <2> QED
    BY <1>0, <1>2, <1>3, <2>1, <2>2 DEF ApplyScores, CalculateAndApplyScores
<1>5. Game!Winnings =
        [p \in Ids |-> IF caught
                       THEN IF role[p] = "GUESSER" /\ votes[p] = liar THEN 1 ELSE 0
                       ELSE IF p = liar /\ majority THEN 2 ELSE 0]
  BY <1>2 DEF Game!Winnings
<1> HIDE DEF majority, caught
<1>6. CASE caught
  BY <1>0, <1>4, <1>5, <1>6 DEF Award, CorrectGuessers
<1>7. CASE ~caught /\ majority
  BY <1>0, <1>4, <1>5, <1>7 DEF Award
<1>8. CASE ~caught /\ ~majority
  BY <1>0, <1>4, <1>5, <1>8
<1> QED
  BY <1>6, <1>7, <1>8

(* Every move is one of the game, or changes nothing of it.                *)
LEMMA MovesPlayTheGame ==
  ASSUME SeatedOK, PlayInv, NEW c \in Ids, Moves(c)
  PROVE  Game!Next \/ UNCHANGED Game!vars
<1>0. /\ players \subseteq Ids /\ role \in [Ids -> Roles]
      /\ votes \in [Ids -> Ids \cup {Nobody}] /\ Nobody \notin Ids
      /\ \A p \in Ids \ players : role[p] = "NONE" /\ score[p] = 0
      /\ score \in [Ids -> Nat]
      /\ Running \in BOOLEAN /\ Running' \in BOOLEAN
  BY GameStateAssumption DEF SeatedOK, TypeOK, GameTypeOK, Running
<1>1. CASE Join(c) /\ (Running' <=> Running)
  <2>1. /\ c \notin players /\ players' = players \cup {c}
        /\ UNCHANGED <<score, role, liar, votes>>
    BY <1>0, <1>1 DEF Join, AddPlayer
  <2>2. Game!Join(c)
    BY <1>0, <1>1, <2>1 DEF Game!Join
  <2> QED
    BY <2>2 DEF Game!Next
<1>2. CASE Remove(c) /\ ~Running'
  <2>1. c \in players /\ players' = players \ {c} /\ score' = [score EXCEPT ![c] = 0]
    BY <1>2 DEF Remove, RemovePlayer, EraseState
  <2>2. Game!Leave(c)
    BY <1>2, <2>1 DEF Game!Leave, Game!NoRound, Game!NoBallot, NoVotes
  <2> QED
    BY <2>2 DEF Game!Next
<1>3. CASE /\ DealRoles(c) /\ ~Running /\ Running'
            /\ CanStartRound /\ liar \in players /\ votes = NoVotes
  <2>1. /\ liar' \in players /\ role' = RolesDealt(liar') /\ votes' = NoVotes
        /\ UNCHANGED <<players, score>>
    BY <1>3 DEF DealRoles
  <2>2. {p \in Ids : role'[p] = "GUESSER"} = players \ {liar'}
    BY <1>0, <2>1 DEF RolesDealt
  <2>3. Game!Start
    BY <1>0, <1>3, <2>1, <2>2, SameCount DEF Game!Start, CanStartRound
  <2> QED
    BY <2>3 DEF Game!Next
<1>4. CASE SubmitVote(c, frame[c].target) /\ Running /\ Running'
  <2>1. /\ {c, frame[c].target} \subseteq players /\ votes[c] = Nobody
        /\ votes' = [votes EXCEPT ![c] = frame[c].target]
        /\ UNCHANGED <<players, score, liar, role>>
    BY <1>4 DEF SubmitVote, VoteCounts, HasPlayerVoted
  <2>2. Game!Vote(c, frame[c].target)
    BY <1>4, <2>1 DEF Game!Vote
  <2> QED
    BY <1>0, <2>1, <2>2 DEF Game!Next
<1>5. CASE ApplyScores(c) /\ Running /\ ~Running' /\ pc[c] = "score" /\ ~OthersClear(c)
  <2>1. score' = [p \in Ids |-> score[p] + Game!Winnings[p]]
    BY <1>5, PointsAreWinnings
  <2>2. \A p \in players : votes[p] # Nobody
    BY <1>5 DEF PlayInv, CountOK, VotersIn, HasPlayerVoted
  <2>3. UNCHANGED players
    BY <1>5 DEF ApplyScores, CalculateAndApplyScores
  <2>4. Game!Resolve
    BY <1>5, <2>1, <2>2, <2>3 DEF Game!Resolve, Game!NoRound, Game!NoBallot, NoVotes
  <2> QED
    BY <2>4 DEF Game!Next
<1>6. CASE ~Running /\ ~Running' /\ UNCHANGED <<players, score>>
  BY <1>0, <1>6 DEF Game!vars
<1>7. CASE UNCHANGED gameVars /\ (Running' <=> Running)
  BY <1>7 DEF Game!vars, gameVars
<1> QED
  BY <1>1, <1>2, <1>3, <1>4, <1>5, <1>6, <1>7 DEF Moves

(* When packets are handled one at a time the server plays LiarLine: every *)
(* step of it is a step of the game, or none.  That it makes progress is   *)
(* not part of this.                                                       *)
THEOREM SerialPlaysLiarLine == SerialSpec => Game!Init /\ [][Game!Next]_(Game!vars)
<1>1. LobbyInit => Game!Init
  <2>1. LobbyInit => ~Running
    BY DEF LobbyInit, DealInit, Init, GameInit, Running
  <2> QED
    BY <2>1 DEF LobbyInit, DealInit, Init, GameInit, Game!Init, Game!NoBallot, NoVotes
<1>2. TypeOK /\ VotesAmongPlayers /\ PlayInv /\ [SerialNext]_lobbyVars => [Game!Next]_(Game!vars)
  <2>1. ASSUME TypeOK, VotesAmongPlayers, PlayInv, [SerialNext]_lobbyVars
        PROVE  Game!Next \/ UNCHANGED Game!vars
    <3>1. CASE UNCHANGED <<gameVars, pc>>
      BY <3>1 DEF gameVars, Running, Game!vars
    <3>2. ASSUME NEW c \in Ids, Moves(c) PROVE Game!Next \/ UNCHANGED Game!vars
      BY <2>1, <3>2, MovesPlayTheGame DEF SeatedOK
    <3> QED
      BY <2>1, <3>1, <3>2, SerialStepIsMove
  <2> QED
    BY <2>1
<1> QED
  BY <1>1, <1>2, SerialInvariant, PTL DEF SerialSpec
=============================================================================
