------------------------- MODULE RoleDealingProofs -------------------------
(***************************************************************************)
(* The liar is never told the word of its round, however many threads deal *)
(* cards at once, with the packets of module LobbyView sent in between     *)
(* too: neither dealing nor keeping the clients' lists disturbs the game,  *)
(* so what is proved of the server holds with them.                        *)
(***************************************************************************)
EXTENDS LobbyView, GameServerProofs, SequenceTheorems

----------------------------------------------------------------------------
(* Dealing in detail is dealing: every step is a step of GameServer or     *)
(* leaves its variables alone.                                             *)

(* A step of the dealing is invisible to GameServer, or is its step Deal.  *)
LEMMA DealStepIsDeal ==
  ASSUME NEW c \in Ids, DealStep(c)
  PROVE  UNCHANGED vars \/ Deal(c)
BY DEF DealStep, ReadTopic, ReadWord, ReadLiar, ReadRoles, Send, Dealt

(* Dealing role by role implements GameServer: whatever is proved of the   *)
(* server holds of it.                                                     *)
THEOREM DealImplementsServer == DealSpec => Spec
<1>1. DealInit => Init
  BY DEF DealInit
<1>2. [DealNext]_dealVars => [Next]_vars
  BY DealStepIsDeal
     DEF DealNext, OtherStep, dealVars, Next, HandlerStep
<1> QED
  BY <1>1, <1>2, PTL DEF DealSpec, Spec

----------------------------------------------------------------------------
(* Types.                                                                  *)

LocalsOK ==
  /\ hand \in [Ids -> Hands]
  /\ told \in [Ids -> Assignments]
  /\ \A p \in Ids : /\ pc[p] # "deal" => hand[p] = EmptyHand
                    /\ p \notin players => told[p] = Untold

(* The locals a thread starts to deal with are well-typed.                 *)
LEMMA EmptyHandType == EmptyHand \in Hands /\ Untold \in Assignments
BY DEF EmptyHand, Hands, Reading, NoRoles, Untold, Assignments, Roles

(* Each read of the dealing leaves a well-typed hand.                      *)
LEMMA HandType ==
  ASSUME NEW h \in Hands
  PROVE  /\ \A n \in Nat : [h EXCEPT !.topic = n, !.at = "word"] \in Hands
         /\ \A n \in Nat : [h EXCEPT !.word = n, !.at = "liar"] \in Hands
         /\ [h EXCEPT !.at = "roles"] \in Hands
         /\ \A s \in [Ids -> Roles] : [h EXCEPT !.seats = s, !.at = "send"] \in Hands
         /\ \A p \in Ids : [h EXCEPT !.seats[p] = "NONE"] \in Hands
BY DEF Hands, Reading, Roles

(* So does the dealing of one role or of all of them.                      *)
LEMMA DealStepHands ==
  ASSUME TypeOK, LocalsOK, NEW c \in Ids, DealStep(c)
  PROVE  /\ \E h \in Hands : /\ hand' = [hand EXCEPT ![c] = h]
                             /\ h = EmptyHand \/ UNCHANGED pc
         /\ pc[c] = "deal"
<1>0. topic \in Nat /\ word \in Nat /\ role \in [Ids -> Roles] /\ hand[c] \in Hands
  BY DEF TypeOK, GameTypeOK, LocalsOK
<1>1. pc[c] = "deal"
  BY DEF DealStep, ReadTopic, ReadWord, ReadLiar, ReadRoles, Send, Dealt, At
<1>2. CASE ReadTopic(c)
  <2> DEFINE h == [hand[c] EXCEPT !.topic = topic, !.at = "word"]
  <2>1. h \in Hands
    BY <1>0, HandType
  <2>2. hand' = [hand EXCEPT ![c] = h] /\ UNCHANGED pc
    BY <1>2 DEF ReadTopic, vars
  <2> HIDE DEF h
  <2> QED
    BY <1>1, <2>1, <2>2
<1>3. CASE ReadWord(c)
  <2> DEFINE h == [hand[c] EXCEPT !.word = word, !.at = "liar"]
  <2>1. h \in Hands
    BY <1>0, HandType
  <2>2. hand' = [hand EXCEPT ![c] = h] /\ UNCHANGED pc
    BY <1>3 DEF ReadWord, vars
  <2> HIDE DEF h
  <2> QED
    BY <1>1, <2>1, <2>2
<1>4. CASE ReadLiar(c)
  BY <1>0, <1>1, <1>4, HandType, EmptyHandType DEF ReadLiar, vars
<1>5. CASE ReadRoles(c)
  <2> DEFINE h == [hand[c] EXCEPT !.seats = role, !.at = "send"]
  <2>1. h \in Hands
    BY <1>0, HandType
  <2>2. hand' = [hand EXCEPT ![c] = h] /\ UNCHANGED pc
    BY <1>5 DEF ReadRoles, vars
  <2> HIDE DEF h
  <2> QED
    BY <1>1, <2>1, <2>2
<1>6. ASSUME NEW p \in Ids, Send(c, p)
      PROVE  \E h \in Hands : hand' = [hand EXCEPT ![c] = h] /\ UNCHANGED pc
  BY <1>0, <1>6, HandType DEF Send, vars
<1>7. CASE Dealt(c)
  BY <1>1, <1>7, EmptyHandType DEF Dealt
<1> QED
  BY <1>1, <1>2, <1>3, <1>4, <1>5, <1>6, <1>7 DEF DealStep

(* Every step keeps hands and assignments well-typed.                      *)
LEMMA LocalsStep ==
  ASSUME TypeOK, LocalsOK, NEW c \in Ids, DealStep(c) \/ OtherStep(c)
  PROVE  LocalsOK'
<1>0. /\ hand \in [Ids -> Hands] /\ told \in [Ids -> Assignments]
      /\ \A d \in Ids \ {c} : pc'[d] = pc[d]
  BY OneThreadMoves, DealStepIsDeal
     DEF TypeOK, LocalsOK, OtherStep, HandlerStep, vars
<1>1. CASE DealStep(c)
  <2>1. PICK h \in Hands : /\ hand' = [hand EXCEPT ![c] = h]
                           /\ h = EmptyHand \/ UNCHANGED pc
    BY <1>1, DealStepHands
  <2>2. pc[c] = "deal" /\ UNCHANGED players
    BY <1>1, DealStepHands, DealStepIsDeal DEF Deal, Reads, vars, gameVars
  <2>3. hand' \in [Ids -> Hands] /\ \A d \in Ids : pc'[d] # "deal" => hand'[d] = EmptyHand
    BY <1>0, <2>1, <2>2 DEF LocalsOK
  <2>4. ASSUME NEW p \in Ids, Send(c, p)
        PROVE  /\ told' \in [Ids -> Assignments]
               /\ \A q \in Ids : q \notin players => told'[q] = Untold
    <3>1. hand[c] \in Hands
      BY <1>0
    <3>2. Assignment(c, p) \in Assignments
      BY <3>1 DEF Assignment, Assignments, Hands
    <3> QED
      BY <1>0, <2>4, <3>2 DEF Send, Online, LocalsOK
  <2>5. CASE UNCHANGED told
    BY <2>2, <2>3, <2>5 DEF LocalsOK
  <2> QED
    BY <1>1, <2>2, <2>3, <2>4, <2>5
       DEF DealStep, ReadTopic, ReadWord, ReadLiar, ReadRoles, Dealt, LocalsOK
<1>2. CASE OtherStep(c)
  <2>1. hand' = hand /\ pc[c] # "deal"
    BY <1>2 DEF OtherStep
  <2>2. told' = [p \in Ids |-> IF p \in players \ players' THEN Untold ELSE told[p]]
    BY <1>2 DEF OtherStep
  <2> QED
    BY <1>0, <2>1, <2>2, EmptyHandType DEF LocalsOK
<1> QED
  BY <1>1, <1>2

(* The variables of the dealing threads and what clients have been told    *)
(* have their types, and so have the server's.                             *)
THEOREM DealType == DealSpec => []DealTypeOK
<1>1. DealInit => LocalsOK
  BY EmptyHandType DEF DealInit, LocalsOK
<1>2. TypeOK /\ LocalsOK /\ [DealNext]_dealVars => LocalsOK'
  <2>1. LocalsOK /\ UNCHANGED dealVars => LocalsOK'
    BY DEF dealVars, vars, gameVars, LocalsOK
  <2> QED
    BY <2>1, LocalsStep DEF DealNext
<1>3. DealSpec => []TypeOK
  BY DealImplementsServer, ServerType, PTL
<1>4. TypeOK /\ LocalsOK => DealTypeOK
  BY DEF LocalsOK, DealTypeOK
<1> QED
  BY <1>1, <1>2, <1>3, <1>4, PTL DEF DealSpec

----------------------------------------------------------------------------
(* The secret.  A thread reads the word before the roles: when it holds    *)
(* the word of the running round, the roles it will hold, or holds, are    *)
(* those of that round or none, and the liar is no guesser in them.  A     *)
(* later round has another word, which nobody reads before its roles are   *)
(* dealt and the lock is given up.                                         *)

LiarIsNoGuesser == liar # Nobody => role[liar] # "GUESSER" /\ round > 0

NothingFromTheFuture ==
  \A c \in Ids : hand[c].word <= round /\ told[c].word <= round

SeatsAreReadLast ==
  \A c \in Ids : hand[c].at # "send" => hand[c].seats = NoRoles

HandsHideTheWord ==
  \A c \in Ids : hand[c].word = round /\ liar # Nobody => hand[c].seats[liar] # "GUESSER"

StartIsUnderWay == \E c \in Ids : pc[c] \in Starting

FreshWord ==
  StartIsUnderWay => \A c \in Ids : hand[c].word # round /\ told[c].word # round

SecretIsSafe ==
  /\ LiarIsNoGuesser /\ NothingFromTheFuture /\ SeatsAreReadLast
  /\ HandsHideTheWord /\ FreshWord /\ SecretKept

(* A new hand for one thread that respects all this.                       *)
SafeHand(h) ==
  /\ h.word \in 0..round
  /\ h.at # "send" => h.seats = NoRoles
  /\ h.word = round /\ liar # Nobody => h.seats[liar] # "GUESSER"
  /\ StartIsUnderWay => h.word # round

(* A thread may take up any safe hand without giving the secret away.      *)
LEMMA SafeHandStep ==
  ASSUME DealTypeOK, SecretIsSafe, NEW c \in Ids, NEW h \in Hands, SafeHand(h),
         hand' = [hand EXCEPT ![c] = h], UNCHANGED <<gameVars, told>>,
         StartIsUnderWay' => StartIsUnderWay
  PROVE  SecretIsSafe'
<1>1. hand \in [Ids -> Hands]
  BY DEF DealTypeOK
<1>2. UNCHANGED <<liar, role, round>>
  BY DEF gameVars
<1>3. \A d \in Ids : hand'[d] = IF d = c THEN h ELSE hand[d]
  BY <1>1
<1>4. LiarIsNoGuesser' /\ SecretKept'
  BY <1>2 DEF SecretIsSafe, LiarIsNoGuesser, SecretKept
<1>5. NothingFromTheFuture'
  BY <1>2, <1>3 DEF SecretIsSafe, NothingFromTheFuture, SafeHand
<1>6. SeatsAreReadLast'
  BY <1>3 DEF SecretIsSafe, SeatsAreReadLast, SafeHand
<1>7. HandsHideTheWord'
  BY <1>2, <1>3 DEF SecretIsSafe, HandsHideTheWord, SafeHand
<1>8. FreshWord'
  BY <1>2, <1>3 DEF SecretIsSafe, FreshWord, SafeHand
<1> QED
  BY <1>4, <1>5, <1>6, <1>7, <1>8 DEF SecretIsSafe

(* Who can lock mutex_ and is not starting a round knows that nobody is.   *)
LEMMA NoStartUnderWay ==
  ASSUME NEW c \in Ids, pc[c] = "deal", MutexFree(c)
  PROVE  ~StartIsUnderWay
BY DEF MutexFree, StartIsUnderWay, Locking, Starting

(* A step of the dealing starts no round.                                  *)
LEMMA DealingStartsNothing ==
  ASSUME DealTypeOK, NEW c \in Ids, Deal(c) \/ UNCHANGED pc
  PROVE  StartIsUnderWay' => StartIsUnderWay
<1>1. pc \in [Ids -> Stages] /\ Return(c) \notin Starting
  BY DEF DealTypeOK, TypeOK, Return, Starting
<1> QED
  BY <1>1 DEF Deal, Goto, StartIsUnderWay

(* The reads of topic, word and roles leave a safe hand.                   *)
LEMMA ReadKeepsSecret ==
  ASSUME DealTypeOK, SecretIsSafe, NEW c \in Ids,
         ReadTopic(c) \/ ReadWord(c) \/ ReadRoles(c)
  PROVE  SecretIsSafe'
<1>0. /\ topic \in Nat /\ word \in Nat /\ word \in 0..round /\ round \in Nat
      /\ role \in [Ids -> Roles] /\ liar \in Ids \cup {Nobody} /\ hand[c] \in Hands
  BY DEF DealTypeOK, TypeOK, GameTypeOK
<1>1. hand[c].word \in 0..round /\ ~StartIsUnderWay
  BY <1>0, NoStartUnderWay
     DEF SecretIsSafe, NothingFromTheFuture, Hands, ReadTopic, ReadWord, ReadRoles, At
<1>2. CASE ReadTopic(c)
  <2> DEFINE h == [hand[c] EXCEPT !.topic = topic, !.at = "word"]
  <2>1. h \in Hands
    BY <1>0, HandType
  <2>2. SafeHand(h)
    BY <1>0, <1>1, <1>2
       DEF ReadTopic, At, Hands, SafeHand, SecretIsSafe, SeatsAreReadLast, NoRoles
  <2> QED
    BY <1>2, <2>1, <2>2, SafeHandStep, DealingStartsNothing DEF ReadTopic, vars
<1>3. CASE ReadWord(c)
  <2> DEFINE h == [hand[c] EXCEPT !.word = word, !.at = "liar"]
  <2>1. h \in Hands
    BY <1>0, HandType
  <2>2. SafeHand(h)
    BY <1>0, <1>1, <1>3
       DEF ReadWord, At, Hands, SafeHand, SecretIsSafe, SeatsAreReadLast, NoRoles
  <2> QED
    BY <1>3, <2>1, <2>2, SafeHandStep, DealingStartsNothing DEF ReadWord, vars
<1>4. CASE ReadRoles(c)
  <2> DEFINE h == [hand[c] EXCEPT !.seats = role, !.at = "send"]
  <2>1. h \in Hands
    BY <1>0, HandType
  <2>2. SafeHand(h)
    BY <1>0, <1>1, <1>4, ZenonT(60)
       DEF ReadRoles, Hands, SafeHand, SecretIsSafe, LiarIsNoGuesser
  <2> QED
    BY <1>4, <2>1, <2>2, SafeHandStep, DealingStartsNothing DEF ReadRoles, vars
<1> QED
  BY <1>2, <1>3, <1>4

(* A ROLE_ASSIGNMENT sent from a safe hand does not tell the liar the      *)
(* word.                                                                   *)
LEMMA SendKeepsSecret ==
  ASSUME DealTypeOK, SecretIsSafe, NEW c \in Ids, NEW p \in Ids, Send(c, p)
  PROVE  SecretIsSafe'
<1>0. /\ round \in Nat /\ liar \in Ids \cup {Nobody} /\ hand[c] \in Hands
      /\ hand \in [Ids -> Hands] /\ told \in [Ids -> Assignments]
      /\ UNCHANGED <<liar, role, round, pc>>
  BY DEF DealTypeOK, TypeOK, GameTypeOK, Send, vars, gameVars
<1>1. Assignment(c, p).word \in {0, hand[c].word} /\ hand[c].word <= round
  BY DEF Assignment, SecretIsSafe, NothingFromTheFuture
<1>2. ASSUME liar = p, liar # Nobody PROVE Assignment(c, p).word # round
  BY <1>0, <1>2 DEF Assignment, SecretIsSafe, HandsHideTheWord, LiarIsNoGuesser
<1>3. \A d \in Ids : \/ told'[d] = told[d]
                     \/ d = p /\ told'[d] = Assignment(c, p)
  BY <1>0 DEF Send
<1>4. \A d \in Ids : /\ hand'[d].word = hand[d].word
                     /\ hand'[d].at = hand[d].at
                     /\ \A q \in Ids : hand'[d].seats[q] \in {hand[d].seats[q], "NONE"}
                     /\ d # c => hand'[d] = hand[d]
  BY <1>0 DEF Send, Hands
<1>5. LiarIsNoGuesser'
  BY <1>0 DEF SecretIsSafe, LiarIsNoGuesser
<1>6. NothingFromTheFuture'
  BY <1>0, <1>1, <1>3, <1>4 DEF SecretIsSafe, NothingFromTheFuture
<1>7. SeatsAreReadLast'
  BY <1>4 DEF SecretIsSafe, SeatsAreReadLast, Send, At
<1>8. HandsHideTheWord'
  BY <1>0, <1>4 DEF SecretIsSafe, HandsHideTheWord
<1>9. SecretKept'
  BY <1>0, <1>2, <1>3 DEF SecretIsSafe, SecretKept
<1>10. FreshWord'
  <2>1. StartIsUnderWay' => StartIsUnderWay
    BY <1>0 DEF StartIsUnderWay
  <2>2. StartIsUnderWay => round # 0
    BY <1>0 DEF SecretIsSafe, FreshWord, StartIsUnderWay, EmptyHand, DealTypeOK, Starting
  <2> QED
    BY <1>0, <1>1, <1>3, <1>4, <2>1, <2>2 DEF SecretIsSafe, FreshWord
<1> QED
  BY <1>5, <1>6, <1>7, <1>8, <1>9, <1>10 DEF SecretIsSafe

(* Giving up the dealing keeps the secret.                                 *)
LEMMA EmptyHandKeepsSecret ==
  ASSUME DealTypeOK, SecretIsSafe, NEW c \in Ids,
         hand' = [hand EXCEPT ![c] = EmptyHand], UNCHANGED <<gameVars, told>>, Deal(c)
  PROVE  SecretIsSafe'
<1>1. round \in Nat /\ liar \in Ids \cup {Nobody}
  BY DEF DealTypeOK, TypeOK, GameTypeOK
<1>2. StartIsUnderWay => round # 0
  BY DEF SecretIsSafe, FreshWord, StartIsUnderWay, EmptyHand, DealTypeOK, Starting
<1>3. SafeHand(EmptyHand)
  BY <1>1, <1>2 DEF SafeHand, EmptyHand, NoRoles
<1> QED
  BY <1>3, EmptyHandType, SafeHandStep, DealingStartsNothing

(* So does every step of the dealing.                                      *)
LEMMA DealStepKeepsSecret ==
  ASSUME DealTypeOK, SecretIsSafe, NEW c \in Ids, DealStep(c)
  PROVE  SecretIsSafe'
<1>1. CASE ReadLiar(c)
  <2>1. CASE liar = Nobody \/ hand[c].topic = 0
    BY <1>1, <2>1, EmptyHandKeepsSecret DEF ReadLiar, Deal, Reads
  <2>2. CASE ~(liar = Nobody \/ hand[c].topic = 0)
    <3> DEFINE h == [hand[c] EXCEPT !.at = "roles"]
    <3>1. hand[c] \in Hands /\ round \in Nat /\ liar \in Ids \cup {Nobody}
      BY DEF DealTypeOK, TypeOK, GameTypeOK
    <3>2. h \in Hands
      BY <3>1, HandType
    <3>3. SafeHand(h)
      BY <1>1, <3>1, NoStartUnderWay
         DEF ReadLiar, At, Hands, SafeHand, SecretIsSafe, SeatsAreReadLast,
             NothingFromTheFuture, NoRoles
    <3> QED
      BY <1>1, <2>2, <3>2, <3>3, SafeHandStep, DealingStartsNothing DEF ReadLiar, vars
  <2> QED
    BY <2>1, <2>2
<1>2. CASE Dealt(c)
  BY <1>2, EmptyHandKeepsSecret DEF Dealt, Deal, Reads
<1> QED
  BY <1>1, <1>2, ReadKeepsSecret, SendKeepsSecret DEF DealStep

(* A new round outdates every word in hand or told.                        *)
LEMMA NewRoundKeepsSecret ==
  ASSUME DealTypeOK, SecretIsSafe, BeginsRound, hand' = hand,
         \A p \in Ids : told'[p].word \in {0, told[p].word}
  PROVE  SecretIsSafe'
<1>0. /\ round \in Nat /\ round' = round + 1 /\ liar' = Nobody
      /\ hand \in [Ids -> Hands] /\ told \in [Ids -> Assignments]
  BY DEF DealTypeOK, TypeOK, GameTypeOK, BeginsRound
<1>1. \A p \in Ids : hand'[p].word < round' /\ told'[p].word < round'
  <2> SUFFICES ASSUME NEW p \in Ids
               PROVE  hand'[p].word < round' /\ told'[p].word < round'
    OBVIOUS
  <2>1. hand[p].word \in Nat /\ told[p].word \in Nat
    BY <1>0 DEF Hands, Assignments
  <2>2. hand[p].word <= round /\ told[p].word <= round
    BY DEF SecretIsSafe, NothingFromTheFuture
  <2> QED
    BY <1>0, <2>1, <2>2
<1>2. \A p \in Ids : hand'[p].word \in Nat /\ told'[p].word \in Nat
  BY <1>0 DEF Hands, Assignments
<1>3. NothingFromTheFuture' /\ FreshWord'
  BY <1>0, <1>1, <1>2 DEF NothingFromTheFuture, FreshWord
<1>4. LiarIsNoGuesser' /\ HandsHideTheWord' /\ SecretKept'
  BY <1>0 DEF LiarIsNoGuesser, HandsHideTheWord, SecretKept
<1>5. SeatsAreReadLast'
  BY DEF SecretIsSafe, SeatsAreReadLast
<1> QED
  BY <1>3, <1>4, <1>5 DEF SecretIsSafe

(* The liar is picked while nobody can have been told the word.            *)
LEMMA PickedLiarKeepsSecret ==
  ASSUME DealTypeOK, LockOK, SecretIsSafe, NEW c \in Ids, PicksLiar(c), hand' = hand,
         \A p \in Ids : told'[p].word \in {0, told[p].word},
         StartIsUnderWay' => StartIsUnderWay
  PROVE  SecretIsSafe'
<1>0. /\ round \in Nat /\ round' = round /\ role' = role /\ liar' \in Ids
      /\ hand \in [Ids -> Hands] /\ told \in [Ids -> Assignments]
  BY DEF DealTypeOK, TypeOK, GameTypeOK, PicksLiar
<1>1. StartIsUnderWay /\ role = NoRoles
  BY DEF PicksLiar, StartIsUnderWay, Starting, LockOK, StartsFromBlank
<1>2. hand[c].word # round /\ round # 0
  BY <1>1 DEF SecretIsSafe, FreshWord, PicksLiar, DealTypeOK, EmptyHand
<1>3. \A p \in Ids : hand'[p].word # round' /\ told'[p].word # round'
  BY <1>0, <1>1, <1>2 DEF SecretIsSafe, FreshWord
<1>4. LiarIsNoGuesser'
  BY <1>0, <1>1, <1>2 DEF LiarIsNoGuesser, NoRoles
<1>5. NothingFromTheFuture' /\ SeatsAreReadLast'
  BY <1>0 DEF SecretIsSafe, NothingFromTheFuture, SeatsAreReadLast
<1>6. HandsHideTheWord' /\ FreshWord' /\ SecretKept'
  BY <1>0, <1>3 DEF HandsHideTheWord, FreshWord, SecretKept
<1> QED
  BY <1>4, <1>5, <1>6 DEF SecretIsSafe

(* Whatever else a step does to the game, it makes nobody the liar and     *)
(* the liar no guesser.                                                    *)
LEMMA SameRoundKeepsSecret ==
  ASSUME DealTypeOK, SecretIsSafe, hand' = hand,
         \A p \in Ids : told'[p].word \in {0, told[p].word},
         StartIsUnderWay' => StartIsUnderWay,
         round' = round, liar' \in {liar, Nobody},
         \A p \in Ids : role'[p] \in {role[p], "NONE"} \/ role'[p] = RolesDealt(liar)[p]
  PROVE  SecretIsSafe'
<1>0. /\ round \in Nat /\ liar \in Ids \cup {Nobody} /\ role \in [Ids -> Roles]
      /\ hand \in [Ids -> Hands] /\ told \in [Ids -> Assignments]
  BY DEF DealTypeOK, TypeOK, GameTypeOK
<1>1. RolesDealt(liar)[liar] # "GUESSER" \/ liar = Nobody
  BY <1>0 DEF RolesDealt
<1>2. LiarIsNoGuesser'
  BY <1>0, <1>1 DEF SecretIsSafe, LiarIsNoGuesser
<1>3. NothingFromTheFuture' /\ SeatsAreReadLast'
  BY <1>0 DEF SecretIsSafe, NothingFromTheFuture, SeatsAreReadLast
<1>4. HandsHideTheWord'
  BY <1>0 DEF SecretIsSafe, HandsHideTheWord
<1>5. SecretKept'
  BY <1>0 DEF SecretIsSafe, SecretKept, LiarIsNoGuesser
<1>6. FreshWord'
  <2>1. StartIsUnderWay => round # 0
    BY DEF SecretIsSafe, FreshWord, StartIsUnderWay, EmptyHand, DealTypeOK, Starting
  <2> QED
    BY <2>1 DEF SecretIsSafe, FreshWord
<1> QED
  BY <1>2, <1>3, <1>4, <1>5, <1>6 DEF SecretIsSafe

(* A step of the server outside the dealing is one of these.               *)
LEMMA OtherStepKeepsSecret ==
  ASSUME DealTypeOK, LockOK, SecretIsSafe, NEW c \in Ids, OtherStep(c)
  PROVE  SecretIsSafe'
<1>0. TypeOK /\ (HandlerStep(c) \/ Packet(c)) /\ hand' = hand /\ Effect(c)
  BY StepEffect DEF DealTypeOK, OtherStep
<1>1. \A p \in Ids : told'[p].word \in {0, told[p].word}
  BY DEF OtherStep, Untold
<1>2. CASE BeginsRound
  BY <1>0, <1>1, <1>2, NewRoundKeepsSecret
<1>3. CASE ~BeginsRound
  <2>1. pc'[c] \in Starting => pc[c] \in Starting
    BY <1>0, <1>3, StartingIsBlank, UnlockedGoes DEF LockOK, HandlerStep, Locking
  <2>2. StartIsUnderWay' => StartIsUnderWay
    BY <1>0, <2>1, OneThreadMoves DEF TypeOK, StartIsUnderWay
  <2>3. CASE PicksLiar(c)
    BY <1>0, <1>1, <2>2, <2>3, PickedLiarKeepsSecret
  <2>4. CASE ~PicksLiar(c)
    <3>1. role \in [Ids -> Roles]
      BY <1>0 DEF TypeOK, GameTypeOK
    <3>2. round' = round /\ liar' \in {liar, Nobody}
      BY <1>0, <1>3, <2>4
         DEF Effect, AddPlayer, RemovePlayer, LiarErased, Deals, Records, Erases
    <3>3. \A p \in Ids : role'[p] \in {role[p], "NONE"} \/ role'[p] = RolesDealt(liar)[p]
      BY <1>0, <1>3, <2>4, <3>1
         DEF Effect, AddPlayer, RemovePlayer, EraseState, Deals, Records, Erases
    <3> QED
      BY <1>0, <1>1, <2>2, <3>2, <3>3, SameRoundKeepsSecret
  <2> QED
    BY <2>3, <2>4
<1> QED
  BY <1>2, <1>3

(* Nobody ever tells the liar of the running round its word.               *)
THEOREM LiarNeverSeesTheWord == DealSpec => []SecretKept
<1>1. DealInit => SecretIsSafe
  BY GameStateAssumption
     DEF DealInit, Init, GameInit, EmptyHand, Untold, SecretIsSafe, LiarIsNoGuesser,
         NothingFromTheFuture, SeatsAreReadLast, HandsHideTheWord, FreshWord,
         StartIsUnderWay, Starting, SecretKept
<1>2. DealTypeOK /\ LockOK /\ SecretIsSafe /\ [DealNext]_dealVars => SecretIsSafe'
  <2>1. SecretIsSafe /\ UNCHANGED dealVars => SecretIsSafe'
    BY DEF dealVars, vars, gameVars, SecretIsSafe, LiarIsNoGuesser,
           NothingFromTheFuture, SeatsAreReadLast, HandsHideTheWord, FreshWord,
           StartIsUnderWay, SecretKept
  <2> QED
    BY <2>1, DealStepKeepsSecret, OtherStepKeepsSecret DEF DealNext
<1>3. SecretIsSafe => SecretKept
  BY DEF SecretIsSafe
<1>4. DealSpec => []LockOK
  BY DealImplementsServer, ServerLock, PTL
<1> QED
  BY <1>1, <1>2, <1>3, <1>4, DealType, PTL DEF DealSpec

----------------------------------------------------------------------------
(* The packets of the lobby.                                               *)

(* A step of the lobby is invisible to the game, or is a step of the       *)
(* dealing server.                                                         *)
LEMMA LobbyStepIsDealStep ==
  ASSUME NEW c \in Ids, LobbyStep(c)
  PROVE  UNCHANGED dealVars \/ DealStep(c) \/ OtherStep(c)
BY DEF LobbyStep, GameStep, MailStep, Read, List, SendNews, Sent

(* LobbyView implements RoleDealing.                                       *)
THEOREM LobbyImplementsDealing == LobbySpec => DealSpec
<1>1. LobbyInit => DealInit
  BY DEF LobbyInit
<1>2. [LobbyNext]_lobbyVars => [DealNext]_dealVars
  BY LobbyStepIsDealStep DEF LobbyNext, DealNext, lobbyVars
<1> QED
  BY <1>1, <1>2, PTL DEF LobbySpec, DealSpec

(* So with the packets of the lobby between the calls, too, nobody tells   *)
(* the liar the word.                                                      *)
THEOREM LobbyKeepsTheSecret == LobbySpec => []SecretKept
BY LobbyImplementsDealing, LiarNeverSeesTheWord, PTL

----------------------------------------------------------------------------
(* Types.                                                                  *)

MailOK == errand = [c \in Ids |-> errand[c]] /\ shown = [c \in Ids |-> shown[c]]

LobbyOK ==
  /\ MailOK
  /\ \A c \in Ids : /\ IsErrand(errand[c]) /\ IsLobby(shown[c])
                    /\ c \notin players => shown[c] = NoLobby

(* One thread gets another errand, and no list changes.                    *)
LEMMA ErrandStep ==
  ASSUME LobbyOK, NEW c \in Ids, NEW e, IsErrand(e),
         errand' = [errand EXCEPT ![c] = e], UNCHANGED <<players, shown>>
  PROVE  LobbyOK'
BY DEF LobbyOK, MailOK

(* Nothing to send, and nothing shown.                                     *)
LEMMA NothingIsWellTyped == IsErrand(NoErrand) /\ IsLobby(NoLobby)
<1>1. NoLobby = [p \in {} |-> 0] /\ DOMAIN NoLobby = {}
  BY DEF NoLobby
<1>2. IsLobby(NoLobby)
  BY <1>1 DEF IsLobby
<1> QED
  BY <1>2, EmptySeq DEF IsErrand, NoErrand

(* What threads read and send, and what clients make of it, is well-typed. *)
LEMMA MailStepType ==
  ASSUME TypeOK, LobbyOK, NEW c \in Ids, MailStep(c)
  PROVE  LobbyOK'
<1>0. /\ errand = [d \in Ids |-> errand[d]] /\ IsErrand(errand[c])
      /\ players \subseteq Ids /\ score \in [Ids -> Nat]
  BY DEF LobbyOK, MailOK, TypeOK, GameTypeOK
<1>5. UNCHANGED players
  BY DEF MailStep, Read, List, SendNews, Sent, dealVars, vars, gameVars
<1>1. CASE Read(c)
  <2> DEFINE news == [p \in About(c) |-> score[p]]
             e    == [errand[c] EXCEPT !.news = news, !.at = "list"]
  <2>1. errand' = [errand EXCEPT ![c] = e] /\ UNCHANGED shown
    BY <1>0, <1>1 DEF Read
  <2>2. IsLobby(news)
    BY <1>0 DEF IsLobby, About
  <2> HIDE DEF news
  <2>3. IsErrand(e)
    BY <1>0, <2>2 DEF IsErrand
  <2> HIDE DEF e
  <2> QED
    BY <1>5, <2>1, <2>3, ErrandStep
<1>2. CASE List(c)
  <2> DEFINE e == [errand[c] EXCEPT !.to = Recipients(c), !.at = "send"]
  <2>1. errand' = [errand EXCEPT ![c] = e] /\ UNCHANGED shown
    BY <1>0, <1>2 DEF List
  <2>2. Recipients(c) \in SUBSET Ids
    BY DEF Recipients, Connections
  <2>3. IsErrand(e)
    BY <1>0, <2>2 DEF IsErrand
  <2> HIDE DEF e
  <2> QED
    BY <1>5, <2>1, <2>3, ErrandStep
<1>3. ASSUME NEW p \in Ids, SendNews(c, p) PROVE LobbyOK'
  <2> DEFINE e    == [errand[c] EXCEPT !.to = @ \ {p}]
             list == Handled(Current(c), errand[c].news, shown[p])
  <2>1. errand' = [errand EXCEPT ![c] = e]
    BY <1>0, <1>3 DEF SendNews
  <2>2. IsErrand(e)
    BY <1>0 DEF IsErrand
  <2>3. IsLobby(list)
    <3>1. IsLobby(shown[p]) /\ IsLobby(errand[c].news)
      BY <1>0 DEF LobbyOK, IsErrand
    <3> QED
      BY <3>1 DEF Handled, IsLobby
  <2>4. shown' = shown \/ (p \in players /\ shown' = [shown EXCEPT ![p] = list])
    <3>1. shown' = shown \/ shown' = [shown EXCEPT ![p] = list]
      BY <1>3 DEF SendNews
    <3>2. ~Online(p) => shown' = shown
      BY <1>3 DEF SendNews
    <3>3. Online(p) => p \in players
      BY DEF Online
    <3> HIDE DEF list
    <3> QED
      BY <3>1, <3>2, <3>3
  <2> HIDE DEF e, list
  <2> QED
    BY <1>5, <2>1, <2>2, <2>3, <2>4 DEF LobbyOK, MailOK
<1>4. CASE Sent(c)
  <2> DEFINE e == [NoErrand EXCEPT !.todo = Tail(errand[c].todo)]
  <2>1. errand' = [errand EXCEPT ![c] = e] /\ UNCHANGED shown
    BY <1>4 DEF Sent
  <2>2. Tail(errand[c].todo) \in Seq(Mailings)
    BY <1>0, <1>4, HeadTailProperties DEF Sent, Mails, Busy, IsErrand
  <2>3. IsErrand(e)
    BY <2>2, NothingIsWellTyped DEF IsErrand, NoErrand
  <2> HIDE DEF e
  <2> QED
    BY <1>5, <2>1, <2>3, ErrandStep
<1> QED
  BY <1>1, <1>2, <1>3, <1>4 DEF MailStep

(* A step of the game may leave something to send.                         *)
LEMMA GameStepType ==
  ASSUME LobbyOK, NEW c \in Ids, GameStep(c)
  PROVE  LobbyOK'
<1> DEFINE e == [errand[c] EXCEPT !.todo = Due(c)]
<1>1. errand' = [errand EXCEPT ![c] = e] /\ IsErrand(errand[c])
  BY DEF GameStep, LobbyOK, MailOK
<1>2. Due(c) \in Seq(Mailings)
  <2>1. /\ <<>> \in Seq(Mailings) /\ <<"welcome", "joined">> \in Seq(Mailings)
        /\ <<"update">> \in Seq(Mailings) /\ <<"left", "update">> \in Seq(Mailings)
    BY SMT DEF Mailings
  <2> QED
    BY <2>1 DEF Due
<1>3. IsErrand(e)
  BY <1>1, <1>2 DEF IsErrand
<1>4. shown' = [p \in Ids |-> IF p \in players \ players' THEN NoLobby ELSE shown[p]]
  BY DEF GameStep
<1> HIDE DEF e
<1> QED
  BY <1>1, <1>3, <1>4, NothingIsWellTyped DEF LobbyOK, MailOK

(* Everything has its type, and every thread an errand.                    *)
LEMMA LobbyInvariant == LobbySpec => [](DealTypeOK /\ TypeOK /\ LobbyOK)
<1>1. LobbyInit => LobbyOK
  BY NothingIsWellTyped DEF LobbyInit, LobbyOK, MailOK
<1>2. TypeOK /\ LobbyOK /\ [LobbyNext]_lobbyVars => LobbyOK'
  <2>1. LobbyOK /\ UNCHANGED lobbyVars => LobbyOK'
    BY DEF lobbyVars, dealVars, vars, gameVars, LobbyOK, MailOK
  <2> QED
    BY <2>1, MailStepType, GameStepType DEF LobbyNext, LobbyStep
<1>3. LobbySpec => []DealTypeOK
  BY LobbyImplementsDealing, DealType, PTL
<1>4. DealTypeOK => TypeOK
  BY DEF DealTypeOK
<1> QED
  BY <1>1, <1>2, <1>3, <1>4, PTL DEF LobbySpec

(* The packets of the lobby and the clients' lists have their types, and   *)
(* so has everything else.                                                 *)
THEOREM LobbyType == LobbySpec => []LobbyTypeOK
<1>1. DealTypeOK /\ LobbyOK => LobbyTypeOK
  BY DEF LobbyOK, LobbyTypeOK
<1> QED
  BY <1>1, LobbyInvariant, PTL
=============================================================================
