# Liar Line: a TLA+ model of the multiplayer server

This directory models the C++ program in `src/`: a TCP server that runs the
game *Liar Line* of `src/README.md`, and its clients. It says what the parts
do, which properties they have under every interleaving of their threads, which
ones they only have when packets are handled one at a time, and where the
program does not do what its README says. Line numbers refer to
`src/src/server/game_server.cpp` unless another file is named.

## The system

| component | state | operations |
|---|---|---|
| `GameState` (`common/game_state.cpp`) | players, their roles and scores; the running round: flag, topic, word, liar, votes | `addPlayer`, `removePlayer`, `startNewRound`, `submitVote`, `calculateAndApplyScores`, `clearRound`, `clearVotes`, `clearAllPlayers`, queries |
| packet callback (`server/game_server.cpp`) | local variables of each call | PLAYER_JOIN, CHAT_MESSAGE (`/vote` or chat), PLAYER_LEAVE, `startNewRoundIfPossible` |
| `Server` (`server/server.cpp`) | `running_`, sockets, `clientThreads_` | accept loop, one handler thread per client, `sendPacket`, `broadcast`, `disconnectClient`, `stop` |
| `ConnectionManager` | status of every connection | locked table operations |
| `MessageQueue` | a locked queue | `push`; nothing pops in this program |
| `Client`, `game_client` | `connected_`, `receiving_`, the receiving thread, a packet buffer; the list of players | connect, receive, send, disconnect; the console |
| `Packet`, serialization | none | framing, encoding and decoding |
| echo server and client | none | demonstrations of `Server` and `Client` |

How they interact: every handler thread of `Server` receives bytes, cuts them
into packets and calls the callback, which calls `GameState` and sends packets
through `Server`, to its own client and to others. `stop()` runs in the thread
of the console handler. A handler reports the end of its own connection to the
callback as a PLAYER_LEAVE packet, after it has taken the connection out of
the `ConnectionManager`.

What is hard about it:

* **The callback is not serialised.** Each `GameState` method locks `mutex_` for
  itself, but a packet is handled by many such calls, and the handlers of
  different clients interleave between any two of them. Values read by one call
  (is a round active, how many players, who has voted) are stale in the next.
* **`clearRound` takes no lock at all** (`game_state.cpp:163`), so its stores
  fall between the locked methods of other threads and into the middle of them.
* **Nothing restarts the game from outside.** There is no timer: whoever ends a
  round has to start the next one.
* **Disconnection is noticed by several threads** (the client's own handler,
  another handler that sends to it, `stop()`), which close the same socket and
  set the same status.
* **Shutdown** races with accepting, handling, cutting off, and with `main()`.
* **The client** has its receiving thread blocked in `recv()` when `main()`
  wants to join it.
* **TCP is a stream.** One `recv()` brings pieces of packets or several at once,
  and `send()` may take a part of a packet, the rest of which nobody sends.
* **Lists of players** are read from the game in one call and sent in many
  others, with no lock around them.

What makes each component correct: votes only by and for players; one liar, who
is in the game; nothing of a round outlives it; points once per round, by the
rules, never lost; a game that has its players is running; the liar never sees
the word; connections end once and for all and every departure is reported;
`stop()` and the client's `main()` come to their end; packets are handled once
each, in order and as they were meant; every client shows the players there
are; a packet in the queue finds a consumer awake.
`PROJECT.json` lists the hazards line by line with the properties that would
catch them.

## The modules

| module | models | composed from |
|---|---|---|
| `GameState` | the class used by one thread, one action per public method | |
| `GameServer` | the callback in all handler threads | extends `GameState` |
| `RoleDealing` | the second half of `startNewRoundIfPossible`, call by call, and what clients are told | extends `GameServer`, refines its step `Deal` |
| `LobbyView` | the packets that tell clients who plays and with what score, and the list each client builds from them | extends `RoleDealing` |
| `SerialServer` | the server when packets do not overlap | extends `LobbyView`, instantiates `LiarLine` |
| `LiarLine` | the game of `src/README.md`, atomic: the abstract specification | |
| `Lifecycle` | accept loop, handlers, `disconnectClient`, `stop()`, `main()`, with the `ConnectionManager` | |
| `GameClient` | `Client` as `game_client.cpp` uses it: `main()` and the receiving thread | |
| `Packet` | a packet and its bytes: `serialize`, `deserialize`, `isCompletePacket` | |
| `Serialization` | the payloads, written and read field by field | extends `Packet` |
| `MessageQueue` | `messageQueue_`, its condition variable, and consumers | |
| `PacketStream` | packets on connections: `sendPacket`, `recv()`, the reassembly in `handleClient` and `receivePacket` | extends `Serialization`, `MessageQueue`; instantiates `PacketChannel` |
| `PacketChannel` | what a connection promises, without bytes or threads: the abstract specification | |
| `GameStateProofs`, `GameServerProofs`, `RoleDealingProofs`, `SerialServerProofs`, `LifecycleProofs`, `GameClientProofs`, `PacketProofs`, `PacketStreamProofs` | theorems | |
| `MCGameState`, `MCGameServer`, `MCRoleDealing`, `MCPacketStream` | bounds, symmetry and messages for TLC | |

Every module that models code also holds one-line *faulty variants* of some of
its operators (`VoteCountsAgain`, `LiarKept`, ...), placed before the operator they
vary. Nothing uses them; `PROJECT.json` ("mutants") says which property rejects
which variant, so that every property is known to be breakable by a plausible
bug.

**GameState.** One variable per field. `role` and `score` are functions on all
ids with a default for ids that are not in `players_`; `votes` maps a voter to
its target or to `Nobody` (the id 0, never handed out). Topic and word are the
number of the draw that produced them and 0 for the empty string; `round`
counts the draws and is history only. Usernames are left out: two players may
have the same one, so looking one up (`Lookup` in `GameServer`) finds any
player, or none. Scores are natural numbers (no overflow of `int`).

**GameServer.** `pc[c]` names the next locked call (or store) of the thread of
client `c`, `frame[c]` the local variables that outlive a call. Reads that only
feed log lines are left out; the others are each one action, in program order.
`clearRound` is one action per store, and one per player in its loop. It does
not wait for `mutex_`, so its stores can also fall inside a locked method of
another thread. Where that makes a difference the method is taken apart, and
the thread keeps the lock meanwhile (`Locking`, `MutexFree`):

* `startNewRound` is `BeginRound` (its own `clearRound` and the topic),
  `PickWord`, `PickLiar` and `DealRoles`: another thread's `clearRound` may empty
  the topic or the word, or take the liar away before the roles are dealt.
* `submitVote` is `Submit` (the check of `roundActive_`) and `Record`: a round may
  be cleared in between, and the vote stays behind.
* `calculateAndApplyScores` is one action that finds the role and the vote of an
  arbitrary part of the players, and perhaps no liar, when another thread is in
  `clearRound` (`Seen`).

The other methods remain one action, since the stores of a `clearRound` that fall
inside them can be moved before or after them without anybody noticing. The
getters read one field or copy one container. `addPlayer` and `removePlayer` only
share `role`, `votes` and `liar` with `clearRound`, and what either of them writes
to an entry is its reset value. The `clearRound` in `startNewRound` writes the
same values as the other. The loop that deals the roles writes an entry once, and
so does the loop of `clearRound`: whichever comes later wins, and `StoreRole`
takes the players in any order. Nothing reads the game without the lock.

This is still the mildest reading of a data race. A store is atomic and the
stores keep their order, though a compiler may reorder them; a look into a
container, or a change of it, is atomic, though a `clear()` during an insertion
may corrupt it. Two looks at one key in one expression are taken as one:
`calculateAndApplyScores` finds an entry and then uses `operator[]`
(`game_state.cpp:272-273` and `279-280`), which inserts a vote for 0 or a player 0,
and gives it points, when a `clearRound` has come in between. So what fails in this model fails in the
program; what holds here holds of the program as far as these conditions do. In
particular, that `players` and `votes` hold only ids that were handed out
(`TypeOK`) depends on the last one.

PLAYER_JOIN comes first, as in `game_client.cpp`.
Chat and the packets that keep the clients' lists of players up to date change
nothing in the game and are left out here; see `LobbyView` for the latter.
`scored` is a history variable: the last round that changed a score.

**RoleDealing.** Adds the local variables `topic`, `word` and the list of
players of the dealing thread (`hand`), and what each client was told last
(`told`). `Online` is the status check of `sendPacket`.

**LobbyView.** `errand[c]` is what the thread of `c` still has to send of
GAME_STATE_UPDATE, PLAYER_JOINED and PLAYER_LEAVE after a step of the game
(`Due`). Each of these packets takes a read of the game, a read of the
connections and one send per recipient, and every other thread may run in
between. `shown[p]` is the map `players` of `game_client.cpp` as it will be when
client `p` has handled everything sent to it so far; since a connection keeps
the order of its packets (`PacketStream`), a later packet cannot overtake.
All clients are connected before the first joins.

**SerialServer / LiarLine.** `SerialServer` allows a packet only when every
other thread waits in `recv()`. `LiarLine` has no threads: join, leave, start,
vote, resolve. The refinement mapping takes a round to be running until its
points are given or its first player has left; from then on a thread is in
`clearRound` and the abstract round is over.

**Lifecycle.** `listener`, `handler[c]` and `stopper` are the program counters
of the three kinds of threads, `cut[c]` that of `sendPacket` and
`disconnectClient` called from the callback of `c`. `conn` is the table of the
`ConnectionManager`, whose methods are one step each; `open` the sockets;
`listed`, `active` and `holder` are `clientThreads_`, its `active` flags and its
mutex, which only `stop()` holds across steps. What the callback does is left
to `GameServer`; here it may send to anybody. A send to a live client changes
nothing and is left out. `main()` returning destroys the server and ends the
process. Sockets are named by their client, so the reuse of a closed handle by
a later connection is not represented; `cleanupConnections` has no caller.

**Packet / Serialization.** A packet is a record of a type and a sequence of
bytes; on the wire six bytes of header, the length and the type, come first. Integers
are 32 bits (the type 16), most significant byte first. A payload is written
and read as the code does it, each read behind its length check and with the
default that remains when the check fails. Strings are sequences of bytes. The
tally of a VOTE_RESULT is written in the order of a hash table, any order here.

**MessageQueue.** One action per method, as each holds the mutex for its body;
`pop()` is one before its wait and one after each wake-up. The consumers are
those the interface is made for; the program itself has none, so in it the
queue only grows, and nothing is claimed about its size.

**PacketStream.** On uplinks `handleClient` takes packets off the stream, pushes
them on the queue and calls the callback; on downlinks `receivePacket` does it.
`net` and `buffer` hold real bytes, `handled` what the callback understood.
`SendPart` is a `send()` that takes only a part: the caller goes on, so what
follows on that connection is read out of step. The bytes of one `send()` are
taken to stay together when several handlers send to one client.
`PacketChannel` says what is promised: everything sent before the first torn
packet is handled, first, once and in order; after that anything.

**GameClient.** `todo` is the stack of calls `main()` is in. The bytes from the
server come in units, two to a packet, and `recv()` returns any number of those
that have arrived. Sends after the first do not influence the client's state.

## What the runs show

| run | instance | distinct states | shows |
|---|---|---|---|
| `game_state` | 4 ids, rounds with 2-3 players, 2 rounds, scores to 2 | 28 thousand | the class, used by one thread, is consistent |
| `game_server` | 3 ids, 2-3 players, 1 vote, 2 departures | 0.78 million | what holds under every interleaving |
| `progress` | 2 ids, 1-2 players, 2 votes, 2 departures | 0.19 million | the next round starts (liveness) |
| `dealing` | 2 ids, 2 players, 3 votes, 1 departure | 2.9 million | the liar never sees the word |
| `serial` | 3 ids, 2-3 players, 4 votes, 2 departures | 0.25 million | the serial server implements the game, and its clients show it |
| `lifecycle` | 2 clients | 0.14 million | connections, departures, shutdown |
| `game_client` | 5 units | 1.8 thousand | the client's two threads |
| `wire` | 1 uplink, 1 downlink, 2 consumers, 2 sends | 0.26 million | packets arrive once each, in order, as meant; no wake-up is lost |

and four runs that exhibit a disagreement with `src/README.md`:

| run | what happens |
|---|---|
| `double_points` | The last two votes of a round are recorded; both handlers count all votes and both apply the scores (line 252). |
| `torn_cards` | Two handlers pass `isRoundActive` and start a round each; one sends the topic of the first with the word of the second (lines 70-71). |
| `stuck_round` | A handler reads that no round is active (line 291), and one starts. The others all vote, each counting the leaving player's vote as missing. Then the handler removes its player, does not clear the round, and nobody counts again. |
| `shutdown` | `main()` waits for `running_` and the end of `start()` only and destroys the server while handler threads run in it (lines 331-338). |

*Bounds.* The thresholds 3 and 6 of `canStartRound` (and the 3 of line 313) are
the constants `MinPlayers` and `MaxPlayers`, scaled down so that the cases
around them happen with few ids: too few players, a departure that drops below
the minimum, enough players left to restart, a player that joins a running
round and takes no part in it, and, in `game_state`, one that makes the players
too many. The hazards are races of two handlers with a third player to vote for
or to leave; in `game_server` three ids, two departures and a vote have two
threads in `clearRound` at once while a third starts a round, votes or applies
scores. `progress` has two ids and two votes, so that both threads may be
anywhere in the counting and end a round one over the other. Larger numbers
take more time than they are worth, since what `game_server` checks is proved
for all of them. `dealing` needs no third player: with two, a round
is won by the guesser or lost by tie, and three votes start a second and a
third round over the dealing of the first. `serial` allows four votes, more
than a complete round, so that votes of a second round are cast. `lifecycle`
has the two clients that one cutting off the other takes, and a client may cut
itself off. In `game_client` five units are two packets and a part of a third.
In `wire`, `recv()` returns up to `BufferSize` = 8 bytes: a header and two more, so that every longer packet is cut, and one `recv()` may bring the end of a packet and the start
of the next. `Stubs` are the numbers of bytes a torn `send()` may take; after 5 of them
the bytes that follow read as a packet of type 0, which the receivers drop, and
after 6 as a garbled one. Two sends are a whole packet behind another, behind a
torn one, or in front of it; two consumers are a sleeper and one that takes its
packet. The messages have lists of two players, empty names and words and a
tally of two; a PLAYER_JOINED, which is one element of such a list, is not among
them. In `serial` two departures let the list shrink twice.
`CHECK_DEADLOCK FALSE` is there because the clients need not do anything more,
and because servers and clients end.

*Fairness.* `progress`: weak fairness of the steps of every handler thread that
has a packet to handle, which the operating system schedules. A thread may hold
`mutex_` for several steps, and the others are not enabled to lock it then; but
it waits for nothing meanwhile, so by its own fairness it comes to release it,
and when it has, those that wait are enabled. In the model they cannot be
overtaken for ever, as there are finitely many packets; for longer runs
`std::mutex` promises no such thing, and none is assumed. No client is required
to join, vote or leave.
`serial`: the thread that has a packet finishes it. `lifecycle`: weak fairness
of the accept loop, `stop()` and each handler, whose callbacks return; nobody
need connect, send, hang up or press Ctrl+C, `accept()` may fail at will, and
`main()` may take its time. `game_client`: both threads go on; the server need
not send anything nor close. `wire`: receiving threads run and what was sent
arrives; nobody has to send or to consume.

*What is claimed under which condition.* The properties `PointsOncePerRound`,
`BallotsAreKept`, `RoundIsPlayable`, `VotedRoundsAreResolved`, `EveryoneIsBriefed`
and `PlaysLiarLine` are checked for packets handled one at a time only; the
violation runs show two of them, and `CardsMatch`, failing without that. A
hazard of overlapping handlers is therefore not covered by them, and
`PROJECT.json` names them for one only where a violation run has overlapping
handlers. The same condition is on `LobbiesAgree`: without it, TLC finds two clients joining
at once, the list for the first read before the second is added and sent after
the second was announced, so that the first does not show the second until the
next list. No document promises otherwise, so this is a note and not a run.
`CalmStopEnds` says that `stop()` ends unless a client is being accepted or cut
off at the time, or `main()` ends the process first; in the excluded cases it
may not: `stop()` joins with `clientThreadsMutex_` held
(`server.cpp:119`), and a handler that needs it in `disconnectClient`
(`server.cpp:184`) never ends. So `CalmStopEnds` covers neither of these two
hazards; they are listed without a property. `PlayersEndInOrder` does not speak of a client
whose server goes before the client has sent PLAYER_JOIN: that one destroys a
joinable thread and is terminated.

Two more things the client shows can be wrong and are no property here, since
the models keep what is displayed out: it prints the player voted out as
"Winner", and "LIAR SURVIVED!" where the code for no majority would print another
line, since `winnerId` is not 0 then; and it prints "Scores updated!"
with its old scores, since VOTE_RESULT is sent before the new list.

Other disagreements met while reading, not runs: `VoteResult.winnerId` is
documented as "0 if no majority" (`include/common/serialization.h:70`) and is
the first player with the most votes even without one (line 231);
README.md:149 expects two points for the liar after a split vote, README.md:25
and the code give none; README.md:18 lets votes be entered at any time and the
code needs a round (line 158); the limits of README.md:9 (6 players), :30
(score) and :35 (128 bytes of chat) are not implemented.

## What is proved

With TLAPS, for every set of ids, thresholds and number of votes and departures,
from `GameStateAssumption` (a finite set of ids, `Nobody` not among them,
`1 <= MinPlayers <= MaxPlayers`) and `BoundsAssumption` (the two bounds are
numbers).

* `GameStateProofs`: `GameType`, `GameVotes`, `GameRound`, `GameIdle`, `GameScores`. The
  class invariants are inductive method by method; `LiarMatchesRoles` and
  `IdleIsBlank` need each other (`RoundOK`), since `removePlayer` keeps the
  roles and the liar together only if they agreed before.
* `GameServerProofs`: `ServerType`, `ServerVotes`, `ServerLiar`,
  `ServerForgetsLateVotes`, `ServerHuntsTheLiar`, `ServerKeepsPlaying`, so every
  property of the run `game_server`. The lemma `StepEffect` reduces every step of
  every thread to one of a few effects on the game (`Effect`), and the first three
  invariants follow from those. The next two need to know what the lock protects
  across the steps of a method (`LockOK`): one thread at most is in a method that
  is taken apart (`OneHolder`), and while it starts a round nobody else deals a
  role or records a vote, so there are none (`StartsFromBlank`), whatever
  `clearRound` of others does. Hence a round begins without votes, and the liar
  drawn is the only one to be dealt that role. `LiarIsHunted` also rests on the
  order of the stores of `clearRound`: who takes the liar away has yet to visit
  the roles (`WillVisit`). For
  `ServerKeepsPlaying`, `QuietGameIsRunning` is strengthened to
  `StartIsPending`: with enough players and no round running, some thread is at
  a stage from which it will come to start one. The property itself speaks of
  quiet states only and is not inductive.
* `RoleDealingProofs`: `DealImplementsServer` (step by step: a dealing step
  stutters or is `Deal`), `DealType`, and `LiarNeverSeesTheWord`. The invariant
  `SecretIsSafe` adds to `SecretKept` that the current liar has no guesser's
  role, that no thread holds a word newer than the current round, that roles
  are read last, that a hand with the word of the current round does not
  list the current liar as a guesser, and that nobody knows the word of a round
  which is still being started (`FreshWord`): the readers need the lock.
  The same module carries the result to the lobby: `LobbyImplementsDealing` (a
  step of `LobbyView` is a step of `RoleDealing` or stutters), hence
  `LobbyKeepsTheSecret`, and `LobbyType`.
* `SerialServerProofs`: what holds when packets do not overlap. `SerialListsAgree`,
  `SerialRoundIsPlayable`, `SerialVotedRoundsAreResolved` and
  `SerialEveryoneIsBriefed` are the four invariants of the run; `SerialPlaysLiarLine`
  is the safety part of the refinement: every behaviour of the serial server starts
  in an initial state of `LiarLine` and takes only its steps and stutters. From it
  follow `SerialPointsOncePerRound` and `SerialBallotsAreKept`. One inductive invariant,
  `SerialInvariant`, in three parts:
  * `ListInv`: one thread at most handles a packet; what it has to send is one of
    four errands, each at its places in the callback (`ErrandsOK`); and a list is
    out of date only while that thread is in `clearRound` or has an errand, and
    then by what the errand makes up for, recipient by recipient (`ListsOK`).
  * `PlayInv`: a round that runs has its liar among the players, enough players,
    and has given no points yet (`RunningOK`, `RoundIsOn`); unless a thread is
    counting, somebody has yet to vote (`BallotOK`); and what the thread read,
    drew or counted earlier in the callback is still so (`StageOK`, `DrawOK`,
    `CountOK`). The last part is what overlapping packets break.
  * `BriefInv`: a player's hand is that of the running round, and whoever the
    dealing loop has passed has been told.

  For the refinement, `Moves(c)` names the only five steps that are moves of the
  game: a join, a departure, a start, a ballot and the points; the other steps
  leave what `LiarLine` sees alone, which for the stores of `clearRound` is so
  because the round is over by then, and for those of `startNewRound` but the
  last because it has not begun. `OneIsVotedOut` and `WinnerIsVotedOut` relate
  the tally of the code (the first name with the most votes) with the majority
  `LiarLine` speaks of.
* `LifecycleProofs`: `LifecycleType`, `LeavingIsFinal`, `NobodyIsRevived`, from
  `LifecycleAssumption`. The danger is a status written late by a thread that
  looked early. `AcceptOK` says that a client being accepted has no handler
  yet, `CutOK` that whoever is being cut off has been ACTIVE, so is not the one
  the listener is about to make ACTIVE, and `StatusOK` that only `stop()` can
  have changed the status under the listener, after lowering `running_`.
* `GameClientProofs`: `ClientType`, `StreamIsHandled`, `PlayersAreJoined`, for any
  number of units. `MainOK` enumerates the stacks of calls `main()` can be in
  and ties to them what it has done to the receiving thread; `StreamOK` says
  that, unless told to stop, the thread lowers `connected_` at the end of the
  stream only, with no complete packet left.
* `PacketProofs`: lemmas on words and headers, and from them `PacketsAreFramed`
  and `NoPacketTooEarly`: for every type and every data whose length fits 32
  bits, a packet at the head of a stream is recognised as complete exactly when
  all of it is there, and read back as itself.
* `PacketStreamProofs`: `StreamType`; `ReceiversTakeWhatIsThere`; `WakeUpsAreNotLost`
  for any finite number of consumers (`ConsumersAssumption`): a push wakes a sleeper
  or there is none, and whoever goes to sleep saw the queue empty.
  `PlayersAreReadBack`, `ChatIsReadBack` and `RolesAreReadBack`: the payloads
  without lists are read back as they were written, for every number and string
  that fits 32 bits.
  `StreamIsAChannel` is the safety part of the refinement of `PacketChannel`. Its
  invariant `ChannelOK` says of every connection that what is in the receiver's
  buffer and on its way, taken together, is the packets of the messages sent and
  not yet handled, one behind the other, and then nothing, or anything if a packet
  has been cut short (`InOrder`). A send adds a packet at the end
  (`SendKeepsOrder`), `recv()` moves the border between the two parts
  (`RecvKeepsChannel`), and the packet a receiver finds is that of the next
  message, by the framing theorem (`NextIsFirst`, `TakingKeepsChannel`).

  It rests on `StreamAssumption` and `MessagesAssumption`: what is sent fits its
  fields and its length. In the second, one thing is assumed that the code should
  do: the two payloads that are lists, GAME_STATE_UPDATE and VOTE_RESULT, are read
  back as they were written (`ReadBack`), since their loops are recursive functions.
  TLC evaluates that for the messages of the run `wire`.

Only model-checked: all liveness (`RoundGetsStarted`, `DepartureIsReported`,
`CalmStopEnds`, `ServerGoneIsNoticed`) and with it the fairness `LiarLine` and
`PacketChannel` ask for; the reading of the two lists. Liveness under fairness is
beyond the installed provers and stays with TLC, as does what a recursive definition
computes for every input.

## What is not modelled, and the plan

Not modelled: the console and log output, the wording of what is displayed, the
word list, Winsock set-up, the reuse of socket handles, the compiler's
reordering of `clearRound`'s stores, the second looks by `operator[]` in
`calculateAndApplyScores`, sends of several handlers whose bytes mix.
Methods that nothing calls: `cleanupConnections`, `tryReceivePacket`, `setType`,
`setData`, the serialization of VoteCommand (a vote is a line of chat). Usernames
and heartbeats in the `ConnectionManager` are written and never read. Plain chat
and the announcement of a result read the state and send; their format is in
`Serialization`, their timing is not a subject here. The echo programs have no
state of their own.

Planned, in this order:

1. As theorems of `PacketStream`, from `StreamIsAChannel`: what has been handled on a
   connection agrees with what was sent as far as both go, and nothing is handled
   beyond it unless a packet was cut short.
2. The game client on the packets of `PacketStream` instead of units of its own, so
   that `StreamIsHandled` speaks of messages.
3. The second looks by `operator[]`: a player 0 that nobody is, which a
   `clearRound` at the wrong moment adds to the game.
