--------------------------- MODULE MCPacketStream ---------------------------
EXTENDS PacketStream

P(id, role, score, name) == [id |-> id, role |-> role, score |-> score, username |-> name]

MCNames == {<<65>>}
MCLines == {<<66>>}

MCMessages ==
  {[kind |-> GAME_STATE_UPDATE, states |-> <<P(1, 2, 3, <<65>>), P(2, 1, 0, <<>>)>>],
   [kind |-> CHAT_BROADCAST, chat |-> [sender |-> 1, username |-> <<65>>, text |-> <<67, 67>>]],
   [kind |-> ROLE_ASSIGNMENT,
    card |-> [player |-> 2, role |-> 1, topic |-> <<68>>, word |-> <<>>]],
   [kind |-> VOTE_RESULT,
    result |-> [tally |-> 1 :> 2 @@ 2 :> 1, winner |-> 1, caught |-> TRUE]]}
=============================================================================
