---------------------------- MODULE PacketChannel ----------------------------
(***************************************************************************)
(* What a connection promises to those who send packets on it: packets are *)
(* handled once each, in the order in which they were sent and as they     *)
(* were meant, until a send takes only a part of a packet.  What was sent  *)
(* before that is still handled, and first; what is handled afterwards may *)
(* be anything.  No bytes, buffers or threads; module PacketStream shows   *)
(* that the code implements it.                                            *)
(***************************************************************************)
EXTENDS Naturals, Sequences

CONSTANT Links

VARIABLES sent,      (* packets sent, up to the first one cut short         *)
          torn,      (* has one been cut short                              *)
          handled    (* packets handled at the other end                    *)

vars == <<sent, torn, handled>>

Init ==
  /\ sent = [l \in Links |-> <<>>]
  /\ torn = [l \in Links |-> FALSE]
  /\ handled = [l \in Links |-> <<>>]

(* The step puts one element behind those of s.                            *)
Grows(s, t) == Len(t) = Len(s) + 1 /\ SubSeq(t, 1, Len(s)) = s

Send(l) ==
  /\ ~torn[l]
  /\ Grows(sent[l], sent'[l])
  /\ sent' = [sent EXCEPT ![l] = sent'[l]]
  /\ UNCHANGED <<torn, handled>>

Tear(l) ==
  /\ ~torn[l]
  /\ torn' = [torn EXCEPT ![l] = TRUE]
  /\ UNCHANGED <<sent, handled>>

Owed(l) == Len(handled[l]) < Len(sent[l])

Deliver(l) ==
  /\ Owed(l)
  /\ handled' = [handled EXCEPT ![l] = Append(@, sent[l][Len(@) + 1])]
  /\ UNCHANGED <<sent, torn>>

Garble(l) ==
  /\ torn[l] /\ ~Owed(l)
  /\ Grows(handled[l], handled'[l])
  /\ handled' = [handled EXCEPT ![l] = handled'[l]]
  /\ UNCHANGED <<sent, torn>>

Next == \E l \in Links : Send(l) \/ Tear(l) \/ Deliver(l) \/ Garble(l)

Spec == Init /\ [][Next]_vars /\ \A l \in Links : WF_vars(Deliver(l))
=============================================================================
