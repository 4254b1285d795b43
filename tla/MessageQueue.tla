---------------------------- MODULE MessageQueue ----------------------------
(***************************************************************************)
(* net::MessageQueue (src/server/message_queue.cpp): a queue of packets    *)
(* with a mutex and a condition variable.  Every method holds the mutex    *)
(* for its whole body, but for pop() while it waits, and is one action;    *)
(* pop() is one before the wait and one after every wake-up.               *)
(*                                                                         *)
(* Handler threads push (module PacketStream).  Server::getMessageQueue()  *)
(* offers the queue to consumers; the program has none, so in it the queue *)
(* only grows.                                                             *)
(***************************************************************************)
EXTENDS Naturals, Sequences, FiniteSets

CONSTANT Consumers       (* threads that call pop() and tryPop()            *)

ASSUME ConsumersAssumption == IsFiniteSet(Consumers)

VARIABLES queue,         (* queue_                                          *)
          consumer       (* where each consumer is                          *)

queueVars == <<queue, consumer>>

(* Outside, asleep in condition_.wait(), or awake in it and about to look  *)
(* at the queue.                                                           *)
Places == {"away", "waiting", "woken"}

At(place) == {k \in Consumers : consumer[k] = place}

QueueInit ==
  /\ queue = <<>>
  /\ consumer = [k \in Consumers |-> "away"]

(* notify_one wakes one of the threads that wait, if any does; the faulty  *)
(* variant notifies when the queue was empty only.                         *)
NotifyOneIfEmpty ==
  IF queue # <<>> \/ At("waiting") = {}
  THEN UNCHANGED consumer
  ELSE \E k \in At("waiting") : consumer' = [consumer EXCEPT ![k] = "woken"]

NotifyOne ==
  IF At("waiting") = {}
  THEN UNCHANGED consumer
  ELSE \E k \in At("waiting") : consumer' = [consumer EXCEPT ![k] = "woken"]

Push(packet) ==
  /\ queue' = Append(queue, packet)
  /\ NotifyOne

(* The predicate of the wait: a thread goes on when there is a packet, and *)
(* back to sleep when another was faster.                                  *)
Look(k) ==
  \/ /\ queue # <<>>
     /\ queue' = Tail(queue)
     /\ consumer' = [consumer EXCEPT ![k] = "away"]
  \/ /\ queue = <<>>
     /\ consumer' = [consumer EXCEPT ![k] = "waiting"]
     /\ UNCHANGED queue

Pop(k)  == consumer[k] = "away"  /\ Look(k)
Wake(k) == consumer[k] = "woken" /\ Look(k)

(* On an empty queue tryPop returns false and changes nothing.             *)
TryPop(k) ==
  /\ consumer[k] = "away"
  /\ queue # <<>>
  /\ queue' = Tail(queue)
  /\ UNCHANGED consumer

Clear ==
  /\ queue # <<>>
  /\ queue' = <<>>
  /\ UNCHANGED consumer

(* notifyAll, and a wake-up without a reason, which the wait allows for.   *)
(* Neither lets a thread out of pop() while the queue is empty.            *)
NotifyAll ==
  /\ At("waiting") # {}
  /\ consumer' = [k \in Consumers |-> IF consumer[k] = "waiting" THEN "woken" ELSE consumer[k]]
  /\ UNCHANGED queue

WakeSpuriously(k) ==
  /\ consumer[k] = "waiting"
  /\ consumer' = [consumer EXCEPT ![k] = "woken"]
  /\ UNCHANGED queue

ConsumerStep ==
  \/ \E k \in Consumers : Pop(k) \/ Wake(k) \/ TryPop(k) \/ WakeSpuriously(k)
  \/ Clear
  \/ NotifyAll
=============================================================================
