---------------------------- MODULE MCPacketQueue ----------------------------
EXTENDS PacketQueue, TLC

(* The queue as a sequence, read off the ring. *)
Contents == [i \in 1..count |-> ring[Wrap(tail + i - 1)]]

(* A drop is known whether it has been reported yet or not. *)
Fifo == INSTANCE BoundedQueue WITH
    Readers <- Consumers, Capacity <- QUEUE_CAPACITY,
    queue <- Contents,
    taken <- got, lost <- refused, known <- dropped + reported

(* The ring, with its masked indices and its drop counter, implements a      *)
(* bounded FIFO: no event is delivered twice, out of order or lost without   *)
(* being counted, whichever threads push, pop and wait concurrently.         *)
ImplementsBoundedQueue == Fifo!BSpec

=============================================================================
