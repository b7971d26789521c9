---------------------------- MODULE BoundedQueue -----------------------------
(***************************************************************************)
(* What packet_queue.h promises: a first-in first-out queue of at most      *)
(* Capacity events.  A push on a full queue loses that event and no other,  *)
(* and every loss is counted.                                               *)
(***************************************************************************)
EXTENDS Integers, Sequences

CONSTANTS Events, NoEvent, Readers, Capacity

VARIABLES
    queue,  \* the events, oldest first
    taken,  \* taken[r]: what reader r took last, or NoEvent
    lost,   \* number of events lost
    known   \* how many of them the queue has counted

bvars == <<queue, taken, lost, known>>

BInit == queue = <<>> /\ taken = [r \in Readers |-> NoEvent]
         /\ lost = 0 /\ known = 0

Enqueue(e) ==
    /\ Len(queue) < Capacity
    /\ queue' = Append(queue, e)
    /\ UNCHANGED <<taken, lost, known>>

Lose ==
    /\ Len(queue) = Capacity
    /\ lost' = lost + 1 /\ known' = known + 1
    /\ UNCHANGED <<queue, taken>>

Dequeue(r) ==
    /\ queue # <<>>
    /\ taken' = [taken EXCEPT ![r] = Head(queue)]
    /\ queue' = Tail(queue)
    /\ UNCHANGED <<lost, known>>

(* A reader finds nothing when its call returns or when it begins to wait. *)
ComeBackEmpty(r) ==
    /\ queue = <<>>
    /\ taken' = [taken EXCEPT ![r] = NoEvent]
    /\ UNCHANGED <<queue, lost, known>>

BNext ==
    \/ \E e \in Events : Enqueue(e)
    \/ Lose
    \/ \E r \in Readers : Dequeue(r) \/ ComeBackEmpty(r)

BSpec == BInit /\ [][BNext]_bvars

=============================================================================
