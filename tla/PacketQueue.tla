----------------------------- MODULE PacketQueue -----------------------------
(***************************************************************************)
(* The bounded queue of packet_queue.c: a ring buffer under one mutex with  *)
(* a condition variable, drop accounting and a shutdown flag.               *)
(*                                                                          *)
(* Every call holds the mutex from its first access to the queue to its     *)
(* last, so pushing, popping and shutting down are one action each.         *)
(* pktqueue_wait() gives the mutex up inside pthread_cond_timedwait(): it   *)
(* is split there.  A waiting thread is woken by a signal, a broadcast, its *)
(* deadline, or for no reason at all, and must then get the mutex back      *)
(* before it looks at the queue again; anything may happen in between.      *)
(***************************************************************************)
EXTENDS Integers, Sequences, FiniteSets

CONSTANTS
    Events,                \* knock events
    NoEvent,               \* a ring slot that memset() cleared
    Consumers,             \* threads that call pktqueue_wait/pop
    QUEUE_CAPACITY,
    DROP_REPORT_INTERVAL,  \* seconds between two "queue full" reports
    StartTime, MaxTime,    \* bounds of the wall clock
    MaxDrops               \* bound: no push on a full queue after so many

(* The ring masks with QUEUE_CAPACITY - 1 instead of dividing. *)
ASSUME CapacityAssumption ==
    /\ QUEUE_CAPACITY \in Nat \ {0}
    /\ \E k \in 0..QUEUE_CAPACITY : QUEUE_CAPACITY = 2^k

(* The wall clock counts from 1970: the first drop is always reported. *)
ASSUME QueueTimeAssumption ==
    /\ DROP_REPORT_INTERVAL \in Nat \ {0}
    /\ StartTime \in Nat /\ StartTime >= DROP_REPORT_INTERVAL
    /\ MaxTime \in Nat
    /\ MaxDrops \in Nat

(* The process has finitely many threads. *)
ASSUME ConsumersAssumption == IsFiniteSet(Consumers)

VARIABLES
    ring, head, tail, count,
    shutting_down,
    dropped, last_drop_report,
    thread,    \* thread[c]: where consumer c is
    got,       \* got[c]: the event its last call took, or NoEvent
    refused,   \* calls of pktqueue_push() that returned -1
    reported,  \* dropped events that log_warn() has reported, in all
    now        \* what time(NULL) returns

ringvars == <<ring, head, tail, count>>
dropvars == <<dropped, last_drop_report, refused, reported>>
qvars == <<ringvars, shutting_down, dropvars, thread, got, now>>

Index == 0..QUEUE_CAPACITY - 1

(* idle: not in a call; waiting: inside pthread_cond_timedwait(); woken: it  *)
(* is about to return 0; timedout: it is about to return ETIMEDOUT.  The     *)
(* last two have yet to get the mutex.                                       *)
ThreadStates == {"idle", "waiting", "woken", "timedout"}

QTypeOK ==
    /\ ring \in [Index -> Events \cup {NoEvent}]
    /\ head \in Index /\ tail \in Index
    /\ count \in 0..QUEUE_CAPACITY
    /\ shutting_down \in BOOLEAN
    /\ dropped \in Nat /\ last_drop_report \in Nat
    /\ refused \in Nat /\ reported \in Nat
    /\ thread \in [Consumers -> ThreadStates]
    /\ got \in [Consumers -> Events \cup {NoEvent}]
    /\ now \in Nat

In(state) == {c \in Consumers : thread[c] = state}

(* Seeded fault: the index is not masked. *)
Wrap_Unmasked(x) == x

(* x & (QUEUE_CAPACITY - 1), for a capacity that is a power of two. *)
Wrap(x) == x % QUEUE_CAPACITY

-----------------------------------------------------------------------------
(* pktqueue_init() *)
QInit ==
    /\ ring = [i \in Index |-> NoEvent]
    /\ head = 0 /\ tail = 0 /\ count = 0
    /\ shutting_down = FALSE
    /\ dropped = 0 /\ last_drop_report = 0
    /\ refused = 0 /\ reported = 0
    /\ thread = [c \in Consumers |-> "idle"]
    /\ got = [c \in Consumers |-> NoEvent]
    /\ now = StartTime

(* pthread_cond_signal(): one waiting thread is woken, if there is one. *)
Signal ==
    IF In("waiting") = {} THEN UNCHANGED thread
    ELSE \E c \in In("waiting") : thread' = [thread EXCEPT ![c] = "woken"]

(* Seeded fault: only a push on an empty queue signals. *)
SignalPush_WhenEmpty == IF count = 0 THEN Signal ELSE UNCHANGED thread

SignalPush == Signal

PushAccepted(e) ==
    /\ count < QUEUE_CAPACITY
    /\ ring' = [ring EXCEPT ![head] = e]
    /\ head' = Wrap(head + 1)
    /\ count' = count + 1
    /\ SignalPush
    /\ UNCHANGED <<tail, shutting_down, dropvars, got, now>>

ReportDue == now - last_drop_report >= DROP_REPORT_INTERVAL

(* Seeded fault: the drop that triggers a report is not in it. *)
Unreported_Before == IF ReportDue THEN dropped ELSE dropped + 1

(* Drops to be reported, this one included. *)
Unreported == dropped + 1

(* A full queue: the event is counted, and the count reported when it is due. *)
PushDropped ==
    /\ count >= QUEUE_CAPACITY
    /\ refused < MaxDrops
    /\ refused' = refused + 1
    /\ IF ReportDue
       THEN /\ reported' = reported + Unreported
            /\ dropped' = 0
            /\ last_drop_report' = now
       ELSE /\ dropped' = Unreported
            /\ UNCHANGED <<reported, last_drop_report>>
    /\ UNCHANGED <<ringvars, shutting_down, thread, got, now>>

pktqueue_push(e) == PushAccepted(e) \/ PushDropped

(* What taking an event does to the ring. *)
Take(c) ==
    /\ count > 0
    /\ got' = [got EXCEPT ![c] = ring[tail]]
    /\ tail' = Wrap(tail + 1)
    /\ count' = count - 1
    /\ UNCHANGED <<ring, head>>

(* Seeded fault: the tail moves although there is nothing to take. *)
TakeNothing_MovesTail(c) ==
    /\ count = 0
    /\ got' = [got EXCEPT ![c] = NoEvent]
    /\ tail' = Wrap(tail + 1)
    /\ UNCHANGED <<ring, head, count>>

(* A call that returns -1. *)
TakeNothing(c) ==
    /\ count = 0
    /\ got' = [got EXCEPT ![c] = NoEvent]
    /\ UNCHANGED ringvars

pktqueue_pop(c) ==
    /\ thread[c] = "idle"
    /\ Take(c) \/ TakeNothing(c)
    /\ UNCHANGED <<shutting_down, dropvars, thread, now>>

(* The test of the loop in pktqueue_wait(), made with the mutex held. *)
MustWait == count = 0 /\ ~shutting_down

(* pktqueue_wait() with an event to take or a shutdown under way. *)
WaitReturns(c) ==
    /\ thread[c] = "idle" /\ ~MustWait
    /\ Take(c) \/ TakeNothing(c)
    /\ UNCHANGED <<shutting_down, dropvars, thread, now>>

WaitBlocks(c) ==
    /\ thread[c] = "idle" /\ MustWait
    /\ thread' = [thread EXCEPT ![c] = "waiting"]
    /\ got' = [got EXCEPT ![c] = NoEvent]
    /\ UNCHANGED <<ringvars, shutting_down, dropvars, now>>

Deadline(c) ==
    /\ thread[c] = "waiting"
    /\ thread' = [thread EXCEPT ![c] = "timedout"]
    /\ UNCHANGED <<ringvars, shutting_down, dropvars, got, now>>

SpuriousWakeup(c) ==
    /\ thread[c] = "waiting"
    /\ thread' = [thread EXCEPT ![c] = "woken"]
    /\ UNCHANGED <<ringvars, shutting_down, dropvars, got, now>>

(* Woken, and the loop goes round again: somebody else took the event. *)
WaitAgain(c) ==
    /\ thread[c] = "woken" /\ MustWait
    /\ thread' = [thread EXCEPT ![c] = "waiting"]
    /\ UNCHANGED <<ringvars, shutting_down, dropvars, got, now>>

(* The loop is left, by its condition or by the break on ETIMEDOUT. *)
WaitDone(c) ==
    /\ thread[c] = "timedout" \/ (thread[c] = "woken" /\ ~MustWait)
    /\ Take(c) \/ TakeNothing(c)
    /\ thread' = [thread EXCEPT ![c] = "idle"]
    /\ UNCHANGED <<shutting_down, dropvars, now>>

(* Seeded fault: the loop has no break on ETIMEDOUT. *)
Reacquire_NoBreak(c) ==
    \/ ~MustWait /\ WaitDone(c)
    \/ /\ MustWait /\ thread[c] \in {"woken", "timedout"}
       /\ thread' = [thread EXCEPT ![c] = "waiting"]
       /\ UNCHANGED <<ringvars, shutting_down, dropvars, got, now>>

(* Back from pthread_cond_timedwait() with the mutex. *)
Reacquire(c) == WaitAgain(c) \/ WaitDone(c)

(* Seeded fault: a signal in place of the broadcast. *)
pktqueue_shutdown_OneSignal ==
    /\ shutting_down' = TRUE
    /\ Signal
    /\ UNCHANGED <<ringvars, dropvars, got, now>>

(* The flag, and pthread_cond_broadcast(). *)
pktqueue_shutdown ==
    /\ shutting_down' = TRUE
    /\ thread' = [c \in Consumers |-> IF thread[c] = "waiting" THEN "woken"
                                      ELSE thread[c]]
    /\ UNCHANGED <<ringvars, dropvars, got, now>>

QTick ==
    /\ now < MaxTime
    /\ now' = now + 1
    /\ UNCHANGED <<ringvars, shutting_down, dropvars, thread, got>>

Consume(c) ==
    \/ pktqueue_pop(c)
    \/ WaitReturns(c) \/ WaitBlocks(c)
    \/ Deadline(c) \/ SpuriousWakeup(c)
    \/ Reacquire(c)

QNext ==
    \/ \E e \in Events : pktqueue_push(e)
    \/ \E c \in Consumers : Consume(c)
    \/ pktqueue_shutdown
    \/ QTick

QSpec == QInit /\ [][QNext]_qvars

(* The deadline is absolute and on the monotonic clock: however often a      *)
(* thread is woken and goes back to sleep, pthread_cond_timedwait() reports  *)
(* it in the end.  A thread that was woken gets the mutex in the end.        *)
QFairness ==
    \A c \in Consumers : SF_qvars(Deadline(c)) /\ WF_qvars(Reacquire(c))

QFairSpec == QSpec /\ QFairness

-----------------------------------------------------------------------------
(* head, tail and count agree: the ring holds count events from tail on. *)
RingInv == head = Wrap(tail + count)

(* No wakeup is lost: while a thread sleeps on the condition variable, every *)
(* queued event has a thread of its own already on its way to the mutex.     *)
(* pktqueue_push() signals once per event, and the event may be stolen by a  *)
(* thread that never slept.                                                  *)
NoLostWakeup ==
    In("waiting") # {} =>
        count <= Cardinality(In("woken") \cup In("timedout"))

(* Nobody sleeps through a shutdown: from the broadcast on, no thread is or  *)
(* goes to sleep on the condition variable.                                  *)
NobodySleepsInShutdown == shutting_down => In("waiting") = {}

(* Every call of pktqueue_wait() returns, whatever producers and other       *)
(* consumers do.                                                             *)
WaitReturnsEventually ==
    \A c \in Consumers : thread[c] = "waiting" ~> thread[c] = "idle"

=============================================================================
