-------------------------- MODULE PacketQueueProofs --------------------------
(***************************************************************************)
(* Theorems about the packet queue, for every capacity, every set of        *)
(* events and every finite set of consumer threads: the ring is well        *)
(* formed, no wakeup is lost, and the ring implements the bounded FIFO.     *)
(***************************************************************************)
EXTENDS MCPacketQueue, SequenceTheorems, FiniteSetTheorems, TLAPS

-----------------------------------------------------------------------------
(* The ring: masking an index is subtracting the capacity at most once. *)

LEMMA CapacityPositive == QUEUE_CAPACITY \in Nat /\ QUEUE_CAPACITY > 0
  BY CapacityAssumption

LEMMA WrapInside ==
  ASSUME NEW x \in 0..QUEUE_CAPACITY - 1 PROVE Wrap(x) = x
  BY CapacityPositive DEF Wrap

LEMMA WrapAround ==
  ASSUME NEW x \in QUEUE_CAPACITY..2 * QUEUE_CAPACITY - 1
  PROVE  Wrap(x) = x - QUEUE_CAPACITY
  BY CapacityPositive DEF Wrap

(* Both in one: what the proofs below use of Wrap. *)
LEMMA WrapValue ==
  ASSUME NEW x \in 0..2 * QUEUE_CAPACITY - 1
  PROVE  /\ Wrap(x) = IF x < QUEUE_CAPACITY THEN x ELSE x - QUEUE_CAPACITY
         /\ Wrap(x) \in Index
  <1>1. CASE x < QUEUE_CAPACITY
    BY <1>1, CapacityPositive, WrapInside DEF Index
  <1>2. CASE ~(x < QUEUE_CAPACITY)
    BY <1>2, CapacityPositive, WrapAround DEF Index
  <1> QED BY <1>1, <1>2

-----------------------------------------------------------------------------
(* The threads: who is asleep and who is on the way to the mutex. *)

Awake == In("woken") \cup In("timedout")

LEMMA AwakeIsFinite == IsFiniteSet(Awake) /\ Cardinality(Awake) \in Nat
  <1>1. Awake \subseteq Consumers
    BY DEF Awake, In
  <1> QED BY <1>1, ConsumersAssumption, FS_Subset, FS_CardinalityType

(* A sleeper that is woken or times out is one more thread on its way. *)
LEMMA OneMoreAwake ==
  ASSUME thread \in [Consumers -> ThreadStates],
         NEW c \in Consumers, thread[c] = "waiting",
         NEW s \in {"woken", "timedout"},
         thread' = [thread EXCEPT ![c] = s]
  PROVE  /\ Cardinality(Awake') = Cardinality(Awake) + 1
         /\ In("waiting")' \subseteq In("waiting")
  <1>1. Awake' = Awake \cup {c} /\ c \notin Awake
    BY DEF Awake, In
  <1>2. Cardinality(Awake') = Cardinality(Awake) + 1
    BY <1>1, AwakeIsFinite, FS_AddElement
  <1>3. In("waiting")' \subseteq In("waiting")
    BY DEF In
  <1> QED BY <1>2, <1>3

(* A thread that returns from the call is one less. *)
LEMMA OneLessAwake ==
  ASSUME thread \in [Consumers -> ThreadStates],
         NEW c \in Consumers, thread[c] \in {"woken", "timedout"},
         thread' = [thread EXCEPT ![c] = "idle"]
  PROVE  /\ Cardinality(Awake') = Cardinality(Awake) - 1
         /\ In("waiting")' = In("waiting")
  <1>1. Awake' = Awake \ {c} /\ c \in Awake
    BY DEF Awake, In
  <1>2. Cardinality(Awake') = Cardinality(Awake) - 1
    BY <1>1, AwakeIsFinite, FS_RemoveElement
  <1>3. In("waiting")' = In("waiting")
    BY DEF In
  <1> QED BY <1>2, <1>3

-----------------------------------------------------------------------------
(* One action at a time: Next as the disjunction of its leaves. *)

LEMMA QueueSteps ==
  ASSUME QNext
  PROVE  \/ \E e \in Events : PushAccepted(e)
         \/ PushDropped
         \/ \E c \in Consumers : pktqueue_pop(c)
         \/ \E c \in Consumers : WaitReturns(c)
         \/ \E c \in Consumers : WaitBlocks(c)
         \/ \E c \in Consumers : Deadline(c)
         \/ \E c \in Consumers : SpuriousWakeup(c)
         \/ \E c \in Consumers : WaitAgain(c)
         \/ \E c \in Consumers : WaitDone(c)
         \/ pktqueue_shutdown
         \/ QTick
  BY Zenon DEF QNext, pktqueue_push, Consume, Reacquire

-----------------------------------------------------------------------------
(* The inductive invariant. *)
QInv == QTypeOK /\ RingInv /\ NoLostWakeup /\ NobodySleepsInShutdown

LEMMA QueueInit == QInit => QInv
  <1> SUFFICES ASSUME QInit PROVE QInv
    OBVIOUS
  <1>1. QTypeOK
    <2>1. 0 \in Index /\ 0 \in 0..QUEUE_CAPACITY /\ StartTime \in Nat
      BY CapacityPositive, QueueTimeAssumption DEF Index
    <2>2. /\ ring \in [Index -> Events \cup {NoEvent}]
          /\ thread \in [Consumers -> ThreadStates]
          /\ got \in [Consumers -> Events \cup {NoEvent}]
      BY DEF QInit, ThreadStates
    <2> QED
      BY <2>1, <2>2 DEF QInit, QTypeOK
  <1>2. RingInv
    BY CapacityPositive, WrapInside DEF QInit, RingInv
  <1>3. In("waiting") = {}
    BY DEF QInit, In
  <1> QED
    BY <1>1, <1>2, <1>3 DEF QInv, NoLostWakeup, NobodySleepsInShutdown

(* What pthread_cond_signal() may do to the threads. *)
LEMMA SignalWakes ==
  ASSUME thread \in [Consumers -> ThreadStates], Signal
  PROVE  /\ thread' \in [Consumers -> ThreadStates]
         /\ In("waiting")' \subseteq In("waiting")
         /\ In("waiting") # {} => Cardinality(Awake') = Cardinality(Awake) + 1
  <1>1. CASE In("waiting") = {}
    BY <1>1 DEF Signal, In
  <1>2. CASE In("waiting") # {}
    <2>1. PICK c \in In("waiting") : thread' = [thread EXCEPT ![c] = "woken"]
      BY <1>2 DEF Signal
    <2>2. c \in Consumers /\ thread[c] = "waiting"
      BY DEF In
    <2>3. thread' \in [Consumers -> ThreadStates]
      BY <2>1 DEF ThreadStates
    <2> QED BY <2>1, <2>2, <2>3, OneMoreAwake
  <1> QED BY <1>1, <1>2

(* Types, and the agreement of head, tail and count, for the two halves of   *)
(* the ring's work.                                                          *)
LEMMA TakeKeepsRing ==
  ASSUME QTypeOK, RingInv, NEW c \in Consumers, Take(c) \/ TakeNothing(c)
  PROVE  /\ ring' = ring /\ head' = head
         /\ tail' \in Index /\ count' \in 0..QUEUE_CAPACITY
         /\ got' \in [Consumers -> Events \cup {NoEvent}]
         /\ head' = Wrap(tail' + count')
         /\ count' = IF count > 0 THEN count - 1 ELSE 0
  <1>1. CASE Take(c)
    <2>1. tail + 1 \in 0..2 * QUEUE_CAPACITY - 1 /\ tail + count \in 0..2 * QUEUE_CAPACITY - 1
      BY CapacityPositive DEF QTypeOK, Index
    <2>2. tail' \in Index
      BY <1>1, <2>1, WrapValue DEF Take
    <2>3. count' = count - 1 /\ count' \in 0..QUEUE_CAPACITY - 1 /\ count > 0
      BY <1>1, CapacityPositive DEF Take, QTypeOK
    <2>4. tail' + count' \in 0..2 * QUEUE_CAPACITY - 1
      BY <2>2, <2>3, CapacityPositive DEF Index
    <2>5. head' = Wrap(tail' + count')
      <3>1. head' = Wrap(tail + count) /\ tail' = Wrap(tail + 1)
        BY <1>1 DEF Take, RingInv
      <3>2. tail \in 0..QUEUE_CAPACITY - 1 /\ count \in 1..QUEUE_CAPACITY
        BY <2>3, CapacityPositive DEF QTypeOK, Index
      <3>3. CASE tail + 1 < QUEUE_CAPACITY
        <4>1. tail' = tail + 1
          BY <2>1, <3>1, <3>3, WrapValue
        <4>2. tail' + count' = tail + count
          BY <2>3, <3>2, <4>1
        <4> QED BY <3>1, <4>2
      <3>4. CASE ~(tail + 1 < QUEUE_CAPACITY)
        <4>1. tail = QUEUE_CAPACITY - 1
          BY <3>2, <3>4, CapacityPositive
        <4>2. tail' = 0
          BY <2>1, <3>1, <3>4, <4>1, WrapValue, CapacityPositive
        <4>3. Wrap(tail' + count') = count - 1
          BY <2>3, <2>4, <3>2, <4>2, WrapValue, CapacityPositive
        <4>4. Wrap(tail + count) = count - 1
          BY <2>1, <3>2, <4>1, WrapValue, CapacityPositive
        <4> QED BY <3>1, <4>3, <4>4
      <3> QED BY <3>3, <3>4
    <2>6. got' \in [Consumers -> Events \cup {NoEvent}]
      BY <1>1 DEF Take, QTypeOK
    <2> QED BY <1>1, <2>2, <2>3, <2>5, <2>6, CapacityPositive DEF Take
  <1>2. CASE TakeNothing(c)
    BY <1>2, CapacityPositive DEF TakeNothing, ringvars, QTypeOK, RingInv
  <1> QED BY <1>1, <1>2

LEMMA PushKeepsRing ==
  ASSUME QTypeOK, RingInv, NEW e \in Events, PushAccepted(e)
  PROVE  /\ ring' \in [Index -> Events \cup {NoEvent}]
         /\ head' \in Index /\ count' \in 0..QUEUE_CAPACITY
         /\ head' = Wrap(tail' + count')
  <1>1. /\ head + 1 \in 0..2 * QUEUE_CAPACITY - 1
        /\ tail + count \in 0..2 * QUEUE_CAPACITY - 1
        /\ tail' + count' \in 0..2 * QUEUE_CAPACITY - 1
    BY CapacityPositive DEF QTypeOK, Index, PushAccepted
  <1>2. head' \in Index
    BY <1>1, WrapValue DEF PushAccepted
  <1>3. head' = Wrap(tail' + count')
    BY <1>1, WrapValue, CapacityPositive DEF PushAccepted, RingInv, QTypeOK, Index
  <1>4. ring' \in [Index -> Events \cup {NoEvent}] /\ count' \in 0..QUEUE_CAPACITY
    BY CapacityPositive DEF PushAccepted, QTypeOK
  <1> QED BY <1>2, <1>3, <1>4

-----------------------------------------------------------------------------
LEMMA RingKept ==
  ASSUME QTypeOK, RingInv, [QNext]_qvars
  PROVE  QTypeOK' /\ RingInv'
  <1>1. ASSUME NEW e \in Events, PushAccepted(e) PROVE QTypeOK' /\ RingInv'
    <2>1. thread' \in [Consumers -> ThreadStates]
      BY <1>1, SignalWakes DEF PushAccepted, SignalPush, QTypeOK
    <2> QED
      BY <1>1, <2>1, PushKeepsRing DEF PushAccepted, QTypeOK, RingInv, dropvars
  <1>2. CASE PushDropped
    <2>1. /\ dropped' \in Nat /\ last_drop_report' \in Nat
          /\ refused' \in Nat /\ reported' \in Nat
      BY <1>2 DEF PushDropped, QTypeOK, Unreported
    <2> QED
      BY <1>2, <2>1 DEF PushDropped, QTypeOK, RingInv, ringvars
  <1>3. ASSUME NEW c \in Consumers, pktqueue_pop(c) PROVE QTypeOK' /\ RingInv'
    BY <1>3, TakeKeepsRing DEF pktqueue_pop, QTypeOK, RingInv, dropvars
  <1>4. ASSUME NEW c \in Consumers, WaitReturns(c) PROVE QTypeOK' /\ RingInv'
    BY <1>4, TakeKeepsRing DEF WaitReturns, QTypeOK, RingInv, dropvars
  <1>5. ASSUME NEW c \in Consumers, WaitBlocks(c) PROVE QTypeOK' /\ RingInv'
    BY <1>5 DEF WaitBlocks, QTypeOK, RingInv, ringvars, dropvars, ThreadStates
  <1>6. ASSUME NEW c \in Consumers, Deadline(c) PROVE QTypeOK' /\ RingInv'
    BY <1>6 DEF Deadline, QTypeOK, RingInv, ringvars, dropvars, ThreadStates
  <1>7. ASSUME NEW c \in Consumers, SpuriousWakeup(c) PROVE QTypeOK' /\ RingInv'
    BY <1>7 DEF SpuriousWakeup, QTypeOK, RingInv, ringvars, dropvars, ThreadStates
  <1>8. ASSUME NEW c \in Consumers, WaitAgain(c) PROVE QTypeOK' /\ RingInv'
    BY <1>8 DEF WaitAgain, QTypeOK, RingInv, ringvars, dropvars, ThreadStates
  <1>9. ASSUME NEW c \in Consumers, WaitDone(c) PROVE QTypeOK' /\ RingInv'
    <2>1. thread' \in [Consumers -> ThreadStates]
      BY <1>9 DEF WaitDone, QTypeOK, ThreadStates
    <2> QED
      BY <1>9, <2>1, TakeKeepsRing DEF WaitDone, QTypeOK, RingInv, dropvars
  <1>10. CASE pktqueue_shutdown
    BY <1>10 DEF pktqueue_shutdown, QTypeOK, RingInv, ringvars, dropvars, ThreadStates
  <1>11. CASE QTick
    BY <1>11 DEF QTick, QTypeOK, RingInv, ringvars, dropvars
  <1>12. CASE UNCHANGED qvars
    BY <1>12 DEF qvars, QTypeOK, RingInv, ringvars, dropvars
  <1> QED
    BY <1>1, <1>2, <1>3, <1>4, <1>5, <1>6, <1>7, <1>8, <1>9, <1>10, <1>11, <1>12,
       QueueSteps

LEMMA NobodySleepsKept ==
  ASSUME QTypeOK, NobodySleepsInShutdown, [QNext]_qvars
  PROVE  NobodySleepsInShutdown'
  <1>1. ASSUME NEW e \in Events, PushAccepted(e) PROVE NobodySleepsInShutdown'
    BY <1>1, SignalWakes DEF PushAccepted, SignalPush, QTypeOK, NobodySleepsInShutdown
  <1>2. CASE PushDropped \/ QTick \/ UNCHANGED qvars
    BY <1>2 DEF PushDropped, QTick, qvars, NobodySleepsInShutdown, In
  <1>3. ASSUME NEW c \in Consumers, pktqueue_pop(c) \/ WaitReturns(c)
        PROVE  NobodySleepsInShutdown'
    BY <1>3 DEF pktqueue_pop, WaitReturns, NobodySleepsInShutdown, In
  <1>4. ASSUME NEW c \in Consumers, WaitBlocks(c) \/ WaitAgain(c)
        PROVE  NobodySleepsInShutdown'
    BY <1>4 DEF WaitBlocks, WaitAgain, MustWait, NobodySleepsInShutdown
  <1>5. ASSUME NEW c \in Consumers, Deadline(c) \/ SpuriousWakeup(c) \/ WaitDone(c)
        PROVE  NobodySleepsInShutdown'
    BY <1>5 DEF Deadline, SpuriousWakeup, WaitDone, NobodySleepsInShutdown, In, QTypeOK
  <1>6. CASE pktqueue_shutdown
    <2>1. In("waiting")' = {}
      BY <1>6 DEF pktqueue_shutdown, In, QTypeOK
    <2> QED BY <2>1 DEF NobodySleepsInShutdown
  <1> QED
    BY <1>1, <1>2, <1>3, <1>4, <1>5, <1>6, QueueSteps

(* Every event a push adds wakes a sleeper, and every sleeper that takes an  *)
(* event uses up its own wakeup.                                             *)
LEMMA WakeupsKept ==
  ASSUME QTypeOK, RingInv, NoLostWakeup, [QNext]_qvars
  PROVE  NoLostWakeup'
  <1>a. In("waiting") # {} => count <= Cardinality(Awake)
    BY DEF NoLostWakeup, Awake
  <1>b. count \in Nat /\ Cardinality(Awake) \in Nat
    BY AwakeIsFinite, CapacityPositive DEF QTypeOK
  <1>c. Cardinality(Awake') \in Nat
    <2>1. Awake' \subseteq Consumers
      BY DEF Awake, In
    <2> QED BY <2>1, ConsumersAssumption, FS_Subset, FS_CardinalityType
  <1>d. thread' = thread => Awake' = Awake /\ In("waiting")' = In("waiting")
    BY DEF Awake, In
  <1> SUFFICES ASSUME In("waiting")' # {} PROVE count' <= Cardinality(Awake')
    BY DEF NoLostWakeup, Awake
  <1>1. ASSUME NEW e \in Events, PushAccepted(e) PROVE count' <= Cardinality(Awake')
    <2>1. /\ In("waiting") # {}
          /\ Cardinality(Awake') = Cardinality(Awake) + 1
      BY <1>1, SignalWakes DEF PushAccepted, SignalPush, QTypeOK
    <2> QED BY <1>1, <1>a, <1>b, <2>1 DEF PushAccepted
  <1>2. CASE PushDropped
    BY <1>2, <1>a, <1>d DEF PushDropped, ringvars
  <1>3. ASSUME NEW c \in Consumers, pktqueue_pop(c) \/ WaitReturns(c)
        PROVE  count' <= Cardinality(Awake')
    <2>1. thread' = thread /\ count' = IF count > 0 THEN count - 1 ELSE 0
      BY <1>3, TakeKeepsRing DEF pktqueue_pop, WaitReturns
    <2> QED BY <1>a, <1>b, <1>d, <2>1
  <1>4. ASSUME NEW c \in Consumers, WaitBlocks(c) \/ WaitAgain(c)
        PROVE  count' <= Cardinality(Awake')
    BY <1>4, <1>c DEF WaitBlocks, WaitAgain, MustWait, ringvars
  <1>5. ASSUME NEW c \in Consumers, Deadline(c) \/ SpuriousWakeup(c)
        PROVE  count' <= Cardinality(Awake')
    <2>1. /\ In("waiting") # {} /\ count' = count
          /\ Cardinality(Awake') = Cardinality(Awake) + 1
      BY <1>5, OneMoreAwake DEF Deadline, SpuriousWakeup, QTypeOK, ringvars
    <2> QED BY <1>a, <1>b, <2>1
  <1>6. ASSUME NEW c \in Consumers, WaitDone(c)
        PROVE  count' <= Cardinality(Awake')
    <2>1. count' = IF count > 0 THEN count - 1 ELSE 0
      BY <1>6, TakeKeepsRing DEF WaitDone
    <2>2. /\ Cardinality(Awake') = Cardinality(Awake) - 1
          /\ In("waiting")' = In("waiting")
      BY <1>6, OneLessAwake DEF WaitDone, QTypeOK
    <2> QED BY <1>a, <1>b, <1>c, <2>1, <2>2
  <1>7. CASE pktqueue_shutdown
    <2>1. In("waiting")' = {}
      BY <1>7 DEF pktqueue_shutdown, In, QTypeOK
    <2> QED BY <2>1
  <1>8. CASE QTick \/ UNCHANGED qvars
    BY <1>8, <1>a, <1>d DEF QTick, qvars, ringvars
  <1> QED
    BY <1>1, <1>2, <1>3, <1>4, <1>5, <1>6, <1>7, <1>8, QueueSteps

LEMMA QueueInvariant == QSpec => []QInv
  <1>1. QInv /\ [QNext]_qvars => QInv'
    BY RingKept, NobodySleepsKept, WakeupsKept DEF QInv
  <1> QED
    BY QueueInit, <1>1, PTL DEF QSpec

-----------------------------------------------------------------------------
(* The ring keeps its form: the slots hold events, the indices and the count *)
(* stay inside the ring, for every capacity and under every interleaving.    *)
THEOREM QueueTypeCorrect == QSpec => []QTypeOK
  <1>1. QInv => QTypeOK
    BY DEF QInv
  <1> QED BY QueueInvariant, <1>1, PTL

(* head, tail and count of the ring buffer agree, however often the masked   *)
(* indices have gone round.                                                  *)
THEOREM RingWellFormed == QSpec => []RingInv
  <1>1. QInv => RingInv
    BY DEF QInv
  <1> QED BY QueueInvariant, <1>1, PTL

(* pktqueue_push() signals once per event and that is enough: no thread      *)
(* sleeps on while an event waits that nobody is on the way to take, with    *)
(* any number of consumers, spurious wakeups, deadlines and stolen events.   *)
THEOREM WakeupsAreNotLost == QSpec => []NoLostWakeup
  <1>1. QInv => NoLostWakeup
    BY DEF QInv
  <1> QED BY QueueInvariant, <1>1, PTL

(* pktqueue_shutdown() reaches every sleeper, and nobody goes to sleep after *)
(* it.                                                                       *)
THEOREM ShutdownWakesEverybody == QSpec => []NobodySleepsInShutdown
  <1>1. QInv => NobodySleepsInShutdown
    BY DEF QInv
  <1> QED BY QueueInvariant, <1>1, PTL

-----------------------------------------------------------------------------
(* The refinement: the ring, read from tail on, is the abstract queue. *)

Slot == Events \cup {NoEvent}

LEMMA ContentsIsASequence ==
  ASSUME QTypeOK
  PROVE  /\ Contents \in Seq(Slot) /\ Len(Contents) = count
         /\ \A i \in 1..count : /\ tail + i - 1 \in 0..2 * QUEUE_CAPACITY - 1
                                /\ Contents[i] = ring[Wrap(tail + i - 1)]
         /\ count = 0 <=> Contents = <<>>
  <1>1. \A i \in 1..count : tail + i - 1 \in 0..2 * QUEUE_CAPACITY - 1
    BY CapacityPositive DEF QTypeOK, Index
  <1>2. \A i \in 1..count : ring[Wrap(tail + i - 1)] \in Slot
    BY <1>1, WrapValue DEF QTypeOK, Slot
  <1>3. count \in Nat
    BY CapacityPositive DEF QTypeOK
  <1>4. Contents \in [1..count -> Slot]
    BY <1>2 DEF Contents
  <1>5. Contents \in Seq(Slot) /\ Len(Contents) = count
    BY <1>3, <1>4
  <1>6. count = 0 <=> Contents = <<>>
    BY <1>3, <1>5, EmptySeq
  <1> QED BY <1>1, <1>5, <1>6 DEF Contents

(* A push adds its event at the end: the slot at head is outside the part    *)
(* of the ring in use.                                                       *)
LEMMA PushAppends ==
  ASSUME QTypeOK, RingInv, NEW e \in Events, PushAccepted(e)
  PROVE  Contents' = Append(Contents, e)
  <1>1. /\ count' = count + 1 /\ tail' = tail /\ count < QUEUE_CAPACITY
        /\ ring' = [ring EXCEPT ![head] = e]
        /\ count \in Nat /\ tail \in Index /\ head \in Index
    BY CapacityPositive DEF PushAccepted, QTypeOK
  <1>2. /\ Append(Contents, e) \in Seq(Slot)
        /\ Len(Append(Contents, e)) = count + 1
        /\ \A i \in 1..count + 1 :
              Append(Contents, e)[i] = IF i <= count THEN Contents[i] ELSE e
    BY ContentsIsASequence, AppendProperties, <1>1 DEF Slot
  <1>3. \A i \in 1..count + 1 : ring'[Wrap(tail + i - 1)] = Append(Contents, e)[i]
    <2> SUFFICES ASSUME NEW i \in 1..count + 1
                 PROVE  ring'[Wrap(tail + i - 1)] = Append(Contents, e)[i]
      OBVIOUS
    <2>1. CASE i = count + 1
      <3>1. Wrap(tail + i - 1) = head
        BY <2>1, <1>1, CapacityPositive DEF RingInv, Index
      <3> QED BY <2>1, <3>1, <1>1, <1>2 DEF QTypeOK
    <2>2. CASE i # count + 1
      <3>1. i \in 1..count /\ i <= count
        BY <2>2, <1>1
      <3>2. /\ tail + count \in 0..2 * QUEUE_CAPACITY - 1
            /\ tail + i - 1 \in 0..2 * QUEUE_CAPACITY - 1
        BY <1>1, <3>1, CapacityPositive DEF Index
      <3> DEFINE h == tail + count
                 p == tail + i - 1
      <3>3. Wrap(h) = IF h < QUEUE_CAPACITY THEN h ELSE h - QUEUE_CAPACITY
        BY <3>2, WrapValue
      <3>4. /\ Wrap(p) = IF p < QUEUE_CAPACITY THEN p ELSE p - QUEUE_CAPACITY
            /\ Wrap(p) \in Index
        BY <3>2, WrapValue
      <3>5. Wrap(p) # Wrap(h)
        BY <3>1, <3>3, <3>4, <1>1, CapacityPositive DEF Index
      <3>6. ring'[Wrap(p)] = ring[Wrap(p)]
        BY <1>1, <3>4, <3>5 DEF QTypeOK, RingInv
      <3> QED BY <3>1, <3>6, <1>2, ContentsIsASequence
    <2> QED BY <2>1, <2>2
  <1>4. Contents' = [i \in 1..count + 1 |-> ring'[Wrap(tail + i - 1)]]
    BY <1>1 DEF Contents
  <1>5. Contents' = [i \in 1..count + 1 |-> Append(Contents, e)[i]]
    BY <1>3, <1>4
  <1> QED BY <1>2, <1>5, LenProperties

(* Taking an event takes the oldest. *)
LEMMA TakeDequeues ==
  ASSUME QTypeOK, RingInv, NEW c \in Consumers, Take(c)
  PROVE  /\ Contents # <<>>
         /\ Contents' = Tail(Contents)
         /\ got' = [got EXCEPT ![c] = Head(Contents)]
  <1>1. /\ count > 0 /\ count \in Nat /\ count' = count - 1 /\ ring' = ring
        /\ count <= QUEUE_CAPACITY /\ tail \in Index
        /\ tail + 1 \in 0..2 * QUEUE_CAPACITY - 1
        /\ tail' = Wrap(tail + 1)
    BY CapacityPositive DEF QTypeOK, Take, Index
  <1>2. Contents # <<>> /\ Contents \in Seq(Slot) /\ Len(Contents) = count
    BY <1>1, ContentsIsASequence
  <1>3. /\ Tail(Contents) \in Seq(Slot) /\ Len(Tail(Contents)) = count - 1
        /\ \A i \in 1..count - 1 : Tail(Contents)[i] = Contents[i + 1]
    BY <1>2, HeadTailProperties
  <1>4. Head(Contents) = ring[tail]
    <2>1. Contents[1] = ring[Wrap(tail + 1 - 1)] /\ 1 \in 1..count
      BY <1>1, ContentsIsASequence
    <2>2. Wrap(tail + 1 - 1) = tail
      BY <1>1, CapacityPositive, WrapInside DEF Index
    <2> QED BY <2>1, <2>2, <1>2
  <1>5. tail' \in Index
    BY <1>1, WrapValue
  <1>6. \A i \in 1..count - 1 : ring'[Wrap(tail' + i - 1)] = Tail(Contents)[i]
    <2> SUFFICES ASSUME NEW i \in 1..count - 1
                 PROVE  ring'[Wrap(tail' + i - 1)] = Tail(Contents)[i]
      OBVIOUS
    <2>1. /\ i + 1 \in 1..count
          /\ Contents[i + 1] = ring[Wrap(tail + (i + 1) - 1)]
      BY <1>1, ContentsIsASequence
    <2>2. /\ tail + i \in 0..2 * QUEUE_CAPACITY - 1
          /\ tail' + i - 1 \in 0..2 * QUEUE_CAPACITY - 1
          /\ tail + (i + 1) - 1 = tail + i
      BY <1>1, <1>5, CapacityPositive DEF Index
    <2>3. Wrap(tail' + i - 1) = Wrap(tail + i)
      BY <1>1, <1>5, <2>2, WrapValue, CapacityPositive DEF Index
    <2> QED BY <1>1, <1>3, <2>1, <2>2, <2>3
  <1>7. /\ Contents' = [i \in 1..count - 1 |-> ring'[Wrap(tail' + i - 1)]]
    BY <1>1 DEF Contents
  <1>8. Contents' = [i \in 1..count - 1 |-> Tail(Contents)[i]]
    BY <1>6, <1>7
  <1>9. Contents' = Tail(Contents)
    BY <1>3, <1>8, LenProperties
  <1> QED BY <1>2, <1>4, <1>9 DEF Take

(* The abstract queue only moves with the ring. *)
LEMMA ContentsUnchanged == UNCHANGED ringvars => Contents' = Contents
  BY DEF ringvars, Contents

(* Every step of the ring is a step of the bounded FIFO, or none. *)
LEMMA StepRefines ==
  ASSUME QInv, [QNext]_qvars
  PROVE  [Fifo!BNext]_(Fifo!bvars)
  <1> USE DEF QInv
  <1>1. ASSUME NEW e \in Events, PushAccepted(e) PROVE Fifo!BNext
    <2>1. Len(Contents) < QUEUE_CAPACITY
      BY <1>1, ContentsIsASequence DEF PushAccepted
    <2>2. Fifo!Enqueue(e)
      BY <1>1, <2>1, PushAppends DEF PushAccepted, Fifo!Enqueue, dropvars
    <2> QED BY <2>2 DEF Fifo!BNext
  <1>2. CASE PushDropped
    <2>1. Len(Contents) = QUEUE_CAPACITY
      BY <1>2, CapacityPositive, ContentsIsASequence DEF PushDropped, QTypeOK
    <2>2. refused' = refused + 1 /\ dropped' + reported' = (dropped + reported) + 1
      BY <1>2 DEF PushDropped, Unreported, QTypeOK
    <2>3. Contents' = Contents /\ got' = got
      BY <1>2, ContentsUnchanged DEF PushDropped
    <2> QED BY <2>1, <2>2, <2>3 DEF Fifo!BNext, Fifo!Lose
  <1>3. ASSUME NEW c \in Consumers, Take(c) \/ TakeNothing(c), UNCHANGED dropvars
        PROVE  Fifo!BNext
    <2>1. CASE Take(c)
      <3>1. Fifo!Dequeue(c)
        BY <1>3, <2>1, TakeDequeues DEF Fifo!Dequeue, dropvars
      <3> QED BY <3>1 DEF Fifo!BNext
    <2>2. CASE TakeNothing(c)
      <3>1. Fifo!ComeBackEmpty(c)
        BY <1>3, <2>2, ContentsIsASequence, ContentsUnchanged
           DEF TakeNothing, Fifo!ComeBackEmpty, dropvars
      <3> QED BY <3>1 DEF Fifo!BNext
    <2> QED BY <1>3, <2>1, <2>2
  <1>4. ASSUME NEW c \in Consumers, pktqueue_pop(c) \/ WaitReturns(c) \/ WaitDone(c)
        PROVE  Fifo!BNext
    BY <1>3, <1>4 DEF pktqueue_pop, WaitReturns, WaitDone
  <1>5. ASSUME NEW c \in Consumers, WaitBlocks(c) PROVE Fifo!BNext
    <2>1. Fifo!ComeBackEmpty(c)
      BY <1>5, ContentsIsASequence, ContentsUnchanged
         DEF WaitBlocks, MustWait, Fifo!ComeBackEmpty, dropvars
    <2> QED BY <2>1 DEF Fifo!BNext
  <1>6. ASSUME UNCHANGED <<ringvars, dropvars, got>> PROVE UNCHANGED Fifo!bvars
    BY <1>6, ContentsUnchanged DEF Fifo!bvars, dropvars
  <1>7. ASSUME NEW c \in Consumers, Deadline(c) \/ SpuriousWakeup(c) \/ WaitAgain(c)
        PROVE  UNCHANGED Fifo!bvars
    BY <1>6, <1>7 DEF Deadline, SpuriousWakeup, WaitAgain
  <1>8. CASE pktqueue_shutdown \/ QTick \/ UNCHANGED qvars
    BY <1>6, <1>8 DEF pktqueue_shutdown, QTick, qvars
  <1> QED
    BY <1>1, <1>2, <1>4, <1>5, <1>7, <1>8, QueueSteps

(* packet_queue.c implements the bounded FIFO that packet_queue.h promises,  *)
(* for every capacity and any number of threads: events leave in the order   *)
(* they came, once each, and every loss is counted.                          *)
THEOREM RingImplementsFifo == QSpec => ImplementsBoundedQueue
  <1>1. QInit => Fifo!BInit
    <2> SUFFICES ASSUME QInit PROVE Fifo!BInit
      OBVIOUS
    <2>1. QTypeOK
      BY QueueInit DEF QInv
    <2>2. Contents = <<>>
      BY <2>1, ContentsIsASequence DEF QInit
    <2> QED BY <2>2 DEF QInit, Fifo!BInit
  <1> QED
    BY <1>1, QueueInvariant, StepRefines, PTL
       DEF QSpec, ImplementsBoundedQueue, Fifo!BSpec

=============================================================================
