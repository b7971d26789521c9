---------------------------- MODULE KnockerProofs ----------------------------
(***************************************************************************)
(* The knock table is type correct and consistent for every sequence, table *)
(* size, window and behaviour of the wall clock.                            *)
(*                                                                          *)
(* TypeOK is not inductive alone: that a completed entry's step count stays *)
(* within the sequence needs a live entry to be strictly inside it, which   *)
(* is TableInv.  The two are proved together.  With them every step of the  *)
(* table is a step of KnockProgress or none.                                *)
(***************************************************************************)
EXTENDS KnockerRefinement, WellFoundedInduction, FiniteSetTheorems, TLAPS

(* Every non-empty set of naturals has a least element. *)
LEMMA LeastNatural ==
    ASSUME NEW T, T \subseteq Nat, T # {}
    PROVE  \E x \in T : \A y \in T : x <= y
<1>1. \E x \in T : \A y \in T : ~(<<y, x>> \in OpToRel(<, Nat))
    BY NatLessThanWellFounded, WFMin
<1>2. PICK x \in T : \A y \in T : ~(<<y, x>> \in OpToRel(<, Nat))
    BY <1>1
<1>3. ASSUME NEW y \in T PROVE x <= y
    <2>1. ~(y < x)
        BY <1>2, <1>3 DEF OpToRel
    <2>2. x \in Nat /\ y \in Nat
        BY <1>3
    <2> QED
        BY <2>1, <2>2
<1> QED
    BY <1>2, <1>3

(* A scan of the table that finds something returns one of its hits. *)
LEMMA FirstIsMember ==
    ASSUME NEW S, S \subseteq Slots, S # {}
    PROVE  First(S) \in S
<1>1. S \subseteq Nat
    BY LimitAssumption DEF Slots
<1>2. \E i \in S : \A j \in S : i <= j
    BY <1>1, LeastNatural
<1> QED
    BY <1>2 DEF First

(* The configured ports. *)
LEMMA SequenceFacts ==
    /\ KNOCK_SEQ_LEN \in Nat
    /\ KNOCK_SEQ_LEN >= 2
    /\ \A k \in 1..KNOCK_SEQ_LEN :
          KNOCK_SEQUENCE[k] \in KnockPorts /\ KNOCK_SEQUENCE[k] \in Nat \ {0}
    /\ 0 \notin KnockPorts
    BY SequenceAssumption DEF KNOCK_SEQ_LEN, KnockPorts

(* find_client() returns a live entry of the address. *)
LEMMA FoundClient ==
    ASSUME NEW ip, find_client(ip) # NULL
    PROVE  /\ find_client(ip) \in Slots
           /\ clients[find_client(ip)].active
           /\ clients[find_client(ip)].ip = ip
<1> DEFINE found == {i \in Slots : clients[i].active /\ clients[i].ip = ip}
<1>1. found # {} /\ find_client(ip) = First(found)
    BY DEF find_client
<1>2. First(found) \in found
    BY <1>1, FirstIsMember
<1> QED
    BY <1>1, <1>2

(* When it returns NULL the address has no live entry. *)
LEMMA NoClient ==
    ASSUME NEW ip, find_client(ip) = NULL
    PROVE  \A i \in Slots : ~(clients[i].active /\ clients[i].ip = ip)
<1> DEFINE found == {i \in Slots : clients[i].active /\ clients[i].ip = ip}
<1>1. CASE found = {}
    BY <1>1
<1>2. CASE found # {}
    <2>1. First(found) \in Slots
        BY <1>2, FirstIsMember
    <2>2. find_client(ip) = First(found)
        BY <1>2 DEF find_client
    <2> QED
        BY <2>1, <2>2, LimitAssumption DEF Slots, NULL
<1> QED
    BY <1>1, <1>2

(* alloc_client() returns a free slot or one whose window has run out. *)
LEMMA AllocatedSlot ==
    ASSUME TypeOK, NEW t \in Nat, alloc_client(t) # NULL
    PROVE  /\ alloc_client(t) \in Slots
           /\ \/ ~clients[alloc_client(t)].active
              \/ t - clients[alloc_client(t)].last_knock > KNOCK_WINDOW
<1> DEFINE free == {i \in Slots : ~clients[i].active}
           old  == {i \in Slots : \A j \in Slots :
                       clients[i].last_knock <= clients[j].last_knock}
<1>1. CASE free # {}
    <2>1. First(free) \in free
        BY <1>1, FirstIsMember
    <2>2. alloc_client(t) = First(free)
        BY <1>1 DEF alloc_client
    <2> QED
        BY <2>1, <2>2
<1>2. CASE free = {}
    <2> DEFINE times == {clients[i].last_knock : i \in Slots}
    <2>0. \A i \in Slots : clients[i].last_knock \in Nat
        BY DEF TypeOK, Client
    <2>1. times \subseteq Nat /\ times # {}
        <3>1. 0 \in Slots
            BY LimitAssumption DEF Slots
        <3> QED
            BY <2>0, <3>1
    <2>2. PICK m \in times : \A y \in times : m <= y
        BY <2>1, LeastNatural
    <2>3. PICK i \in Slots : clients[i].last_knock = m
        BY <2>2
    <2>4. i \in old
        BY <2>2, <2>3
    <2>5. First(old) \in old
        BY <2>4, FirstIsMember
    <2>6. alloc_client(t) = First(old)
          /\ ~(t - clients[First(old)].last_knock <= KNOCK_WINDOW)
        BY <1>2 DEF alloc_client
    <2>7. clients[First(old)].last_knock \in Nat
        BY <2>5 DEF TypeOK, Client
    <2> QED
        BY <2>5, <2>6, <2>7, LimitAssumption
<1> QED
    BY <1>1, <1>2

-----------------------------------------------------------------------------
(* An entry as process_locked() meets it at the dedup check: live, and       *)
(* either just claimed or strictly inside the sequence.                      *)
Ready(c) ==
    /\ c \in Client
    /\ c.active /\ c.ip \in IPs
    /\ c.current_step \in 0..KNOCK_SEQ_LEN - 1
    /\ c.current_step = 0 => c.last_port = 0
    /\ c.current_step > 0 => c.last_port = KNOCK_SEQUENCE[c.current_step]

(* The entry d afterwards: still of the same address, and if live strictly   *)
(* inside the sequence, because nothing changed or because the knock was the *)
(* next step or a first one.  Only the last step of a sequence completes it. *)
Handled(c, port, res, d) ==
    /\ d \in Client
    /\ d.ip = c.ip
    /\ d.active => /\ d.current_step \in 1..KNOCK_SEQ_LEN - 1
                   /\ d.last_port = KNOCK_SEQUENCE[d.current_step]
                   /\ \/ d = c
                      \/ /\ d.last_knock = now
                         /\ port = KNOCK_SEQUENCE[d.current_step]
                         /\ d.current_step \in {1, StepOf(c) + 1}
    /\ res = "COMPLETE" => /\ ~d.active
                           /\ StepOf(c) + 1 = KNOCK_SEQ_LEN
                           /\ port = KNOCK_SEQUENCE[KNOCK_SEQ_LEN]

LEMMA NewClientIsReady ==
    ASSUME NEW ip \in IPs
    PROVE  Ready(NewClient(ip)) /\ NewClient(ip).ip = ip
<1> DEFINE n == NewClient(ip)
<1>1. Zeroed \in Client
    BY SequenceFacts DEF Zeroed, Client
<1>2. n \in Client
    BY <1>1 DEF NewClient, Client
<1>3. n.ip = ip /\ n.active
    BY <1>1 DEF NewClient, Client
<1>4. n.current_step = 0 /\ n.last_port = 0
    BY DEF NewClient, Zeroed
<1> QED
    BY <1>2, <1>3, <1>4, SequenceFacts DEF Ready

(* An entry whose knock was accepted. *)
LEMMA AcceptedEntry ==
    ASSUME NEW c \in Client, now \in Nat,
           NEW step \in 0..KNOCK_SEQ_LEN, NEW port \in KnockPorts
    PROVE  /\ Accepted(c, step, port) \in Client
           /\ Accepted(c, step, port).ip = c.ip
           /\ Accepted(c, step, port).current_step = step
           /\ Accepted(c, step, port).last_knock = now
           /\ Accepted(c, step, port).last_port = port
           /\ Accepted(c, step, port).active = c.active
    BY DEF Accepted, Client

(* An entry that was released. *)
LEMMA ReleasedEntry ==
    ASSUME NEW c \in Client
    PROVE  /\ [c EXCEPT !.active = FALSE] \in Client
           /\ [c EXCEPT !.active = FALSE].ip = c.ip
           /\ ~[c EXCEPT !.active = FALSE].active
    BY DEF Client

(* An entry whose progress was discarded. *)
LEMMA DiscardedEntry ==
    ASSUME NEW c \in Client, NEW step \in 0..KNOCK_SEQ_LEN
    PROVE  /\ [c EXCEPT !.current_step = step, !.active = FALSE] \in Client
           /\ [c EXCEPT !.current_step = step, !.active = FALSE].ip = c.ip
           /\ ~[c EXCEPT !.current_step = step, !.active = FALSE].active
    BY DEF Client

LEMMA LiveClientIsReady ==
    ASSUME TypeOK, TableInv, NEW i \in Slots, clients[i].active
    PROVE  Ready(clients[i])
<1>1. clients[i] \in Client
    BY DEF TypeOK
<1>2. /\ clients[i].ip \in IPs
      /\ clients[i].current_step \in 1..KNOCK_SEQ_LEN - 1
      /\ clients[i].last_port = KNOCK_SEQUENCE[clients[i].current_step]
    BY DEF TableInv
<1> QED
    BY <1>1, <1>2, SequenceFacts DEF Ready

LEMMA StepFacts ==
    ASSUME NEW c, Ready(c), now \in Nat
    PROVE  StepOf(c) \in 0..KNOCK_SEQ_LEN - 1
    BY SequenceFacts DEF Ready, StepOf

(* Every outcome of a knock leaves its entry in order and writes no other. *)
LEMMA HandleKnockEffect ==
    ASSUME now \in Nat,
           NEW i \in Slots, NEW c, Ready(c),
           NEW port \in KnockPorts, NEW res,
           HandleKnock(i, c, port, res)
    PROVE  \E d : Handled(c, port, res, d) /\ clients' = [clients EXCEPT ![i] = d]
<1>1. StepOf(c) \in 0..KNOCK_SEQ_LEN - 1
    BY StepFacts
<1>2. /\ c \in Client
      /\ StepOf(c) \in 0..KNOCK_SEQ_LEN
      /\ StepOf(c) + 1 \in 0..KNOCK_SEQ_LEN
      /\ 1 \in 0..KNOCK_SEQ_LEN
    BY <1>1, SequenceFacts DEF Ready
<1>3. CASE Repeat(i, c, port, res)
    <2>1. c.current_step # 0
        BY <1>3, SequenceFacts DEF Repeat, IsRepeat, Ready
    <2>2. res # "COMPLETE"
        BY <1>3 DEF Repeat
    <2>3. Handled(c, port, res, c)
        BY <2>1, <2>2, SequenceFacts DEF Handled, Ready
    <2> QED
        BY <1>3, <2>3 DEF Repeat
<1>4. CASE Advance(i, c, port, res)
    <2> DEFINE d == Accepted(c, StepOf(c) + 1, port)
    <2>1. /\ d \in Client
          /\ d.ip = c.ip
          /\ d.current_step = StepOf(c) + 1
          /\ d.last_knock = now /\ d.last_port = port
        BY <1>2, AcceptedEntry
    <2>2. /\ port = KNOCK_SEQUENCE[StepOf(c) + 1]
          /\ StepOf(c) + 1 < KNOCK_SEQ_LEN
          /\ res # "COMPLETE"
        BY <1>4 DEF Advance, IsNext
    <2>3. Handled(c, port, res, d)
        BY <1>1, <2>1, <2>2, SequenceFacts DEF Handled
    <2> QED
        BY <1>4, <2>3 DEF Advance
<1>5. CASE Complete(i, c, port, res)
    <2> DEFINE d == [Accepted(c, StepOf(c) + 1, port) EXCEPT !.active = FALSE]
    <2>1. d \in Client /\ d.ip = c.ip /\ ~d.active
        BY <1>2, AcceptedEntry, ReleasedEntry
    <2>2. StepOf(c) + 1 = KNOCK_SEQ_LEN /\ port = KNOCK_SEQUENCE[KNOCK_SEQ_LEN]
        BY <1>1, <1>5, SequenceFacts DEF Complete, IsNext
    <2>3. Handled(c, port, res, d)
        BY <2>1, <2>2 DEF Handled
    <2> QED
        BY <1>5, <2>3 DEF Complete
<1>6. CASE Restart(i, c, port, res)
    <2> DEFINE d == Accepted(c, 1, port)
    <2>1. /\ d \in Client
          /\ d.ip = c.ip
          /\ d.current_step = 1
          /\ d.last_knock = now /\ d.last_port = port
        BY <1>2, AcceptedEntry
    <2>2. port = KNOCK_SEQUENCE[1] /\ res # "COMPLETE"
        BY <1>6 DEF Restart
    <2>3. Handled(c, port, res, d)
        BY <2>1, <2>2, SequenceFacts DEF Handled
    <2> QED
        BY <1>6, <2>3 DEF Restart
<1>7. CASE Discard(i, c, port, res)
    <2> DEFINE d == [c EXCEPT !.current_step = StepOf(c), !.active = FALSE]
    <2>1. d \in Client /\ d.ip = c.ip /\ ~d.active
        BY <1>2, DiscardedEntry
    <2>2. res # "COMPLETE"
        BY <1>7 DEF Discard
    <2>3. Handled(c, port, res, d)
        BY <2>1, <2>2 DEF Handled
    <2> QED
        BY <1>7, <2>3 DEF Discard
<1> QED
    BY <1>3, <1>4, <1>5, <1>6, <1>7 DEF HandleKnock

(* Writing a handled entry into the slot of its address, or into one that    *)
(* is given to an address without an entry, keeps the table in order.        *)
LEMMA WriteKeepsTable ==
    ASSUME TypeOK, TableInv, NEW i \in Slots,
           NEW c, Ready(c), NEW port, NEW res, NEW d, Handled(c, port, res, d),
           \A j \in Slots \ {i} : ~(clients[j].active /\ clients[j].ip = c.ip),
           clients' = [clients EXCEPT ![i] = d]
    PROVE  clients' \in [Slots -> Client] /\ TableInv'
<1>1. clients' \in [Slots -> Client]
    BY DEF TypeOK, Handled
<1>2. clients'[i] = d /\ \A j \in Slots \ {i} : clients'[j] = clients[j]
    BY DEF TypeOK
<1>3. ASSUME NEW j \in Slots, clients'[j].active
      PROVE  /\ clients'[j].ip \in IPs
             /\ clients'[j].current_step \in 1..KNOCK_SEQ_LEN - 1
             /\ clients'[j].last_port = KNOCK_SEQUENCE[clients'[j].current_step]
    BY <1>2, <1>3 DEF TableInv, Handled, Ready
<1>4. ASSUME NEW j \in Slots, NEW k \in Slots,
             clients'[j].active, clients'[k].active,
             clients'[j].ip = clients'[k].ip
      PROVE  j = k
    <2>1. CASE j # i /\ k # i
        BY <1>2, <1>4, <2>1 DEF TableInv
    <2>2. CASE j = i \/ k = i
        BY <1>2, <1>4, <2>2 DEF Handled
    <2> QED
        BY <2>1, <2>2
<1>5. TableInv'
    BY <1>3, <1>4 DEF TableInv, Slots
<1> QED
    BY <1>1, <1>5

-----------------------------------------------------------------------------
IInv == TypeOK /\ TableInv

LEMMA InitTable == Init => IInv
    BY SequenceFacts, ClockAssumption
    DEF Init, IInv, TypeOK, TableInv, Client, Zeroed

LEMMA KnockKeepsTable ==
    ASSUME IInv, NEW ip \in IPs, NEW port \in KnockPorts, NEW res,
           knocker_process(ip, port, res)
    PROVE  IInv'
<1> USE DEF IInv
<1>1. CASE KnockTracked(ip, port, res)
    <2> DEFINE i == find_client(ip)
    <2>1. i \in Slots /\ clients[i].active /\ clients[i].ip = ip
        BY <1>1, FoundClient DEF KnockTracked
    <2>2. Ready(clients[i])
        BY <2>1, LiveClientIsReady
    <2>3. HandleKnock(i, clients[i], port, res) /\ now' = now
        BY <1>1 DEF KnockTracked
    <2>4. \A j \in Slots \ {i} : ~(clients[j].active /\ clients[j].ip = clients[i].ip)
        BY <2>1 DEF TableInv
    <2>5. PICK d : Handled(clients[i], port, res, d)
                     /\ clients' = [clients EXCEPT ![i] = d]
        BY <2>1, <2>2, <2>3, HandleKnockEffect DEF TypeOK
    <2>6. clients' \in [Slots -> Client] /\ TableInv'
        BY <2>1, <2>2, <2>4, <2>5, WriteKeepsTable
    <2> QED
        BY <2>3, <2>6 DEF TypeOK
<1>2. CASE KnockNew(ip, port, res)
    <2>1. PICK t \in {now, now + 1} :
             /\ alloc_client(t) # NULL
             /\ HandleKnock(alloc_client(t), NewClient(ip), port, res)
             /\ now' = t
        BY <1>2 DEF KnockNew
    <2>2. t \in Nat
        BY DEF TypeOK
    <2> DEFINE i == alloc_client(t)
    <2>3. i \in Slots
        BY <2>1, <2>2, AllocatedSlot
    <2>4. Ready(NewClient(ip)) /\ NewClient(ip).ip = ip
        BY NewClientIsReady
    <2>5. \A j \in Slots \ {i} : ~(clients[j].active /\ clients[j].ip = NewClient(ip).ip)
        BY <1>2, <2>4, NoClient DEF KnockNew
    <2>6. PICK d : Handled(NewClient(ip), port, res, d)
                     /\ clients' = [clients EXCEPT ![i] = d]
        BY <2>1, <2>3, <2>4, HandleKnockEffect DEF TypeOK
    <2>7. clients' \in [Slots -> Client] /\ TableInv'
        BY <2>3, <2>4, <2>5, <2>6, WriteKeepsTable
    <2> QED
        BY <2>1, <2>2, <2>7 DEF TypeOK
<1>3. CASE KnockRefused(ip, port, res)
    BY <1>3 DEF KnockRefused, TypeOK, TableInv
<1>4. CASE KnockNoise(ip, port, res)
    BY <1>4 DEF KnockNoise, TypeOK, TableInv
<1> QED
    BY <1>1, <1>2, <1>3, <1>4 DEF knocker_process

LEMMA HousekeepingKeepsTable == IInv /\ Housekeeping => IInv'
<1> SUFFICES ASSUME IInv, Housekeeping PROVE IInv'
    OBVIOUS
<1> USE DEF IInv
<1>1. CASE knocker_cleanup_stale
    <2>1. \A i \in Slots :
             /\ clients'[i] \in Client
             /\ clients'[i].active => clients'[i] = clients[i]
        BY <1>1 DEF knocker_cleanup_stale, TypeOK, Client
    <2>2. TypeOK'
        BY <1>1, <2>1 DEF knocker_cleanup_stale, TypeOK
    <2>3. TableInv'
        BY <2>1 DEF TableInv
    <2> QED
        BY <2>2, <2>3
<1>2. CASE Tick
    BY <1>2, ClockAssumption DEF Tick, TypeOK, TableInv
<1>3. CASE StepBack
    BY <1>3, ClockAssumption DEF StepBack, TypeOK, TableInv
<1> QED
    BY <1>1, <1>2, <1>3 DEF Housekeeping

LEMMA TableInductive == IInv /\ [Next]_vars => IInv'
<1> SUFFICES ASSUME IInv, [Next]_vars PROVE IInv'
    OBVIOUS
<1>1. CASE Knock
    BY <1>1, KnockKeepsTable DEF Knock
<1>2. CASE Housekeeping
    BY <1>2, HousekeepingKeepsTable
<1>3. CASE UNCHANGED vars
    BY <1>3 DEF vars, IInv, TypeOK, TableInv
<1> QED
    BY <1>1, <1>2, <1>3 DEF Next

(* The client table of knocker.c always has the types its declarations say,  *)
(* the step count within the sequence included, so KNOCK_SEQUENCE is never   *)
(* indexed past its end.                                                     *)
THEOREM TypeCorrect == Spec => []TypeOK
<1>1. IInv => TypeOK
    BY DEF IInv
<1> QED
    BY InitTable, TableInductive, <1>1, PTL DEF Spec

(* However addresses, sweeps, evictions and the clock interleave, the table  *)
(* never holds two live entries of one address, and a live entry is strictly *)
(* inside the sequence and remembers the port of its last step.              *)
THEOREM TableConsistent == Spec => []TableInv
<1>1. IInv => TableInv
    BY DEF IInv
<1> QED
    BY InitTable, TableInductive, <1>1, PTL DEF Spec

-----------------------------------------------------------------------------
LEMMA LiveEntriesStep == IInv /\ [Next]_vars => [KeepsLiveEntries]_vars
<1> SUFFICES ASSUME IInv, Next, NEW i \in Slots,
                    clients[i].active, clients'[i] # clients[i]
             PROVE  \/ \E port \in KnockPorts, res \in Results :
                          knocker_process(clients[i].ip, port, res)
                    \/ now' - clients[i].last_knock > KNOCK_WINDOW
    BY DEF KeepsLiveEntries
<1> USE DEF IInv
<1>1. CASE Knock
    <2>1. PICK ip \in IPs, port \in KnockPorts, res \in Results :
             knocker_process(ip, port, res)
        BY <1>1 DEF Knock
    <2>2. CASE KnockTracked(ip, port, res)
        <3> DEFINE f == find_client(ip)
        <3>1. f \in Slots /\ clients[f].active /\ clients[f].ip = ip
            BY <2>2, FoundClient DEF KnockTracked
        <3>2. PICK d : clients' = [clients EXCEPT ![f] = d]
            BY <2>2, <3>1, LiveClientIsReady, HandleKnockEffect
            DEF KnockTracked, TypeOK
        <3>3. i = f
            BY <3>1, <3>2 DEF TypeOK
        <3> QED
            BY <2>1, <3>1, <3>3
    <2>3. CASE KnockNew(ip, port, res)
        <3>1. PICK t \in {now, now + 1} :
                 /\ alloc_client(t) # NULL
                 /\ HandleKnock(alloc_client(t), NewClient(ip), port, res)
                 /\ now' = t
            BY <2>3 DEF KnockNew
        <3>2. t \in Nat
            BY DEF TypeOK
        <3> DEFINE a == alloc_client(t)
        <3>3. /\ a \in Slots
              /\ ~clients[a].active \/ t - clients[a].last_knock > KNOCK_WINDOW
            BY <3>1, <3>2, AllocatedSlot
        <3>4. PICK d : clients' = [clients EXCEPT ![a] = d]
            BY <3>1, <3>3, NewClientIsReady, HandleKnockEffect DEF TypeOK
        <3>5. i = a
            BY <3>3, <3>4 DEF TypeOK
        <3> QED
            BY <3>1, <3>3, <3>5
    <2>4. CASE KnockRefused(ip, port, res)
        BY <2>4 DEF KnockRefused
    <2>5. CASE KnockNoise(ip, port, res)
        BY <2>5 DEF KnockNoise
    <2> QED
        BY <2>1, <2>2, <2>3, <2>4, <2>5 DEF knocker_process
<1>2. CASE knocker_cleanup_stale
    BY <1>2 DEF knocker_cleanup_stale, Stale, TypeOK
<1>3. CASE Tick \/ StepBack
    BY <1>3 DEF Tick, StepBack
<1> QED
    BY <1>1, <1>2, <1>3 DEF Next, Housekeeping

(* No flood from other addresses and no sweep ever evicts a client whose     *)
(* window has not run out, for every table size and every clock.             *)
THEOREM LiveEntriesKept == Spec => LiveEntryKept
    BY InitTable, TableInductive, LiveEntriesStep, PTL DEF Spec, LiveEntryKept

-----------------------------------------------------------------------------
(* Reading progress off a table.  The table is a parameter here, so that the *)
(* facts hold of the one after a step too.                                   *)

Holds(table, i, ip) == table[i].active /\ table[i].ip = ip

FindIn(table, ip) ==
    LET found == {i \in Slots : table[i].active /\ table[i].ip = ip}
    IN  IF found = {} THEN NULL ELSE First(found)

None == [step |-> 0, at |-> 0]

Reading(c) == [step |-> c.current_step, at |-> c.last_knock]

ReadIn(table, ip) ==
    IF FindIn(table, ip) = NULL THEN None ELSE Reading(table[FindIn(table, ip)])

(* No address has two live entries. *)
Unique(table) ==
    \A i, j \in Slots :
       table[i].active /\ table[j].active /\ table[i].ip = table[j].ip => i = j

LEMMA ProgressIsRead ==
    /\ Progress = [ip \in IPs |-> ReadIn(clients, ip)]
    /\ Progress' = [ip \in IPs |-> ReadIn(clients', ip)]
    BY DEF Progress, ProgressOf, ReadIn, Reading, None, FindIn, find_client

LEMMA ReadingOfHolder ==
    ASSUME NEW table, Unique(table), NEW ip, NEW i \in Slots, Holds(table, i, ip)
    PROVE  FindIn(table, ip) = i /\ ReadIn(table, ip) = Reading(table[i])
<1> DEFINE found == {j \in Slots : table[j].active /\ table[j].ip = ip}
<1>1. found = {i}
    BY DEF Holds, Unique
<1>2. First(found) \in found
    BY <1>1, FirstIsMember
<1>3. FindIn(table, ip) = i
    BY <1>1, <1>2 DEF FindIn
<1>4. i # NULL
    BY LimitAssumption DEF Slots, NULL
<1> QED
    BY <1>3, <1>4 DEF ReadIn

LEMMA ReadingOfNobody ==
    ASSUME NEW table, NEW ip, \A i \in Slots : ~Holds(table, i, ip)
    PROVE  FindIn(table, ip) = NULL /\ ReadIn(table, ip) = None
    BY DEF Holds, FindIn, ReadIn

LEMMA TablesAreUnique == (TableInv => Unique(clients)) /\ (TableInv' => Unique(clients'))
    BY DEF TableInv, Unique

(* A write of the entry d of an address into slot i: the address reads what  *)
(* d says, the one that lost the slot nothing, and nobody else is concerned. *)
AfterWrite(i, d, ip) ==
    [a \in IPs |-> IF a = ip THEN (IF d.active THEN Reading(d) ELSE None)
                   ELSE IF Holds(clients, i, a) THEN None ELSE Progress[a]]

LEMMA WriteMoves ==
    ASSUME IInv, IInv', NEW i \in Slots, NEW ip \in IPs,
           NEW d \in Client, d.ip = ip,
           \A j \in Slots \ {i} : ~Holds(clients, j, ip),
           clients' = [clients EXCEPT ![i] = d]
    PROVE  Progress' = AfterWrite(i, d, ip)
<1> USE DEF IInv
<1>1. clients'[i] = d /\ \A j \in Slots \ {i} : clients'[j] = clients[j]
    BY DEF TypeOK
<1>2. Unique(clients) /\ Unique(clients')
    BY TablesAreUnique
<1>3. ReadIn(clients', ip) = IF d.active THEN Reading(d) ELSE None
    <2>1. CASE d.active
        <3>1. Holds(clients', i, ip)
            BY <1>1, <2>1 DEF Holds
        <3>2. ReadIn(clients', ip) = Reading(clients'[i])
            BY <1>2, <3>1, ReadingOfHolder
        <3> QED
            BY <1>1, <2>1, <3>2
    <2>2. CASE ~d.active
        <3>1. \A j \in Slots : ~Holds(clients', j, ip)
            BY <1>1, <2>2 DEF Holds
        <3>2. ReadIn(clients', ip) = None
            BY <3>1, ReadingOfNobody
        <3> QED
            BY <2>2, <3>2
    <2> QED
        BY <2>1, <2>2
<1>4. ASSUME NEW a \in IPs, a # ip
      PROVE  ReadIn(clients', a) = IF Holds(clients, i, a) THEN None
                                   ELSE ReadIn(clients, a)
    <2>1. ~Holds(clients', i, a)
        BY <1>1, <1>4 DEF Holds
    <2>2. CASE Holds(clients, i, a)
        <3>1. \A j \in Slots : ~Holds(clients', j, a)
            BY <1>1, <1>2, <2>1, <2>2 DEF Holds, Unique
        <3> QED
            BY <2>2, <3>1, ReadingOfNobody
    <2>3. CASE \E j \in Slots \ {i} : Holds(clients, j, a)
        <3>1. PICK j \in Slots \ {i} : Holds(clients, j, a)
            BY <2>3
        <3>2. Holds(clients', j, a) /\ clients'[j] = clients[j]
            BY <1>1, <3>1 DEF Holds
        <3>3. ~Holds(clients, i, a)
            BY <1>2, <3>1 DEF Holds, Unique
        <3>4. ReadIn(clients, a) = Reading(clients[j])
            BY <1>2, <3>1, ReadingOfHolder
        <3>5. ReadIn(clients', a) = Reading(clients'[j])
            BY <1>2, <3>2, ReadingOfHolder
        <3> QED
            BY <3>2, <3>3, <3>4, <3>5
    <2>4. CASE \A j \in Slots : ~Holds(clients, j, a)
        <3>1. \A j \in Slots : ~Holds(clients', j, a)
            BY <1>1, <2>1, <2>4 DEF Holds
        <3>2. ReadIn(clients, a) = None /\ ReadIn(clients', a) = None
            BY <2>4, <3>1, ReadingOfNobody
        <3> QED
            BY <2>4, <3>2
    <2> QED
        BY <2>2, <2>3, <2>4
<1>5. Progress' = [a \in IPs |-> ReadIn(clients', a)]
    BY ProgressIsRead
<1>6. \A a \in IPs : Progress[a] = ReadIn(clients, a)
    BY ProgressIsRead
<1> QED
    BY <1>3, <1>4, <1>5, <1>6 DEF AfterWrite

(* The sweep: whoever's window has run out reads nothing afterwards. *)
LEMMA SweepMoves ==
    ASSUME IInv, IInv', knocker_cleanup_stale
    PROVE  Abstract!ForgetExpired
<1> USE DEF IInv
<1>1. Unique(clients) /\ Unique(clients')
    BY TablesAreUnique
<1>2. \A i \in Slots :
         /\ clients[i] \in Client
         /\ ~Stale(clients[i]) => clients'[i] = clients[i]
         /\ Stale(clients[i]) => ~clients'[i].active
    BY DEF knocker_cleanup_stale, TypeOK, Client
<1>3. ASSUME NEW a \in IPs
      PROVE  ReadIn(clients', a) =
                IF ReadIn(clients, a).step > 0
                   /\ now - ReadIn(clients, a).at > KNOCK_WINDOW
                THEN None ELSE ReadIn(clients, a)
    <2>1. CASE \E i \in Slots : Holds(clients, i, a)
        <3>1. PICK i \in Slots : Holds(clients, i, a)
            BY <2>1
        <3>2. ReadIn(clients, a) = Reading(clients[i])
            BY <1>1, <3>1, ReadingOfHolder
        <3>3. clients[i].current_step \in Nat \ {0}
            BY <3>1, SequenceFacts DEF Holds, TableInv
        <3>4. /\ ReadIn(clients, a).step > 0
              /\ ReadIn(clients, a).at = clients[i].last_knock
            BY <3>2, <3>3 DEF Reading
        <3>5. CASE Stale(clients[i])
            <4>1. \A j \in Slots : ~Holds(clients', j, a)
                BY <1>1, <1>2, <3>1, <3>5 DEF Holds, Unique
            <4>2. ReadIn(clients', a) = None
                BY <4>1, ReadingOfNobody
            <4> QED
                BY <3>4, <3>5, <4>2 DEF Stale
        <3>6. CASE ~Stale(clients[i])
            <4>1. Holds(clients', i, a) /\ clients'[i] = clients[i]
                BY <1>2, <3>1, <3>6 DEF Holds
            <4>2. ReadIn(clients', a) = Reading(clients'[i])
                BY <1>1, <4>1, ReadingOfHolder
            <4>3. ~(now - clients[i].last_knock > KNOCK_WINDOW)
                BY <3>1, <3>6 DEF Holds, Stale
            <4> QED
                BY <3>2, <3>4, <4>1, <4>2, <4>3
        <3> QED
            BY <3>5, <3>6
    <2>2. CASE \A i \in Slots : ~Holds(clients, i, a)
        <3>1. \A i \in Slots : ~Holds(clients', i, a)
            BY <1>2, <2>2 DEF Holds, Stale
        <3>2. ReadIn(clients, a) = None /\ ReadIn(clients', a) = None
            BY <2>2, <3>1, ReadingOfNobody
        <3> QED
            BY <3>2
    <2> QED
        BY <2>1, <2>2
<1>4. now' = now
    BY DEF knocker_cleanup_stale
<1>5. /\ Progress' = [a \in IPs |-> ReadIn(clients', a)]
      /\ \A a \in IPs : Progress[a] = ReadIn(clients, a)
    BY ProgressIsRead
<1>6. Progress' = [a \in IPs |->
                     IF Progress[a].step > 0 /\ now - Progress[a].at > KNOCK_WINDOW
                     THEN None ELSE Progress[a]]
    BY <1>3, <1>5
<1> QED
    BY <1>4, <1>6 DEF Abstract!ForgetExpired, Abstract!OnTheWay,
                      Abstract!Expired, Abstract!Idle, None

-----------------------------------------------------------------------------
(* Room in the table is room among the addresses on their way. *)

LEMMA RoomForOneMore ==
    ASSUME IInv, NEW free \in Slots, ~clients[free].active
    PROVE  Cardinality(Abstract!OnTheWay) < MAX_CLIENTS
<1> USE DEF IInv
<1> DEFINE busy == Slots \ {free}
           way  == Abstract!OnTheWay
           seat == [a \in way |-> FindIn(clients, a)]
<1>1. Unique(clients)
    BY TablesAreUnique
<1>2. ASSUME NEW a \in way
      PROVE  /\ FindIn(clients, a) \in busy
             /\ Holds(clients, FindIn(clients, a), a)
    <2>1. a \in IPs /\ Progress[a].step > 0
        BY DEF Abstract!OnTheWay
    <2>2. ReadIn(clients, a).step > 0
        BY <2>1, ProgressIsRead
    <2>3. PICK i \in Slots : Holds(clients, i, a)
        BY <2>2, ReadingOfNobody DEF None
    <2>4. FindIn(clients, a) = i
        BY <1>1, <2>3, ReadingOfHolder
    <2> QED
        BY <2>3, <2>4 DEF Holds
<1>3. seat \in [way -> busy]
    BY <1>2
<1>4. \A a, b \in way : seat[a] = seat[b] => a = b
    BY <1>2 DEF Holds
<1>5. seat \in Injection(way, busy)
    BY <1>3, <1>4 DEF Injection, IsInjective
<1>6. IsFiniteSet(Slots) /\ Cardinality(Slots) = MAX_CLIENTS
    BY FS_Interval, LimitAssumption DEF Slots
<1>7. IsFiniteSet(busy) /\ Cardinality(busy) = MAX_CLIENTS - 1
    BY <1>6, FS_RemoveElement
<1>8. IsFiniteSet(way) /\ Cardinality(way) <= Cardinality(busy)
    BY <1>5, <1>7, FS_Injection
<1>9. Cardinality(way) \in Nat
    BY <1>8, FS_CardinalityType
<1> QED
    BY <1>7, <1>8, <1>9, LimitAssumption

-----------------------------------------------------------------------------
(* A knock of an address that has an entry moves that address only. *)

LEMMA OwnKnock ==
    ASSUME IInv, IInv', NEW i \in Slots, NEW ip \in IPs, Holds(clients, i, ip),
           NEW d \in Client, d.ip = ip, clients' = [clients EXCEPT ![i] = d]
    PROVE  Progress' = [Progress EXCEPT ![ip] = IF d.active THEN Reading(d) ELSE None]
<1>1. \A j \in Slots \ {i} : ~Holds(clients, j, ip)
    BY TablesAreUnique DEF IInv, Holds, Unique
<1>2. \A a \in IPs : a # ip => ~Holds(clients, i, a)
    BY DEF Holds
<1>3. Progress' = AfterWrite(i, d, ip)
    BY <1>1, WriteMoves
<1>4. Progress = [a \in IPs |-> ReadIn(clients, a)]
    BY ProgressIsRead
<1> QED
    BY <1>2, <1>3, <1>4 DEF AfterWrite

LEMMA TrackedKnockImplements ==
    ASSUME IInv, IInv', NEW ip \in IPs, NEW port \in KnockPorts, NEW res,
           KnockTracked(ip, port, res)
    PROVE  \/ Abstract!Finish(ip)
           \/ /\ res # "COMPLETE"
              /\ \/ Abstract!Proceed(ip) \/ Abstract!StartOver(ip)
                 \/ Abstract!GiveUp(ip) \/ Abstract!ClockMoves
<1> USE DEF IInv
<1> DEFINE i == find_client(ip)
           c == clients[i]
<1>1. i \in Slots /\ Holds(clients, i, ip)
    BY FoundClient DEF KnockTracked, Holds
<1>2. HandleKnock(i, c, port, res) /\ now' = now /\ now \in Nat
    BY DEF KnockTracked, TypeOK
<1>3. /\ c \in Client
      /\ c.ip = ip
      /\ c.active
      /\ c.current_step \in 1..KNOCK_SEQ_LEN - 1
      /\ c.last_knock \in Nat
    BY <1>1 DEF Holds, TypeOK, TableInv, Client
<1>4. Progress[ip] = Reading(c)
    BY <1>1, TablesAreUnique, ReadingOfHolder, ProgressIsRead
<1>5. Progress[ip].step = c.current_step /\ Progress[ip].at = c.last_knock
    BY <1>4 DEF Reading
<1>6. ip \in Abstract!OnTheWay
    BY <1>3, <1>5, SequenceFacts DEF Abstract!OnTheWay
<1>7. /\ StepOf(c) \in {0, c.current_step}
      /\ StepOf(c) # 0 => ~Abstract!Expired(ip)
    BY <1>3, <1>5, SequenceFacts DEF StepOf, Abstract!Expired
<1>8. StepOf(c) \in 0..KNOCK_SEQ_LEN /\ StepOf(c) + 1 \in 0..KNOCK_SEQ_LEN
      /\ 1 \in 0..KNOCK_SEQ_LEN
    BY <1>3, <1>7, SequenceFacts
<1>9. CASE Repeat(i, c, port, res)
    <2>1. clients' = clients
        BY <1>1, <1>9 DEF Repeat, TypeOK
    <2>2. Progress' = Progress
        BY <2>1, ProgressIsRead
    <2> QED
        BY <1>2, <1>9, <2>2 DEF Repeat, Abstract!ClockMoves
<1>10. CASE Advance(i, c, port, res)
    <2> DEFINE d == Accepted(c, StepOf(c) + 1, port)
    <2>1. /\ d \in Client
          /\ d.ip = ip
          /\ d.current_step = StepOf(c) + 1
          /\ d.last_knock = now
          /\ d.active
        BY <1>2, <1>3, <1>8, AcceptedEntry
    <2>2. clients' = [clients EXCEPT ![i] = d]
        BY <1>10 DEF Advance
    <2>3. Progress' = [Progress EXCEPT ![ip] = Reading(d)]
        BY <1>1, <2>1, <2>2, OwnKnock
    <2>4. Progress' = [Progress EXCEPT ![ip] = [step |-> StepOf(c) + 1, at |-> now]]
        BY <2>1, <2>3 DEF Reading
    <2>5. CASE StepOf(c) = 0
        BY <1>2, <1>6, <1>10, <2>4, <2>5 DEF Advance, Abstract!StartOver, Abstract!At
    <2>6. CASE StepOf(c) # 0
        <3>1. StepOf(c) + 1 < KNOCK_SEQ_LEN
            BY <1>10 DEF Advance
        <3>2. StepOf(c) = Progress[ip].step /\ ~Abstract!Expired(ip)
            BY <1>5, <1>7, <2>6
        <3>3. Progress[ip].step \in 1..KNOCK_SEQ_LEN - 2
            BY <1>3, <1>5, <3>1, <3>2, SequenceFacts
        <3> QED
            BY <1>2, <1>10, <2>4, <3>2, <3>3 DEF Advance, Abstract!Proceed, Abstract!At
    <2> QED
        BY <2>5, <2>6
<1>11. CASE Complete(i, c, port, res)
    <2> DEFINE e == Accepted(c, StepOf(c) + 1, port)
               d == [e EXCEPT !.active = FALSE]
    <2>1. e \in Client /\ e.ip = ip
        BY <1>2, <1>3, <1>8, AcceptedEntry
    <2>2. d \in Client /\ d.ip = ip /\ ~d.active
        BY <2>1, ReleasedEntry
    <2>3. clients' = [clients EXCEPT ![i] = d]
        BY <1>11 DEF Complete
    <2>4. Progress' = [Progress EXCEPT ![ip] = None]
        BY <1>1, <2>2, <2>3, OwnKnock
    <2>5. StepOf(c) + 1 >= KNOCK_SEQ_LEN
        BY <1>11 DEF Complete
    <2>6. StepOf(c) = KNOCK_SEQ_LEN - 1 /\ StepOf(c) # 0
        BY <1>8, <2>5, SequenceFacts
    <2>7. Progress[ip].step = KNOCK_SEQ_LEN - 1 /\ ~Abstract!Expired(ip)
        BY <1>5, <1>7, <2>6
    <2> QED
        BY <1>2, <2>4, <2>7 DEF Abstract!Finish, Abstract!Idle, None
<1>12. CASE Restart(i, c, port, res)
    <2> DEFINE d == Accepted(c, 1, port)
    <2>1. /\ d \in Client
          /\ d.ip = ip
          /\ d.current_step = 1
          /\ d.last_knock = now
          /\ d.active
        BY <1>2, <1>3, <1>8, AcceptedEntry
    <2>2. clients' = [clients EXCEPT ![i] = d]
        BY <1>12 DEF Restart
    <2>3. Progress' = [Progress EXCEPT ![ip] = Reading(d)]
        BY <1>1, <2>1, <2>2, OwnKnock
    <2> QED
        BY <1>2, <1>6, <1>12, <2>1, <2>3
        DEF Restart, Abstract!StartOver, Abstract!At, Reading
<1>13. CASE Discard(i, c, port, res)
    <2> DEFINE d == [c EXCEPT !.current_step = StepOf(c), !.active = FALSE]
    <2>1. d \in Client /\ d.ip = ip /\ ~d.active
        BY <1>3, <1>8, DiscardedEntry
    <2>2. clients' = [clients EXCEPT ![i] = d]
        BY <1>13 DEF Discard
    <2>3. Progress' = [Progress EXCEPT ![ip] = None]
        BY <1>1, <2>1, <2>2, OwnKnock
    <2> QED
        BY <1>2, <1>6, <1>13, <2>3 DEF Discard, Abstract!GiveUp, Abstract!Idle, None
<1> QED
    BY <1>2, <1>9, <1>10, <1>11, <1>12, <1>13 DEF HandleKnock

(* The first knock of an address without an entry is accepted as step one. *)
LEMMA FirstKnock ==
    ASSUME now \in Nat, NEW i \in Slots, NEW ip \in IPs, NEW port \in KnockPorts,
           NEW res, port = KNOCK_SEQUENCE[1],
           HandleKnock(i, NewClient(ip), port, res)
    PROVE  /\ res = "IN_PROGRESS"
           /\ \E d \in Client :
                 /\ d.ip = ip /\ d.active
                 /\ d.current_step = 1 /\ d.last_knock = now
                 /\ clients' = [clients EXCEPT ![i] = d]
<1> DEFINE n == NewClient(ip)
           d == Accepted(n, 1, port)
<1>1. n \in Client /\ n.ip = ip /\ n.active
    BY NewClientIsReady DEF Ready
<1>2. n.current_step = 0 /\ n.last_port = 0
    BY DEF NewClient, Zeroed
<1>3. StepOf(n) = 0
    BY <1>2 DEF StepOf
<1>4. ~IsRepeat(n, port) /\ IsNext(n, port)
    BY <1>2, <1>3, SequenceFacts DEF IsRepeat, IsNext
<1>5. StepOf(n) + 1 = 1 /\ ~(1 >= KNOCK_SEQ_LEN)
    BY <1>3, SequenceFacts
<1>6. Advance(i, n, port, res)
    BY <1>4, <1>5 DEF HandleKnock, Repeat, Complete, Restart, Discard
<1>7. res = "IN_PROGRESS" /\ clients' = [clients EXCEPT ![i] = d]
    BY <1>5, <1>6 DEF Advance
<1>8. 1 \in 0..KNOCK_SEQ_LEN
    BY SequenceFacts
<1>9. /\ d \in Client
      /\ d.ip = ip /\ d.active
      /\ d.current_step = 1 /\ d.last_knock = now
    BY <1>1, <1>8, AcceptedEntry
<1> QED
    BY <1>7, <1>9

LEMMA NewKnockImplements ==
    ASSUME IInv, IInv', NEW ip \in IPs, NEW port \in KnockPorts, NEW res,
           KnockNew(ip, port, res)
    PROVE  Abstract!Begin(ip)
<1> USE DEF IInv
<1>1. PICK t \in {now, now + 1} :
         /\ alloc_client(t) # NULL
         /\ HandleKnock(alloc_client(t), NewClient(ip), port, res)
         /\ now' = t
    BY DEF KnockNew
<1>2. t \in Nat /\ now \in Nat
    BY DEF TypeOK
<1> DEFINE i == alloc_client(t)
<1>3. /\ i \in Slots
      /\ ~clients[i].active \/ t - clients[i].last_knock > KNOCK_WINDOW
    BY <1>1, <1>2, AllocatedSlot
<1>4. PICK d \in Client :
         /\ d.ip = ip /\ d.active
         /\ d.current_step = 1 /\ d.last_knock = now
         /\ clients' = [clients EXCEPT ![i] = d]
    BY <1>1, <1>2, <1>3, FirstKnock DEF KnockNew
<1>5. \A j \in Slots : ~Holds(clients, j, ip)
    BY NoClient DEF KnockNew, Holds
<1>6. Progress[ip] = None
    BY <1>5, ReadingOfNobody, ProgressIsRead
<1>7. Progress' = [a \in IPs |->
              IF a = ip THEN Reading(d)
              ELSE IF Holds(clients, i, a) THEN None ELSE Progress[a]]
    <2>1. Progress' = AfterWrite(i, d, ip)
        BY <1>3, <1>4, <1>5, WriteMoves
    <2> QED
        BY <1>4, <2>1 DEF AfterWrite
<1>8. Reading(d) = [step |-> 1, at |-> now]
    BY <1>4 DEF Reading
<1>9. Progress = [a \in IPs |-> ReadIn(clients, a)]
    BY ProgressIsRead
<1>10. CASE ~clients[i].active
    <2>1. Progress' = [Progress EXCEPT ![ip] = [step |-> 1, at |-> now]]
        BY <1>7, <1>8, <1>9, <1>10 DEF Holds
    <2>2. Cardinality(Abstract!OnTheWay) < MAX_CLIENTS
        BY <1>3, <1>10, RoomForOneMore
    <2>3. Abstract!Cardinality(Abstract!OnTheWay) = Cardinality(Abstract!OnTheWay)
        BY DEF Abstract!Cardinality, Cardinality
    <2> QED
        BY <1>1, <1>6, <2>1, <2>2, <2>3
        DEF Abstract!Begin, Abstract!Idle, Abstract!At, None
<1>11. CASE clients[i].active
    <2> DEFINE v == clients[i].ip
    <2>1. v \in IPs /\ clients[i].current_step \in Nat \ {0} /\ Holds(clients, i, v)
        BY <1>3, <1>11, SequenceFacts DEF TableInv, Holds
    <2>2. v # ip
        BY <1>3, <1>5, <2>1
    <2>3. Progress[v] = Reading(clients[i])
        BY <1>3, <2>1, TablesAreUnique, ReadingOfHolder, ProgressIsRead
    <2>4. Progress[v].step > 0 /\ Progress[v].at = clients[i].last_knock
        BY <2>1, <2>3 DEF Reading
    <2>5. v \in Abstract!OnTheWay
        BY <2>1, <2>4 DEF Abstract!OnTheWay
    <2>6. now' - Progress[v].at > KNOCK_WINDOW
        BY <1>1, <1>3, <1>11, <2>4
    <2>7. \A a \in IPs : Holds(clients, i, a) <=> a = v
        BY <2>1 DEF Holds
    <2>8. Progress' = [Progress EXCEPT ![v] = None, ![ip] = [step |-> 1, at |-> now]]
        BY <1>7, <1>8, <1>9, <2>1, <2>2, <2>7
    <2>9. \E w \in Abstract!OnTheWay :
             /\ now' - Progress[w].at > KNOCK_WINDOW
             /\ Progress' = [Progress EXCEPT ![w] = None, ![ip] = [step |-> 1, at |-> now]]
        BY <2>5, <2>6, <2>8
    <2> QED
        BY <1>1, <1>6, <2>9
        DEF Abstract!Begin, Abstract!Idle, Abstract!At, None
<1> QED
    BY <1>10, <1>11

(* An answer KNOCK_COMPLETE is the end of the sequence for its address. *)
LEMMA CompletionFinishes ==
    ASSUME IInv, IInv', NEW ip \in IPs, NEW port \in KnockPorts,
           knocker_process(ip, port, "COMPLETE")
    PROVE  Abstract!Finish(ip)
<1>1. CASE KnockTracked(ip, port, "COMPLETE")
    BY <1>1, TrackedKnockImplements
<1>2. CASE KnockNew(ip, port, "COMPLETE")
    <2>1. PICK t \in {now, now + 1} :
             /\ alloc_client(t) # NULL
             /\ HandleKnock(alloc_client(t), NewClient(ip), port, "COMPLETE")
        BY <1>2 DEF KnockNew
    <2>2. now \in Nat /\ alloc_client(t) \in Slots
        BY <2>1, AllocatedSlot DEF IInv, TypeOK
    <2> QED
        BY <1>2, <2>1, <2>2, FirstKnock DEF KnockNew
<1>3. ~KnockRefused(ip, port, "COMPLETE") /\ ~KnockNoise(ip, port, "COMPLETE")
    BY DEF KnockRefused, KnockNoise
<1> QED
    BY <1>1, <1>2, <1>3 DEF knocker_process

LEMMA StepImplements ==
    ASSUME IInv, IInv', [Next]_vars
    PROVE  [Abstract!PNext]_(Abstract!pvars)
<1> USE DEF IInv
<1>1. ASSUME clients' = clients, now' \in Nat PROVE Abstract!ClockMoves
    <2>1. Progress' = Progress
        BY <1>1, ProgressIsRead
    <2> QED
        BY <1>1, <2>1 DEF Abstract!ClockMoves
<1>2. now' \in Nat
    BY DEF TypeOK
<1>3. CASE Knock
    <2>1. PICK ip \in IPs, port \in KnockPorts, res \in Results :
             knocker_process(ip, port, res)
        BY <1>3 DEF Knock
    <2>2. CASE KnockTracked(ip, port, res)
        BY <2>1, <2>2, TrackedKnockImplements DEF Abstract!PNext
    <2>3. CASE KnockNew(ip, port, res)
        BY <2>1, <2>3, NewKnockImplements DEF Abstract!PNext
    <2>4. CASE KnockRefused(ip, port, res) \/ KnockNoise(ip, port, res)
        BY <1>1, <1>2, <2>4 DEF KnockRefused, KnockNoise, Abstract!PNext
    <2> QED
        BY <2>1, <2>2, <2>3, <2>4 DEF knocker_process
<1>4. CASE knocker_cleanup_stale
    BY <1>4, SweepMoves DEF Abstract!PNext
<1>5. CASE Tick \/ StepBack \/ UNCHANGED vars
    BY <1>1, <1>2, <1>5 DEF Tick, StepBack, vars, Abstract!PNext
<1> QED
    BY <1>3, <1>4, <1>5 DEF Next, Housekeeping

LEMMA InitImplements == Init => Abstract!PInit
<1> SUFFICES ASSUME Init PROVE Abstract!PInit
    OBVIOUS
<1>1. \A a \in IPs, i \in Slots : ~Holds(clients, i, a)
    BY DEF Init, Zeroed, Holds
<1>2. \A a \in IPs : ReadIn(clients, a) = None
    BY <1>1, ReadingOfNobody
<1>3. Progress = [a \in IPs |-> None]
    BY <1>2, ProgressIsRead
<1> QED
    BY <1>3, ClockAssumption DEF Init, Abstract!PInit, Abstract!Idle, None

(* The table of knocker.c, with its slots, stale entries, evictions and      *)
(* sweeps, implements independent progress of every address, for every       *)
(* number of addresses, table size, sequence, window and clock.              *)
THEOREM TableImplementsProgress == Spec => ImplementsKnockProgress
<1>1. IInv /\ IInv' /\ [Next]_vars => [Abstract!PNext]_(Abstract!pvars)
    BY StepImplements
<1> QED
    BY InitTable, InitImplements, TableInductive, <1>1, PTL
    DEF Spec, ImplementsKnockProgress, Abstract!PSpec

=============================================================================
