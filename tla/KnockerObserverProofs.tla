------------------------ MODULE KnockerObserverProofs ------------------------
(***************************************************************************)
(* Every KNOCK_COMPLETE is deserved, and a client that knocks correctly     *)
(* gets one, for every sequence, table size, window and behaviour of the    *)
(* wall clock.                                                              *)
(*                                                                          *)
(* That a completion is genuine is a fact about one step: the entry that    *)
(* answers counted all but the last port.  It holds because no live entry   *)
(* ever counts more than its address has done, EntryIsEarned, which with    *)
(* the consistency of the table (no second entry of the same address) is    *)
(* inductive.  That a clean run completes rests on the converse, RunInv:    *)
(* the entry of an address in a clean run counts no less than the run.      *)
(***************************************************************************)
EXTENDS KnockerSound, KnockerComplete, KnockerProofs

Runs == [Steps -> Nat \cup {Never}]

SInv ==
    /\ IInv
    /\ sent \in [IPs -> Runs]
    /\ EntryIsEarned

(* Recording a knock never makes a run look older, and a knock that extends  *)
(* a run is remembered.                                                      *)
LEMMA RecordedRuns ==
    ASSUME now \in Nat, NEW s \in Runs, NEW port
    PROVE  /\ Record(s, port) \in Runs
           /\ \A k \in Steps : Record(s, port)[k] >= s[k]
           /\ \A k \in Steps : port = KNOCK_SEQUENCE[k] /\ Extends(s, k)
                                 => Record(s, port)[k] >= now
<1> DEFINE r == Record(s, port)
<1>1. \A k \in Steps : s[k] \in Nat \cup {Never}
    BY DEF Runs
<1>2. \A k \in Steps :
         r[k] = IF port = KNOCK_SEQUENCE[k] /\ Extends(s, k) /\ now > s[k]
                THEN now ELSE s[k]
    BY DEF Record
<1>3. r \in Runs
    BY <1>1, <1>2 DEF Record, Runs
<1> QED
    BY <1>1, <1>2, <1>3 DEF Never

(* The entry c of an address that has done s claims no more than s holds. *)
Earned(c, s) ==
    c.current_step > 0 => s[c.current_step] >= c.last_knock

(* A step count that has not expired is a run the next knock extends. *)
LEMMA CountedStepsExtend ==
    ASSUME now \in Nat, NEW c, Ready(c), NEW s \in Runs, Earned(c, s)
    PROVE  Extends(s, StepOf(c) + 1)
<1>1. c.last_knock \in Nat /\ c.current_step \in 0..KNOCK_SEQ_LEN - 1
    BY DEF Ready, Client
<1>2. CASE StepOf(c) = 0
    BY <1>2 DEF Extends
<1>3. CASE StepOf(c) # 0
    <2>1. /\ StepOf(c) = c.current_step /\ c.current_step > 0
          /\ now - c.last_knock <= KNOCK_WINDOW
        BY <1>1, <1>3, LimitAssumption DEF StepOf
    <2>2. c.current_step \in Steps
        BY <1>1, <2>1, SequenceFacts DEF Steps
    <2>3. s[c.current_step] \in Nat \cup {Never} /\ s[c.current_step] >= c.last_knock
        BY <2>1, <2>2 DEF Runs, Earned
    <2>4. s[c.current_step] # Never /\ now - s[c.current_step] <= KNOCK_WINDOW
        BY <1>1, <2>1, <2>3, LimitAssumption DEF Never
    <2>5. (c.current_step + 1) - 1 = c.current_step /\ c.current_step + 1 > 1
        BY <1>1, <2>1
    <2> QED
        BY <2>1, <2>4, <2>5 DEF Extends
<1> QED
    BY <1>2, <1>3

(* A handled entry that is still live has earned what it counts. *)
LEMMA HandledEntryEarned ==
    ASSUME now \in Nat, NEW c, Ready(c), NEW s \in Runs, Earned(c, s),
           NEW port, NEW res, NEW d, Handled(c, port, res, d), d.active
    PROVE  Record(s, port)[d.current_step] >= d.last_knock
<1>1. d.current_step \in Steps /\ d.current_step > 0 /\ d.last_knock \in Nat
    BY SequenceFacts DEF Handled, Steps, Client
<1>2. CASE d = c
    <2>1. s[d.current_step] >= d.last_knock /\ s[d.current_step] \in Nat \cup {Never}
        BY <1>1, <1>2 DEF Earned, Runs
    <2>2. Record(s, port)[d.current_step] >= s[d.current_step]
          /\ Record(s, port)[d.current_step] \in Nat \cup {Never}
        BY <1>1, RecordedRuns DEF Runs
    <2> QED
        BY <1>1, <2>1, <2>2 DEF Never
<1>3. CASE d # c
    <2>1. /\ d.last_knock = now
          /\ port = KNOCK_SEQUENCE[d.current_step]
          /\ d.current_step \in {1, StepOf(c) + 1}
        BY <1>3 DEF Handled
    <2>2. Extends(s, d.current_step)
        <3>1. Extends(s, 1)
            BY DEF Extends
        <3> QED
            BY <2>1, <3>1, CountedStepsExtend
    <2> QED
        BY <1>1, <2>1, <2>2, RecordedRuns
<1> QED
    BY <1>2, <1>3

-----------------------------------------------------------------------------
LEMMA EarnedByAddress ==
    ASSUME SInv, NEW i \in Slots, clients[i].active
    PROVE  /\ clients[i].ip \in IPs
           /\ sent[clients[i].ip] \in Runs
           /\ Earned(clients[i], sent[clients[i].ip])
<1>1. clients[i].ip \in IPs
    BY DEF SInv, IInv, TableInv
<1> QED
    BY <1>1 DEF SInv, EntryIsEarned, Earned

(* Writing the handled entry of a knock and recording the knock. *)
LEMMA WriteKeepsEarned ==
    ASSUME SInv, NEW ip \in IPs, NEW port \in KnockPorts, NEW res,
           NEW i \in Slots, NEW c, Ready(c), c.ip = ip, Earned(c, sent[ip]),
           NEW d, Handled(c, port, res, d),
           \A j \in Slots \ {i} : ~(clients[j].active /\ clients[j].ip = ip),
           clients' = [clients EXCEPT ![i] = d],
           sent' = [sent EXCEPT ![ip] = IF res = "COMPLETE" THEN NothingSent
                                        ELSE Record(sent[ip], port)]
    PROVE  EntryIsEarned'
<1>0. now \in Nat /\ sent[ip] \in Runs
    BY DEF SInv, IInv, TypeOK
<1>1. clients'[i] = d /\ \A j \in Slots \ {i} : clients'[j] = clients[j]
    BY DEF SInv, IInv, TypeOK
<1>2. \A a \in IPs \ {ip} : sent'[a] = sent[a]
    BY DEF SInv
<1>3. ASSUME NEW j \in Slots, clients'[j].active
      PROVE  /\ sent'[clients'[j].ip][clients'[j].current_step] # Never
             /\ sent'[clients'[j].ip][clients'[j].current_step]
                   >= clients'[j].last_knock
    <2>1. CASE j # i
        <3>1. clients'[j] = clients[j] /\ clients[j].active /\ clients[j].ip # ip
            BY <1>1, <1>3, <2>1
        <3>2. clients[j].ip \in IPs
            BY <3>1, EarnedByAddress
        <3> QED
            BY <1>2, <3>1, <3>2 DEF SInv, EntryIsEarned
    <2>2. CASE j = i
        <3>1. clients'[j] = d /\ d.active /\ d.ip = ip
            BY <1>1, <1>3, <2>2 DEF Handled
        <3>2. res # "COMPLETE"
            BY <3>1 DEF Handled
        <3>3. sent'[ip] = Record(sent[ip], port)
            BY <3>2 DEF SInv
        <3>4. Record(sent[ip], port)[d.current_step] >= d.last_knock
            BY <1>0, <3>1, HandledEntryEarned
        <3>5. d.last_knock \in Nat /\ d.current_step \in Steps
            BY <3>1, SequenceFacts DEF Handled, Client, Steps
        <3>6. Record(sent[ip], port)[d.current_step] \in Nat \cup {Never}
            BY <1>0, <3>5, RecordedRuns DEF Runs
        <3> QED
            BY <3>1, <3>3, <3>4, <3>5, <3>6 DEF Never
    <2> QED
        BY <2>1, <2>2
<1> QED
    BY <1>3 DEF EntryIsEarned, Slots

LEMMA NewClientEarned ==
    ASSUME NEW ip, NEW s
    PROVE  Earned(NewClient(ip), s) /\ StepOf(NewClient(ip)) = 0
    BY DEF Earned, StepOf, NewClient, Zeroed

LEMMA InitEarned == InitS => SInv
<1> SUFFICES ASSUME InitS PROVE SInv
    OBVIOUS
<1>1. IInv
    BY InitTable DEF InitS
<1>2. sent \in [IPs -> Runs]
    BY DEF InitS, NothingSent, Runs
<1>3. EntryIsEarned
    BY DEF InitS, Init, Zeroed, EntryIsEarned
<1> QED
    BY <1>1, <1>2, <1>3 DEF SInv

LEMMA KnockKeepsEarned ==
    ASSUME SInv, NEW ip \in IPs, NEW port \in KnockPorts, NEW res,
           KnockS(ip, port, res)
    PROVE  SInv'
<1>0. /\ knocker_process(ip, port, res)
      /\ sent' = [sent EXCEPT ![ip] = IF res = "COMPLETE" THEN NothingSent
                                      ELSE Record(sent[ip], port)]
      /\ TypeOK /\ TableInv /\ now \in Nat /\ sent[ip] \in Runs
    BY DEF KnockS, SInv, IInv, TypeOK
<1>1. IInv'
    BY <1>0, KnockKeepsTable DEF SInv
<1>2. sent' \in [IPs -> Runs]
    <2>1. NothingSent \in Runs /\ Record(sent[ip], port) \in Runs
        BY <1>0, RecordedRuns DEF NothingSent, Runs
    <2> QED
        BY <1>0, <2>1 DEF SInv
<1>3. CASE KnockTracked(ip, port, res)
    <2> DEFINE i == find_client(ip)
    <2>1. i \in Slots /\ clients[i].active /\ clients[i].ip = ip
        BY <1>3, FoundClient DEF KnockTracked
    <2>2. Ready(clients[i]) /\ Earned(clients[i], sent[ip])
        BY <1>0, <2>1, LiveClientIsReady, EarnedByAddress
    <2>3. \A j \in Slots \ {i} : ~(clients[j].active /\ clients[j].ip = ip)
        BY <1>0, <2>1 DEF TableInv
    <2>4. HandleKnock(i, clients[i], port, res)
        BY <1>3 DEF KnockTracked
    <2>5. PICK d : Handled(clients[i], port, res, d)
                     /\ clients' = [clients EXCEPT ![i] = d]
        BY <1>0, <2>1, <2>2, <2>4, HandleKnockEffect
    <2>6. EntryIsEarned'
        BY <1>0, <2>1, <2>2, <2>3, <2>5, WriteKeepsEarned
    <2> QED
        BY <1>1, <1>2, <2>6 DEF SInv
<1>4. CASE KnockNew(ip, port, res)
    <2>1. PICK t \in {now, now + 1} :
             /\ alloc_client(t) # NULL
             /\ HandleKnock(alloc_client(t), NewClient(ip), port, res)
        BY <1>4 DEF KnockNew
    <2>2. t \in Nat
        BY <1>0
    <2> DEFINE i == alloc_client(t)
    <2>3. i \in Slots
        BY <1>0, <2>1, <2>2, AllocatedSlot
    <2>4. Ready(NewClient(ip)) /\ NewClient(ip).ip = ip
          /\ Earned(NewClient(ip), sent[ip])
        BY NewClientIsReady, NewClientEarned
    <2>5. \A j \in Slots \ {i} : ~(clients[j].active /\ clients[j].ip = ip)
        BY <1>4, NoClient DEF KnockNew
    <2>6. PICK d : Handled(NewClient(ip), port, res, d)
                     /\ clients' = [clients EXCEPT ![i] = d]
        BY <1>0, <2>1, <2>3, <2>4, HandleKnockEffect
    <2>7. EntryIsEarned'
        BY <1>0, <2>3, <2>4, <2>5, <2>6, WriteKeepsEarned
    <2> QED
        BY <1>1, <1>2, <2>7 DEF SInv
<1>5. CASE KnockRefused(ip, port, res) \/ KnockNoise(ip, port, res)
    <2>1. clients' = clients /\ res # "COMPLETE"
        BY <1>5 DEF KnockRefused, KnockNoise
    <2>2. \A i \in Slots : clients[i].active => clients[i].ip # ip
        BY <1>5, NoClient DEF KnockRefused, KnockNoise
    <2>3. ASSUME NEW i \in Slots, clients[i].active
          PROVE  sent'[clients[i].ip] = sent[clients[i].ip]
        BY <1>0, <2>2, <2>3, EarnedByAddress DEF SInv
    <2>4. EntryIsEarned'
        BY <2>1, <2>3 DEF SInv, EntryIsEarned, Slots
    <2> QED
        BY <1>1, <1>2, <2>4 DEF SInv
<1> QED
    BY <1>0, <1>3, <1>4, <1>5 DEF knocker_process

LEMMA HousekeepingKeepsEarned ==
    ASSUME SInv, Housekeeping, UNCHANGED sent
    PROVE  SInv'
<1>1. IInv'
    BY HousekeepingKeepsTable DEF SInv
<1>2. \A i \in Slots : clients'[i].active => clients'[i] = clients[i]
    <2>1. CASE knocker_cleanup_stale
        BY <2>1 DEF knocker_cleanup_stale, SInv, IInv, TypeOK, Client
    <2>2. CASE Tick \/ StepBack
        BY <2>2 DEF Tick, StepBack
    <2> QED
        BY <2>1, <2>2 DEF Housekeeping
<1>3. EntryIsEarned'
    BY <1>2 DEF SInv, EntryIsEarned, Slots
<1> QED
    BY <1>1, <1>3 DEF SInv

LEMMA EarnedInductive == SInv /\ [NextS]_varsS => SInv'
<1> SUFFICES ASSUME SInv, [NextS]_varsS PROVE SInv'
    OBVIOUS
<1>1. CASE \E ip \in IPs, port \in KnockPorts, res \in Results :
              KnockS(ip, port, res)
    BY <1>1, KnockKeepsEarned
<1>2. CASE Housekeeping /\ UNCHANGED sent
    BY <1>2, HousekeepingKeepsEarned
<1>3. CASE UNCHANGED varsS
    <2>1. clients' = clients /\ now' = now /\ sent' = sent
        BY <1>3 DEF varsS, vars
    <2>2. IInv'
        BY <2>1 DEF SInv, IInv, TypeOK, TableInv
    <2> QED
        BY <2>1, <2>2 DEF SInv, EntryIsEarned
<1> QED
    BY <1>1, <1>2, <1>3 DEF NextS

(* No entry of the client table ever claims more than its address has        *)
(* knocked, in order and in time, since its last grant, whatever the slot    *)
(* was used for before and however the clock was set.                        *)
THEOREM EntriesAreEarned == SpecS => []EntryIsEarned
<1>1. SInv => EntryIsEarned
    BY DEF SInv
<1> QED
    BY InitEarned, EarnedInductive, <1>1, PTL DEF SpecS

-----------------------------------------------------------------------------
LEMMA CompletionStep == SInv => DeservedCompletion
<1> SUFFICES ASSUME SInv, NEW ip \in IPs, NEW port \in KnockPorts,
                    knocker_process(ip, port, "COMPLETE")
             PROVE  /\ port = KNOCK_SEQUENCE[KNOCK_SEQ_LEN]
                    /\ Extends(sent[ip], KNOCK_SEQ_LEN)
    BY DEF DeservedCompletion
<1>0. TypeOK /\ TableInv /\ now \in Nat /\ sent[ip] \in Runs
    BY DEF SInv, IInv, TypeOK
<1>1. CASE KnockTracked(ip, port, "COMPLETE")
    <2> DEFINE i == find_client(ip)
    <2>1. i \in Slots /\ clients[i].active /\ clients[i].ip = ip
        BY <1>1, FoundClient DEF KnockTracked
    <2>2. Ready(clients[i]) /\ Earned(clients[i], sent[ip])
        BY <1>0, <2>1, LiveClientIsReady, EarnedByAddress
    <2>3. HandleKnock(i, clients[i], port, "COMPLETE")
        BY <1>1 DEF KnockTracked
    <2>4. PICK d : Handled(clients[i], port, "COMPLETE", d)
        BY <1>0, <2>1, <2>2, <2>3, HandleKnockEffect
    <2>5. StepOf(clients[i]) + 1 = KNOCK_SEQ_LEN
          /\ port = KNOCK_SEQUENCE[KNOCK_SEQ_LEN]
        BY <2>4 DEF Handled
    <2>6. Extends(sent[ip], StepOf(clients[i]) + 1)
        BY <1>0, <2>2, CountedStepsExtend
    <2> QED
        BY <2>5, <2>6
<1>2. CASE KnockNew(ip, port, "COMPLETE")
    <2>1. PICK t \in {now, now + 1} :
             /\ alloc_client(t) # NULL
             /\ HandleKnock(alloc_client(t), NewClient(ip), port, "COMPLETE")
        BY <1>2 DEF KnockNew
    <2>2. alloc_client(t) \in Slots
        <3>1. t \in Nat
            BY <1>0
        <3> QED
            BY <1>0, <2>1, <3>1, AllocatedSlot
    <2>3. PICK d : Handled(NewClient(ip), port, "COMPLETE", d)
        BY <1>0, <2>1, <2>2, NewClientIsReady, HandleKnockEffect
    <2>4. 0 + 1 = KNOCK_SEQ_LEN
        BY <2>3, NewClientEarned DEF Handled
    <2> QED
        BY <2>4, SequenceFacts
<1>3. CASE KnockRefused(ip, port, "COMPLETE") \/ KnockNoise(ip, port, "COMPLETE")
    BY <1>3 DEF KnockRefused, KnockNoise
<1> QED
    BY <1>1, <1>2, <1>3 DEF knocker_process

(* knocker_process() returns KNOCK_COMPLETE only to an address that knocked  *)
(* the whole sequence in order, each knock within KNOCK_WINDOW of the one    *)
(* before, with no knock that an earlier grant already used: for every       *)
(* sequence, every table size and every number of clients.                   *)
THEOREM CompletionsAreGenuine == SpecS => CompletionIsGenuine
<1>1. SInv => [DeservedCompletion]_varsS
    BY CompletionStep
<1> QED
    BY InitEarned, EarnedInductive, <1>1, PTL DEF SpecS, CompletionIsGenuine

-----------------------------------------------------------------------------
LEMMA ObserverAddsNothing ==
    /\ InitC => Init
    /\ [NextC]_varsC => [Next]_vars
    BY DEF InitC, NextC, KnockC, varsC, vars, Next, Knock, Housekeeping

(* Clean runs.  The entry of an address in a clean run of k knocks counts    *)
(* exactly k steps, and was stamped by the last of them.  Only a first knock *)
(* may be credited to an earlier one: taken for its retransmit it leaves     *)
(* last_knock as it was, up to the dedup window before.  An entry may be     *)
(* missing when it is too late to go on with the run.                        *)

Slack(k) == IF k = 1 THEN KNOCK_DEDUP_WINDOW ELSE 0

InStep(c, r) ==
    /\ c.current_step = Len(r)
    /\ c.last_knock >= r[Len(r)] - Slack(Len(r))

Mirrored(table, t, r, ip) ==
    r # <<>> =>
       /\ Len(r) < KNOCK_SEQ_LEN
       /\ \/ t - r[Len(r)] > GapAfter(Len(r))
          \/ \E i \in Slots : Holds(table, i, ip) /\ InStep(table[i], r)

RunInv == \A ip \in IPs : Mirrored(clients, now, run[ip], ip)

CInv == IInv /\ run \in [IPs -> Seq(Nat)] /\ RunInv

(* The clean runs for which the promise can be kept: after the first knock   *)
(* they leave room for an earlier one it may be credited to, and only the    *)
(* last knock is ever retransmitted.                                         *)
GentleRuns ==
    /\ FirstGap + KNOCK_DEDUP_WINDOW <= KNOCK_WINDOW
    /\ RetransmitDepth <= 1

LEMMA LastOfRun ==
    ASSUME NEW r \in Seq(Nat), r # <<>>
    PROVE  Len(r) \in Nat \ {0} /\ r[Len(r)] \in Nat
    OBVIOUS

LEMMA GapFacts ==
    ASSUME GentleRuns, NEW k \in Nat \ {0}
    PROVE  /\ GapAfter(k) \in Nat /\ Slack(k) \in Nat
           /\ GapAfter(k) + Slack(k) <= KNOCK_WINDOW
    BY RunAssumption, LimitAssumption DEF GentleRuns, GapAfter, Slack

(* An entry stamped at y whose window has run out belongs to a run, with its *)
(* last knock at x, that is late.                                            *)
LEMMA WindowCoversGap ==
    ASSUME NEW u \in Nat, NEW x \in Nat, NEW y \in Nat,
           NEW gap \in Nat, NEW slack \in Nat, NEW window \in Nat,
           gap + slack <= window, y >= x - slack, u - y > window
    PROVE  u - x > gap
    OBVIOUS

(* An entry that was not touched, or only because its window had run out,    *)
(* still mirrors the run as time goes on.                                    *)
LEMMA StillMirrored ==
    ASSUME GentleRuns, NEW table \in [Slots -> Client], NEW after,
           NEW t \in Nat, NEW u \in Nat, t <= u,
           NEW r \in Seq(Nat), NEW ip, Mirrored(table, t, r, ip),
           \A i \in Slots : Holds(table, i, ip) =>
              after[i] = table[i] \/ u - table[i].last_knock > KNOCK_WINDOW
    PROVE  Mirrored(after, u, r, ip)
<1> SUFFICES ASSUME r # <<>>
             PROVE  /\ Len(r) < KNOCK_SEQ_LEN
                    /\ \/ u - r[Len(r)] > GapAfter(Len(r))
                       \/ \E i \in Slots : Holds(after, i, ip) /\ InStep(after[i], r)
    BY DEF Mirrored
<1> DEFINE k == Len(r)
<1>1. k \in Nat \ {0} /\ r[k] \in Nat
    BY LastOfRun
<1>2. GapAfter(k) \in Nat /\ Slack(k) \in Nat /\ GapAfter(k) + Slack(k) <= KNOCK_WINDOW
    BY <1>1, GapFacts
<1>3. k < KNOCK_SEQ_LEN
    BY DEF Mirrored
<1>4. CASE t - r[k] > GapAfter(k)
    BY <1>1, <1>2, <1>3, <1>4
<1>5. CASE \E i \in Slots : Holds(table, i, ip) /\ InStep(table[i], r)
    <2>1. PICK i \in Slots : Holds(table, i, ip) /\ InStep(table[i], r)
        BY <1>5
    <2>2. CASE after[i] = table[i]
        BY <1>3, <2>1, <2>2 DEF Holds
    <2>3. CASE u - table[i].last_knock > KNOCK_WINDOW
        <3>1. table[i].last_knock \in Nat
            BY DEF Client
        <3>2. table[i].last_knock >= r[k] - Slack(k)
            BY <2>1 DEF InStep
        <3>3. u - r[k] > GapAfter(k)
            BY <1>1, <1>2, <2>3, <3>1, <3>2, LimitAssumption, WindowCoversGap
        <3> QED
            BY <1>3, <3>3
    <2> QED
        BY <2>1, <2>2, <2>3
<1> QED
    BY <1>4, <1>5 DEF Mirrored

(* A knock of another address leaves a live entry alone. *)
LEMMA OthersKeepEntries ==
    ASSUME IInv, NEW ip \in IPs, NEW port \in KnockPorts, NEW res,
           knocker_process(ip, port, res), NEW a, a # ip,
           NEW i \in Slots, Holds(clients, i, a)
    PROVE  clients'[i] = clients[i] \/ now' - clients[i].last_knock > KNOCK_WINDOW
<1> USE DEF IInv
<1>1. CASE KnockTracked(ip, port, res)
    <2> DEFINE f == find_client(ip)
    <2>1. f \in Slots /\ clients[f].active /\ clients[f].ip = ip
        BY <1>1, FoundClient DEF KnockTracked
    <2>2. PICK d : clients' = [clients EXCEPT ![f] = d]
        BY <1>1, <2>1, LiveClientIsReady, HandleKnockEffect DEF KnockTracked, TypeOK
    <2> QED
        BY <2>1, <2>2 DEF TypeOK, Holds
<1>2. CASE KnockNew(ip, port, res)
    <2>1. PICK t \in {now, now + 1} :
             /\ alloc_client(t) # NULL
             /\ HandleKnock(alloc_client(t), NewClient(ip), port, res)
             /\ now' = t
        BY <1>2 DEF KnockNew
    <2>2. t \in Nat
        BY DEF TypeOK
    <2> DEFINE f == alloc_client(t)
    <2>3. /\ f \in Slots
          /\ ~clients[f].active \/ t - clients[f].last_knock > KNOCK_WINDOW
        BY <2>1, <2>2, AllocatedSlot
    <2>4. PICK d : clients' = [clients EXCEPT ![f] = d]
        BY <2>1, <2>3, NewClientIsReady, HandleKnockEffect DEF TypeOK
    <2> QED
        BY <2>1, <2>3, <2>4 DEF TypeOK, Holds
<1>3. CASE KnockRefused(ip, port, res) \/ KnockNoise(ip, port, res)
    BY <1>3 DEF KnockRefused, KnockNoise
<1> QED
    BY <1>1, <1>2, <1>3 DEF knocker_process

LEMMA KnockTime ==
    ASSUME TypeOK, NEW ip, NEW port, NEW res, knocker_process(ip, port, res)
    PROVE  now' \in Nat /\ now <= now'
<1>1. CASE KnockTracked(ip, port, res)
    BY <1>1 DEF KnockTracked, TypeOK
<1>2. CASE KnockNew(ip, port, res)
    BY <1>2 DEF KnockNew, TypeOK
<1>3. CASE KnockRefused(ip, port, res)
    BY <1>3 DEF KnockRefused, TypeOK
<1>4. CASE KnockNoise(ip, port, res)
    BY <1>4 DEF KnockNoise, TypeOK
<1> QED
    BY <1>1, <1>2, <1>3, <1>4 DEF knocker_process

(* The handler finds the entry of an address that has one. *)
LEMMA HolderIsHandled ==
    ASSUME IInv, NEW ip, NEW port, NEW res, knocker_process(ip, port, res),
           NEW i \in Slots, Holds(clients, i, ip)
    PROVE  HandleKnock(i, clients[i], port, res) /\ now' = now
<1>1. find_client(ip) = i
    BY TablesAreUnique, ReadingOfHolder DEF IInv, find_client, FindIn
<1>2. i # NULL
    BY LimitAssumption DEF Slots, NULL
<1>3. KnockTracked(ip, port, res)
    BY <1>1, <1>2 DEF knocker_process, KnockNew, KnockRefused, KnockNoise
<1> QED
    BY <1>1, <1>3 DEF KnockTracked

-----------------------------------------------------------------------------
(* What a knock does to the mirror of its own address. *)

(* The next knock of a run in time is accepted, and grants when it is the    *)
(* last.                                                                     *)
LEMMA NextKnockAccepted ==
    ASSUME GentleRuns, IInv, NEW ip \in IPs, NEW port \in KnockPorts, NEW res,
           knocker_process(ip, port, res), NEW r \in Seq(Nat),
           Mirrored(clients, now, r, ip), IsNextOfRun(r, port)
    PROVE  /\ EndsRun(r, port) => res = "COMPLETE"
           /\ ~EndsRun(r, port) => Mirrored(clients', now', Append(r, now), ip)
<1> USE DEF IInv
<1> DEFINE k == Len(r)
<1>1. /\ r # <<>>
      /\ port = KNOCK_SEQUENCE[k + 1]
      /\ now - r[k] <= GapAfter(k)
    BY DEF IsNextOfRun
<1>2. k \in Nat \ {0} /\ r[k] \in Nat /\ now \in Nat
    BY <1>1, LastOfRun DEF TypeOK
<1>3. GapAfter(k) \in Nat /\ Slack(k) \in Nat /\ GapAfter(k) + Slack(k) <= KNOCK_WINDOW
    BY <1>2, GapFacts
<1>4. k < KNOCK_SEQ_LEN
    BY <1>1 DEF Mirrored
<1>5. ~(now - r[k] > GapAfter(k))
    BY <1>1, <1>2, <1>3
<1>6. PICK i \in Slots : Holds(clients, i, ip) /\ InStep(clients[i], r)
    BY <1>1, <1>5 DEF Mirrored
<1> DEFINE c == clients[i]
<1>7. /\ c \in Client
      /\ c.ip = ip
      /\ c.active
      /\ c.last_knock \in Nat
      /\ c.current_step = k
      /\ c.last_port = KNOCK_SEQUENCE[k]
    <2>1. c \in Client
        BY DEF TypeOK
    <2>2. c.active /\ c.ip = ip
        BY <1>6 DEF Holds
    <2>3. c.current_step = k
        BY <1>6 DEF InStep
    <2>4. c.last_port = KNOCK_SEQUENCE[c.current_step]
        BY <2>2 DEF TableInv
    <2>5. c.last_knock \in Nat
        BY <2>1 DEF Client
    <2> QED
        BY <2>1, <2>2, <2>3, <2>4, <2>5
<1>8. c.last_knock >= r[k] - Slack(k)
    BY <1>6 DEF InStep
<1>9. ~(now - c.last_knock > KNOCK_WINDOW)
    BY <1>2, <1>3, <1>5, <1>7, <1>8, LimitAssumption, WindowCoversGap
<1>10. StepOf(c) = k
    BY <1>7, <1>9 DEF StepOf
<1>11. KNOCK_SEQUENCE[k + 1] # KNOCK_SEQUENCE[k]
    <2>1. k \in 1..KNOCK_SEQ_LEN /\ k + 1 \in 1..KNOCK_SEQ_LEN /\ k + 1 # k
        BY <1>2, <1>4, SequenceFacts
    <2> QED
        BY <2>1, SequenceAssumption
<1>12. ~IsRepeat(c, port) /\ IsNext(c, port)
    BY <1>1, <1>7, <1>10, <1>11 DEF IsRepeat, IsNext
<1>13. HandleKnock(i, c, port, res) /\ now' = now
    BY <1>6, HolderIsHandled
<1>14. Advance(i, c, port, res) \/ Complete(i, c, port, res)
    BY <1>12, <1>13 DEF HandleKnock, Repeat, Restart, Discard
<1>15. ASSUME EndsRun(r, port) PROVE res = "COMPLETE"
    <2>1. k + 1 = KNOCK_SEQ_LEN
        BY <1>15 DEF EndsRun
    <2>2. ~Advance(i, c, port, res)
        BY <1>2, <1>10, <2>1 DEF Advance
    <2> QED
        BY <1>14, <2>2 DEF Complete
<1>16. ASSUME ~EndsRun(r, port)
       PROVE  Mirrored(clients', now', Append(r, now), ip)
    <2>1. k + 1 # KNOCK_SEQ_LEN
        BY <1>16 DEF EndsRun
    <2>2. k + 1 < KNOCK_SEQ_LEN
        BY <1>2, <1>4, <2>1, SequenceFacts
    <2>3. ~Complete(i, c, port, res)
        BY <1>2, <1>10, <2>2, SequenceFacts DEF Complete
    <2>4. clients' = [clients EXCEPT ![i] = Accepted(c, k + 1, port)]
        BY <1>10, <1>14, <2>3 DEF Advance
    <2>5. clients'[i] = Accepted(c, k + 1, port)
        BY <2>4 DEF TypeOK
    <2>6. k + 1 \in 0..KNOCK_SEQ_LEN
        BY <1>2, <2>2, SequenceFacts
    <2>7. /\ clients'[i].ip = ip
          /\ clients'[i].active
          /\ clients'[i].current_step = k + 1
          /\ clients'[i].last_knock = now
        BY <1>2, <1>7, <2>5, <2>6, AcceptedEntry
    <2> DEFINE q == Append(r, now)
    <2>8. Len(q) = k + 1 /\ q[k + 1] = now
        BY <1>2
    <2>9. Slack(k + 1) = 0
        BY <1>2 DEF Slack
    <2>10. InStep(clients'[i], q)
        BY <1>2, <2>7, <2>8, <2>9 DEF InStep
    <2>11. Holds(clients', i, ip)
        BY <2>7 DEF Holds
    <2> QED
        BY <2>2, <2>8, <2>10, <2>11 DEF Mirrored
<1> QED
    BY <1>15, <1>16

(* A retransmit of the knock accepted last changes nothing. *)
LEMMA RetransmitIgnored ==
    ASSUME GentleRuns, IInv, NEW ip \in IPs, NEW port \in KnockPorts, NEW res,
           knocker_process(ip, port, res), NEW r \in Seq(Nat),
           Mirrored(clients, now, r, ip), IsRetransmit(r, port)
    PROVE  Mirrored(clients', now', r, ip)
<1> USE DEF IInv
<1> DEFINE k == Len(r)
<1>1. PICK j \in DOMAIN r :
         /\ j > k - RetransmitDepth
         /\ port = KNOCK_SEQUENCE[j]
         /\ now - r[j] <= KNOCK_DEDUP_WINDOW
    BY DEF IsRetransmit
<1>2. k \in Nat /\ k > 1 /\ r # <<>>
    BY DEF IsRetransmit
<1>3. j = k
    BY <1>1, <1>2, RunAssumption DEF GentleRuns
<1>4. r[k] \in Nat /\ now \in Nat
    BY <1>2, LastOfRun DEF TypeOK
<1>5. ASSUME NEW i \in Slots, Holds(clients, i, ip), InStep(clients[i], r)
      PROVE  clients' = clients /\ now' = now
    <2> DEFINE c == clients[i]
    <2>1. /\ c.last_knock \in Nat
          /\ c.current_step = k
          /\ c.last_port = KNOCK_SEQUENCE[k]
        BY <1>5 DEF Holds, InStep, TypeOK, TableInv, Client
    <2>2. c.last_knock >= r[k]
        BY <1>2, <1>4, <1>5, <2>1 DEF InStep, Slack
    <2>3. IsRepeat(c, port)
        BY <1>1, <1>3, <1>4, <2>1, <2>2, LimitAssumption DEF IsRepeat
    <2>4. HandleKnock(i, c, port, res) /\ now' = now
        BY <1>5, HolderIsHandled
    <2>5. Repeat(i, c, port, res)
        BY <2>3, <2>4 DEF HandleKnock, Advance, Complete, Restart, Discard
    <2> QED
        BY <2>4, <2>5 DEF Repeat, TypeOK
<1>6. CASE \E i \in Slots : Holds(clients, i, ip) /\ InStep(clients[i], r)
    BY <1>5, <1>6
<1>7. CASE ~\E i \in Slots : Holds(clients, i, ip) /\ InStep(clients[i], r)
    <2>1. k < KNOCK_SEQ_LEN /\ now - r[k] > GapAfter(k)
        BY <1>2, <1>7 DEF Mirrored
    <2>2. now' \in Nat /\ now <= now'
        BY KnockTime
    <2>3. GapAfter(k) \in Nat
        BY <1>2, GapFacts
    <2>4. now' - r[k] > GapAfter(k)
        BY <1>4, <2>1, <2>2, <2>3
    <2> QED
        BY <2>1, <2>4 DEF Mirrored
<1> QED
    BY <1>6, <1>7

(* A first port that is not refused leaves an entry at step one, stamped by  *)
(* this knock or, when it was taken for a retransmit, not long before.       *)
LEMMA FirstPortStarts ==
    ASSUME IInv, NEW ip \in IPs, NEW port \in KnockPorts, NEW res,
           knocker_process(ip, port, res),
           port = KNOCK_SEQUENCE[1], res # "RESET"
    PROVE  Mirrored(clients', now', <<now>>, ip)
<1> USE DEF IInv
<1>1. SUFFICES \E i \in Slots :
                  /\ Holds(clients', i, ip)
                  /\ clients'[i].current_step = 1
                  /\ clients'[i].last_knock >= now - KNOCK_DEDUP_WINDOW
    <2>1. Len(<<now>>) = 1 /\ <<now>>[1] = now /\ 1 < KNOCK_SEQ_LEN
        BY SequenceFacts
    <2>2. Slack(1) = KNOCK_DEDUP_WINDOW
        BY DEF Slack
    <2> QED
        BY <1>1, <2>1, <2>2 DEF Mirrored, InStep
<1>2. now \in Nat /\ 1 \in 0..KNOCK_SEQ_LEN
    BY SequenceFacts DEF TypeOK
<1>3. CASE KnockTracked(ip, port, res)
    <2> DEFINE i == find_client(ip)
               c == clients[i]
    <2>1. i \in Slots /\ Holds(clients, i, ip)
        BY <1>3, FoundClient DEF KnockTracked, Holds
    <2>2. HandleKnock(i, c, port, res)
        BY <1>3 DEF KnockTracked
    <2>3. /\ c \in Client
          /\ c.ip = ip
          /\ c.active
          /\ c.current_step \in 1..KNOCK_SEQ_LEN - 1
          /\ c.last_port = KNOCK_SEQUENCE[c.current_step]
          /\ c.last_knock \in Nat
        BY <2>1 DEF Holds, TypeOK, TableInv, Client
    <2>4. StepOf(c) \in 0..KNOCK_SEQ_LEN - 1
        BY <1>2, <2>3, SequenceFacts DEF StepOf
    <2>5. CASE IsRepeat(c, port)
        <3>1. c.current_step = 1
            <4>1. KNOCK_SEQUENCE[c.current_step] = KNOCK_SEQUENCE[1]
                BY <2>3, <2>5 DEF IsRepeat
            <4>2. c.current_step \in 1..KNOCK_SEQ_LEN /\ 1 \in 1..KNOCK_SEQ_LEN
                BY <2>3, SequenceFacts
            <4> QED
                BY <4>1, <4>2, SequenceAssumption
        <3>2. c.last_knock >= now - KNOCK_DEDUP_WINDOW
            BY <1>2, <2>3, <2>5, LimitAssumption DEF IsRepeat
        <3>3. clients' = clients
            BY <2>1, <2>2, <2>5
            DEF HandleKnock, Repeat, Advance, Complete, Restart, Discard, TypeOK
        <3> QED
            BY <2>1, <3>1, <3>2, <3>3
    <2>6. CASE ~IsRepeat(c, port)
        <3>1. IsNext(c, port) => StepOf(c) = 0
            <4>1. StepOf(c) + 1 \in 1..KNOCK_SEQ_LEN /\ 1 \in 1..KNOCK_SEQ_LEN
                BY <2>4, SequenceFacts
            <4>2. IsNext(c, port) => StepOf(c) + 1 = 1
                BY <4>1, SequenceAssumption DEF IsNext
            <4> QED
                BY <2>4, <4>2, SequenceFacts
        <3>2. clients' = [clients EXCEPT ![i] = Accepted(c, 1, port)]
            <4>1. CASE Advance(i, c, port, res)
                <5>1. StepOf(c) + 1 = 1
                    BY <3>1, <4>1 DEF Advance
                <5> QED
                    BY <4>1, <5>1 DEF Advance
            <4>2. CASE Restart(i, c, port, res)
                BY <4>2 DEF Restart
            <4>3. ~Complete(i, c, port, res)
                BY <3>1, SequenceFacts DEF Complete
            <4> QED
                BY <2>2, <2>6, <4>1, <4>2, <4>3 DEF HandleKnock, Repeat, Discard
        <3>3. clients'[i] = Accepted(c, 1, port)
            BY <2>1, <3>2 DEF TypeOK
        <3>4. /\ clients'[i].ip = ip
              /\ clients'[i].active
              /\ clients'[i].current_step = 1
              /\ clients'[i].last_knock = now
            BY <1>2, <2>3, <3>3, AcceptedEntry
        <3> QED
            BY <1>2, <2>1, <3>4, LimitAssumption DEF Holds
    <2> QED
        BY <2>5, <2>6
<1>4. CASE KnockNew(ip, port, res)
    <2>1. PICK t \in {now, now + 1} :
             /\ alloc_client(t) # NULL
             /\ HandleKnock(alloc_client(t), NewClient(ip), port, res)
        BY <1>4 DEF KnockNew
    <2>2. t \in Nat
        BY <1>2
    <2>3. alloc_client(t) \in Slots
        BY <2>1, <2>2, AllocatedSlot
    <2>4. PICK d \in Client :
             /\ d.ip = ip /\ d.active
             /\ d.current_step = 1 /\ d.last_knock = now
             /\ clients' = [clients EXCEPT ![alloc_client(t)] = d]
        BY <1>2, <2>1, <2>3, FirstKnock
    <2>5. clients'[alloc_client(t)] = d
        BY <2>3, <2>4 DEF TypeOK
    <2>6. d.last_knock >= now - KNOCK_DEDUP_WINDOW
        BY <1>2, <2>4, LimitAssumption
    <2> QED
        BY <2>3, <2>4, <2>5, <2>6 DEF Holds
<1> QED
    BY <1>3, <1>4 DEF knocker_process, KnockRefused, KnockNoise

-----------------------------------------------------------------------------
LEMMA OwnRunMirrored ==
    ASSUME GentleRuns, IInv, NEW ip \in IPs, NEW port \in KnockPorts, NEW res,
           knocker_process(ip, port, res), NEW r \in Seq(Nat),
           Mirrored(clients, now, r, ip)
    PROVE  /\ Follow(r, port, res) \in Seq(Nat)
           /\ Mirrored(clients', now', Follow(r, port, res), ip)
<1>1. now \in Nat
    BY DEF IInv, TypeOK
<1>2. Mirrored(clients', now', <<>>, ip)
    BY DEF Mirrored
<1>3. CASE IsRetransmit(r, port)
    BY <1>3, RetransmitIgnored DEF Follow
<1>4. CASE ~IsRetransmit(r, port) /\ EndsRun(r, port)
    BY <1>2, <1>4 DEF Follow
<1>5. CASE ~IsRetransmit(r, port) /\ ~EndsRun(r, port) /\ IsNextOfRun(r, port)
    BY <1>1, <1>5, NextKnockAccepted DEF Follow
<1>6. CASE /\ ~IsRetransmit(r, port) /\ ~EndsRun(r, port) /\ ~IsNextOfRun(r, port)
           /\ port = KNOCK_SEQUENCE[1] /\ res # "RESET"
    BY <1>1, <1>6, FirstPortStarts DEF Follow
<1>7. CASE /\ ~IsRetransmit(r, port) /\ ~EndsRun(r, port) /\ ~IsNextOfRun(r, port)
           /\ ~(port = KNOCK_SEQUENCE[1] /\ res # "RESET")
    BY <1>2, <1>7 DEF Follow
<1> QED
    BY <1>3, <1>4, <1>5, <1>6, <1>7

LEMMA InitMirrored == InitC => CInv
    BY ObserverAddsNothing, InitTable DEF InitC, CInv, RunInv, Mirrored

LEMMA RunsInductive ==
    ASSUME GentleRuns, CInv, [NextC]_varsC PROVE CInv'
<1>1. IInv /\ IInv'
    BY ObserverAddsNothing, TableInductive DEF CInv
<1>2. run \in [IPs -> Seq(Nat)] /\ now \in Nat /\ now' \in Nat
    BY <1>1 DEF CInv, IInv, TypeOK
<1>3. ASSUME NEW a \in IPs
      PROVE  Mirrored(clients, now, run[a], a) /\ run[a] \in Seq(Nat)
    BY <1>2 DEF CInv, RunInv
<1>4. clients \in [Slots -> Client]
    BY <1>1 DEF IInv, TypeOK
<1>5. CASE \E ip \in IPs, port \in KnockPorts, res \in Results : KnockC(ip, port, res)
    <2>1. PICK ip \in IPs, port \in KnockPorts, res \in Results : KnockC(ip, port, res)
        BY <1>5
    <2>2. /\ knocker_process(ip, port, res)
          /\ run' = [run EXCEPT ![ip] = Follow(run[ip], port, res)]
        BY <2>1 DEF KnockC
    <2>3. /\ Follow(run[ip], port, res) \in Seq(Nat)
          /\ Mirrored(clients', now', Follow(run[ip], port, res), ip)
        BY <1>1, <1>3, <2>2, OwnRunMirrored
    <2>4. run' \in [IPs -> Seq(Nat)] /\ run'[ip] = Follow(run[ip], port, res)
        BY <1>2, <2>2, <2>3
    <2>5. ASSUME NEW a \in IPs, a # ip PROVE Mirrored(clients', now', run'[a], a)
        <3>1. run'[a] = run[a]
            BY <1>2, <2>2, <2>5
        <3>2. now <= now'
            BY <1>1, <2>2, KnockTime DEF IInv
        <3>3. \A i \in Slots : Holds(clients, i, a) =>
                 clients'[i] = clients[i] \/ now' - clients[i].last_knock > KNOCK_WINDOW
            BY <1>1, <2>2, <2>5, OthersKeepEntries
        <3> QED
            BY <1>2, <1>3, <1>4, <3>1, <3>2, <3>3, StillMirrored
    <2> QED
        BY <1>1, <2>3, <2>4, <2>5 DEF CInv, RunInv
<1>6. CASE (knocker_cleanup_stale \/ Tick \/ UNCHANGED vars) /\ UNCHANGED run
    <2>1. now <= now'
        BY <1>2, <1>6 DEF knocker_cleanup_stale, Tick, vars
    <2>2. \A i \in Slots : clients'[i] = clients[i]
                           \/ now' - clients[i].last_knock > KNOCK_WINDOW
        BY <1>6 DEF knocker_cleanup_stale, Stale, Tick, vars
    <2>3. ASSUME NEW a \in IPs PROVE Mirrored(clients', now', run[a], a)
        BY <1>2, <1>3, <1>4, <2>1, <2>2, StillMirrored
    <2> QED
        BY <1>1, <1>2, <1>6, <2>3 DEF CInv, RunInv
<1>7. CASE StepBack /\ run' = [ip \in IPs |-> <<>>]
    BY <1>1, <1>7 DEF CInv, RunInv, Mirrored
<1> QED
    BY <1>5, <1>6, <1>7 DEF NextC, varsC

(* A client that knocks correctly gets in: whatever other addresses, sweeps, *)
(* evictions, its own earlier attempts and retransmits of the last knock do, *)
(* knocker_process() answers the knock that ends a clean run with            *)
(* KNOCK_COMPLETE, for every sequence, table size, window and clock.         *)
THEOREM CleanRunsComplete == GentleRuns => (SpecC => CleanRunCompletes)
<1> SUFFICES ASSUME GentleRuns PROVE SpecC => CleanRunCompletes
    OBVIOUS
<1>1. CInv /\ [NextC]_varsC => CInv'
    BY RunsInductive
<1>2. CInv /\ [NextC]_varsC =>
         [\A ip \in IPs, port \in KnockPorts, res \in Results :
             KnockC(ip, port, res) /\ EndsRun(run[ip], port)
                => res = "COMPLETE"]_varsC
    <2> SUFFICES ASSUME CInv, NEW ip \in IPs, NEW port \in KnockPorts,
                        NEW res \in Results, KnockC(ip, port, res),
                        EndsRun(run[ip], port)
                 PROVE  res = "COMPLETE"
        OBVIOUS
    <2>1. IInv /\ run[ip] \in Seq(Nat) /\ Mirrored(clients, now, run[ip], ip)
        BY DEF CInv, RunInv
    <2>2. knocker_process(ip, port, res) /\ IsNextOfRun(run[ip], port)
        BY DEF KnockC, EndsRun
    <2> QED
        BY <2>1, <2>2, NextKnockAccepted
<1> QED
    BY InitMirrored, <1>1, <1>2, PTL DEF SpecC, CleanRunCompletes

=============================================================================
