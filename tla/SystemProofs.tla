----------------------------- MODULE SystemProofs ----------------------------
(***************************************************************************)
(* The running daemon implements AccessService, for every number of         *)
(* addresses, both table sizes, every sequence, window, timeout, queue      *)
(* capacity and behaviour of the wall clock.                                *)
(*                                                                          *)
(* The knock table maps to the service by the refinement of KnockerProofs.  *)
(* For the grant table the induction needs to know where the processor loop *)
(* is while iptables runs (Phases) and how the grants, those being expired  *)
(* included, and the rules of the chain account for each other (Books).     *)
(***************************************************************************)
EXTENDS MCSystem, KnockerProofs

(* Grants whose rule is in the chain or about to be, or still to be deleted. *)
Booked == FW!Active \cup expired

(* The grant firewall_open() has reserved but not inserted yet. *)
Pending == IF pc = "insert" THEN {slot} ELSE {}

Phases ==
    /\ table.chain
    /\ pc \in {"ready", "insert", "delete"}
    /\ pc = "insert" => main = "pop" /\ slot \in FW!Active
    /\ pc = "delete" => main = "sweep"
    /\ pc = "delete" <=> expired # {}

Books ==
    /\ FW!Active \cap expired = {}
    /\ \A i \in Booked : grants[i].ip \in IPs
    /\ \A i, j \in Booked : grants[i].ip = grants[j].ip => i = j
    /\ \A i \in FW!Active : grants[i].expires_at > 0
    /\ \A i \in Booked \ Pending : table.rules[grants[i].ip] = 1
    /\ \A ip \in IPs : table.rules[ip] # 0 =>
          \E i \in Booked \ Pending : grants[i].ip = ip

SystemInv == STypeOK /\ TableInv /\ Phases /\ Books

-----------------------------------------------------------------------------
(* The parts of the type invariant that the steps below use. *)
LEMMA TypeFacts ==
    ASSUME STypeOK
    PROVE  /\ TypeOK
           /\ grants \in [Slots -> FW!Grant]
           /\ slot \in Slots /\ expired \in SUBSET Slots
           /\ table \in FW!Tables /\ now \in Nat
           /\ queue \in Seq(Events)
           /\ evt \in {<<>>} \cup {<<e>> : e \in Events}
    BY DEF STypeOK, FW!FTypeOK, FW!Slots, Slots

LEMMA SameSlots == FW!Slots = Slots
    BY DEF FW!Slots, Slots

(* The scans of the grant table return one of their hits. *)
LEMMA FirstGrant ==
    ASSUME NEW S, S \subseteq Slots, S # {}
    PROVE  FW!FirstOf(S) \in S
<1>1. FW!FirstOf(S) = First(S)
    BY DEF FW!FirstOf, First
<1> QED
    BY <1>1, FirstIsMember

LEMMA GrantFields ==
    ASSUME NEW g \in [Slots -> FW!Grant], NEW i \in Slots
    PROVE  g[i].ip \in IPs \cup {NoIP} /\ g[i].expires_at \in Nat /\ g[i].active \in BOOLEAN
    BY DEF FW!Grant

(* With the faults left to Firewall, a command that applies takes effect and *)
(* is reported to.                                                           *)
LEMMA CommandSucceeds ==
    ASSUME NEW cmd, NEW ip, NEW t, FW!Applies(cmd, ip, t),
           NEW r \in FW!run_iptables(cmd, ip, t)
    PROVE  r.ok /\ r.table = FW!Effect(cmd, ip, t)
    BY DEF FW!run_iptables

LEMMA InsertEffect ==
    ASSUME NEW t \in FW!Tables, t.chain, NEW ip \in IPs,
           NEW r \in FW!run_iptables("-I", ip, t)
    PROVE  /\ r.ok
           /\ r.table \in FW!Tables
           /\ r.table.chain
           /\ r.table.rules = [t.rules EXCEPT ![ip] = @ + 1]
<1>1. r.ok /\ r.table = FW!Effect("-I", ip, t)
    BY CommandSucceeds DEF FW!Applies
<1>2. FW!Effect("-I", ip, t) = [t EXCEPT !.rules[ip] = @ + 1]
    BY DEF FW!Effect
<1> QED
    BY <1>1, <1>2 DEF FW!Tables

LEMMA DeleteEffect ==
    ASSUME NEW t \in FW!Tables, t.chain, NEW ip \in IPs, t.rules[ip] > 0,
           NEW r \in FW!run_iptables("-D", ip, t)
    PROVE  /\ r.ok
           /\ r.table \in FW!Tables
           /\ r.table.chain
           /\ r.table.rules = [t.rules EXCEPT ![ip] = @ - 1]
<1>1. r.ok /\ r.table = FW!Effect("-D", ip, t)
    BY CommandSucceeds DEF FW!Applies
<1>2. FW!Effect("-D", ip, t) = [t EXCEPT !.rules[ip] = @ - 1]
    BY DEF FW!Effect
<1> QED
    BY <1>1, <1>2 DEF FW!Tables

-----------------------------------------------------------------------------
(* The loop's own variables. *)
LoopOK ==
    /\ main \in {"wait", "process", "open", "pop", "tick", "sweep"}
    /\ queue \in Seq(Events) /\ Len(queue) <= QUEUE_CAPACITY
    /\ evt \in {<<>>} \cup {<<e>> : e \in Events}
    /\ main \in {"process", "open"} <=> evt # <<>>

LEMMA TypeParts ==
    /\ STypeOK <=> TypeOK /\ FW!FTypeOK /\ LoopOK
    /\ STypeOK' <=> TypeOK' /\ FW!FTypeOK' /\ LoopOK'
    BY DEF STypeOK, LoopOK

LEMMA InitSystem == SInit => SystemInv
<1> SUFFICES ASSUME SInit PROVE SystemInv
    OBVIOUS
<1>1. TypeOK /\ TableInv
    BY InitTable DEF SInit, IInv
<1>2. FW!NoRules \in [IPs -> Nat] /\ \A ip \in IPs : FW!NoRules[ip] = 0
    BY DEF FW!NoRules
<1>3. /\ table.chain = TRUE
      /\ table.rules = FW!NoRules
      /\ table \in FW!Tables
    BY <1>2 DEF SInit, FW!EmptyTable, FW!Tables
<1>4. /\ FW!Active = {}
      /\ grants \in [FW!Slots -> FW!Grant]
    BY DEF SInit, FW!NoGrants, FW!Active, FW!Grant
<1>5. 0 \in FW!Slots
    BY LimitAssumption DEF FW!Slots
<1>6. FW!FTypeOK
    <2>1. promised \in [IPs -> Nat] /\ logged \in [IPs -> 0..2] /\ runs \in Nat
        BY DEF SInit
    <2>2. /\ g_added_jump \in BOOLEAN /\ operatorJump \in BOOLEAN
          /\ warned \in BOOLEAN
        BY Zenon DEF SInit
    <2>3. /\ slot \in FW!Slots /\ expired \in SUBSET FW!Slots
          /\ pc \in {"ready", "insert", "delete"}
        BY <1>5 DEF SInit
    <2> QED
        BY <1>1, <1>3, <1>4, <2>1, <2>2, <2>3 DEF FW!FTypeOK, TypeOK
<1>7. LoopOK
    BY ServiceAssumption DEF SInit, LoopOK
<1>8. Phases /\ Books
    BY <1>2, <1>3, <1>4 DEF SInit, Phases, Books, Booked, Pending
<1> QED
    BY <1>1, <1>6, <1>7, <1>8, TypeParts DEF SystemInv

(* What a step that leaves the firewall alone keeps of it. *)
LEMMA FirewallUntouched ==
    ASSUME SystemInv, UNCHANGED firewall, now' \in Nat
    PROVE  FW!FTypeOK' /\ Books'
    BY DEF SystemInv, STypeOK, firewall, FW!FTypeOK, Books, Booked, Pending, FW!Active

LEMMA CaptureKeeps ==
    ASSUME SystemInv, NEW e \in Events, Capture(e)
    PROVE  SystemInv'
<1> USE DEF SystemInv
<1>1. UNCHANGED <<vars, main, evt, firewall>>
    BY DEF Capture
<1>2. TypeOK' /\ TableInv' /\ now' \in Nat
    BY <1>1 DEF STypeOK, vars, TypeOK, TableInv
<1>3. LoopOK'
    BY <1>1, ServiceAssumption DEF Capture, STypeOK, LoopOK
<1>4. Phases'
    BY <1>1 DEF Phases, firewall, FW!Active
<1> QED
    BY <1>1, <1>2, <1>3, <1>4, FirewallUntouched, TypeParts

LEMMA TakeEventKeeps == ASSUME SystemInv, TakeEvent PROVE SystemInv'
<1> USE DEF SystemInv
<1>1. UNCHANGED <<vars, firewall>> /\ pc = "ready"
    BY DEF TakeEvent
<1>2. TypeOK' /\ TableInv' /\ now' \in Nat
    BY <1>1 DEF STypeOK, vars, TypeOK, TableInv
<1>3. LoopOK'
    <2>1. CASE queue = <<>>
        BY <2>1 DEF TakeEvent, STypeOK, LoopOK
    <2>2. CASE queue # <<>>
        <3>1. /\ main' = "process" /\ evt' = <<Head(queue)>>
              /\ queue' = Tail(queue)
            BY <2>2 DEF TakeEvent
        <3>2. /\ Head(queue) \in Events
              /\ Tail(queue) \in Seq(Events)
              /\ Len(Tail(queue)) <= QUEUE_CAPACITY
            BY <2>2, ServiceAssumption DEF STypeOK
        <3> QED
            BY <3>1, <3>2 DEF LoopOK
    <2> QED
        BY <2>1, <2>2
<1>4. Phases'
    BY <1>1 DEF Phases, firewall, FW!Active
<1> QED
    BY <1>1, <1>2, <1>3, <1>4, FirewallUntouched, TypeParts

(* The event being handled. *)
LEMMA EventFacts ==
    ASSUME STypeOK, main \in {"process", "open"}
    PROVE  evt[1] \in Events /\ evt[1].src_ip \in IPs /\ evt[1].dst_port \in KnockPorts
<1>1. PICK e \in Events : evt = <<e>>
    BY DEF STypeOK
<1> QED
    BY <1>1 DEF Events

LEMMA ProcessKeeps == ASSUME SystemInv, Process PROVE SystemInv'
<1> USE DEF SystemInv
<1>1. main = "process" /\ UNCHANGED <<queue, firewall>>
    BY DEF Process
<1>2. PICK res \in Results :
         /\ knocker_process(evt[1].src_ip, evt[1].dst_port, res)
         /\ IF res = "COMPLETE" THEN main' = "open" /\ UNCHANGED evt
                                ELSE main' = "pop" /\ evt' = <<>>
    BY DEF Process
<1>3. TypeOK' /\ TableInv' /\ now' \in Nat
    <2>1. IInv'
        BY <1>1, <1>2, EventFacts, KnockKeepsTable, TypeParts DEF IInv
    <2> QED
        BY <2>1 DEF IInv, TypeOK
<1>4. LoopOK'
    BY <1>1, <1>2 DEF STypeOK, LoopOK
<1>5. pc = "ready"
    BY <1>1 DEF Phases
<1>6. Phases'
    BY <1>1, <1>5 DEF Phases, firewall, FW!Active
<1> QED
    BY <1>1, <1>3, <1>4, <1>6, FirewallUntouched, TypeParts

LEMMA SweepKeeps == ASSUME SystemInv, Sweep PROVE SystemInv'
<1> USE DEF SystemInv
<1>1. /\ pc = "ready" /\ main = "sweep" /\ main' = "wait"
      /\ UNCHANGED <<queue, evt, firewall>>
    BY DEF Sweep
<1>2. IInv'
    <2>1. IInv
        BY TypeParts DEF IInv
    <2>2. [Next]_vars
        BY DEF Sweep, Next, Housekeeping
    <2> QED
        BY <2>1, <2>2, TableInductive
<1>3. TypeOK' /\ TableInv' /\ now' \in Nat
    BY <1>2 DEF IInv, TypeOK
<1>4. LoopOK'
    BY <1>1 DEF STypeOK, LoopOK
<1>5. Phases'
    BY <1>1 DEF Phases, firewall, FW!Active
<1> QED
    BY <1>1, <1>3, <1>4, <1>5, FirewallUntouched, TypeParts

LEMMA ClockKeeps == ASSUME SystemInv, Clock PROVE SystemInv'
<1> USE DEF SystemInv
<1>1. UNCHANGED <<main, queue, evt, firewall>>
    BY DEF Clock, loop
<1>2. IInv'
    <2>1. IInv
        BY TypeParts DEF IInv
    <2>2. [Next]_vars
        BY DEF Clock, Next, Housekeeping
    <2> QED
        BY <2>1, <2>2, TableInductive
<1>3. TypeOK' /\ TableInv' /\ now' \in Nat
    BY <1>2 DEF IInv, TypeOK
<1>4. LoopOK'
    BY <1>1 DEF STypeOK, LoopOK
<1>5. Phases'
    BY <1>1 DEF Phases, firewall, FW!Active
<1> QED
    BY <1>1, <1>3, <1>4, <1>5, FirewallUntouched, TypeParts

-----------------------------------------------------------------------------
(* What firewall_open(), firewall_tick() and the iptables invocations in     *)
(* them do to the grants and the rules.                                      *)

LEMMA ActiveFacts ==
    /\ FW!Active = {i \in Slots : grants[i].active}
    /\ FW!Active' = {i \in Slots : grants'[i].active}
    BY SameSlots DEF FW!Active

LEMMA ExtendEffect ==
    ASSUME STypeOK, NEW ip \in IPs, FW!Extend(ip)
    PROVE  \E i \in FW!Active :
              /\ grants[i].ip = ip
              /\ grants' \in [Slots -> FW!Grant]
              /\ grants'[i].expires_at = now + ACCESS_TIMEOUT
              /\ \A j \in Slots : grants'[j].ip = grants[j].ip
                                 /\ grants'[j].active = grants[j].active
              /\ \A j \in Slots \ {i} : grants'[j] = grants[j]
<1> DEFINE i == FW!find_grant(ip)
<1>1. FW!GrantsOf(ip) \subseteq Slots
    BY ActiveFacts DEF FW!GrantsOf
<1>2. i \in FW!GrantsOf(ip)
    BY <1>1, FirstGrant DEF FW!Extend, FW!find_grant
<1>3. i \in FW!Active /\ i \in Slots /\ grants[i].ip = ip
    BY <1>1, <1>2 DEF FW!GrantsOf
<1>4. now + ACCESS_TIMEOUT \in Nat
    BY TypeFacts, ServiceAssumption
<1>5. grants' = [grants EXCEPT ![i].expires_at = now + ACCESS_TIMEOUT]
    BY DEF FW!Extend, FW!Expiry
<1>6. grants \in [Slots -> FW!Grant]
    BY TypeFacts
<1>7. /\ grants' \in [Slots -> FW!Grant]
      /\ grants'[i].expires_at = now + ACCESS_TIMEOUT
      /\ \A j \in Slots : grants'[j].ip = grants[j].ip
                         /\ grants'[j].active = grants[j].active
      /\ \A j \in Slots \ {i} : grants'[j] = grants[j]
    BY <1>3, <1>4, <1>5, <1>6 DEF FW!Grant
<1> QED
    BY <1>3, <1>7

LEMMA ReserveEffect ==
    ASSUME STypeOK, NEW ip \in IPs, FW!Reserve(ip)
    PROVE  /\ slot' \in Slots \ FW!Active
           /\ grants' \in [Slots -> FW!Grant]
           /\ grants'[slot'].ip = ip
           /\ grants'[slot'].expires_at = now + ACCESS_TIMEOUT
           /\ \A j \in Slots \ {slot'} : grants'[j] = grants[j]
           /\ FW!Active' = FW!Active \cup {slot'}
<1>1. Slots \ FW!Active # {}
    BY SameSlots DEF FW!Reserve, FW!Active
<1>2. slot' = FW!FirstOf(Slots \ FW!Active)
    BY SameSlots DEF FW!Reserve
<1>3. slot' \in Slots \ FW!Active
    BY <1>1, <1>2, FirstGrant
<1>4. now + ACCESS_TIMEOUT \in Nat
    BY TypeFacts, ServiceAssumption
<1>5. PICK new : new = [ip |-> ip, expires_at |-> now + ACCESS_TIMEOUT, active |-> TRUE]
    OBVIOUS
<1>6. /\ new \in FW!Grant /\ new.active = TRUE
      /\ new.ip = ip /\ new.expires_at = now + ACCESS_TIMEOUT
    BY <1>4, <1>5 DEF FW!Grant
<1>7. grants' = [grants EXCEPT ![slot'] = new]
    BY <1>5 DEF FW!Reserve, FW!Expiry
<1>8. /\ grants' \in [Slots -> FW!Grant]
      /\ grants'[slot'] = new
      /\ \A j \in Slots \ {slot'} : grants'[j] = grants[j]
    BY <1>3, <1>6, <1>7, TypeFacts
<1>9. FW!Active' = FW!Active \cup {slot'}
    BY <1>3, <1>6, <1>8, ActiveFacts
<1> QED
    BY <1>3, <1>6, <1>8, <1>9

LEMMA RevokeEffect ==
    ASSUME STypeOK, NEW S, S \subseteq FW!Active, FW!Revoke(S)
    PROVE  /\ grants' \in [Slots -> FW!Grant]
           /\ \A j \in Slots : grants'[j].ip = grants[j].ip
           /\ \A j \in Slots \ S : grants'[j] = grants[j]
           /\ FW!Active' = FW!Active \ S
           /\ expired' = S
<1>1. S \subseteq Slots
    BY ActiveFacts
<1>2. grants \in [Slots -> FW!Grant]
    BY TypeFacts
<1>3. grants' = [i \in Slots |-> IF i \in S
                                 THEN [grants[i] EXCEPT !.active = FALSE]
                                 ELSE grants[i]]
    BY SameSlots DEF FW!Revoke
<1>4. \A j \in Slots : /\ [grants[j] EXCEPT !.active = FALSE] \in FW!Grant
                       /\ [grants[j] EXCEPT !.active = FALSE].ip = grants[j].ip
                       /\ ~[grants[j] EXCEPT !.active = FALSE].active
    BY <1>2 DEF FW!Grant
<1>5. /\ grants' \in [Slots -> FW!Grant]
      /\ \A j \in Slots : grants'[j].ip = grants[j].ip
      /\ \A j \in Slots \ S : grants'[j] = grants[j]
      /\ \A j \in S : ~grants'[j].active
    BY <1>1, <1>2, <1>3, <1>4
<1>6. FW!Active' = FW!Active \ S
    BY <1>1, <1>5, ActiveFacts
<1> QED
    BY <1>5, <1>6 DEF FW!Revoke

(* The rule of the reserved grant goes in. *)
LEMMA InsertRuleEffect ==
    ASSUME SystemInv, FW!InsertRule
    PROVE  /\ slot \in FW!Active /\ grants[slot].ip \in IPs
           /\ table' \in FW!Tables /\ table'.chain
           /\ table'.rules = [table.rules EXCEPT ![grants[slot].ip] = @ + 1]
           /\ promised' = [promised EXCEPT ![grants[slot].ip] = grants[slot].expires_at]
           /\ UNCHANGED <<grants, logged>>
<1> USE DEF SystemInv
<1>1. slot \in FW!Active
    BY DEF FW!InsertRule, Phases
<1>2. grants[slot].ip \in IPs
    BY <1>1 DEF Books, Booked
<1>3. table \in FW!Tables /\ table.chain
    BY TypeFacts DEF Phases
<1>4. PICK r \in FW!run_iptables("-I", grants[slot].ip, table) :
         /\ table' = r.table
         /\ IF r.ok
            THEN /\ promised' = [promised EXCEPT ![grants[slot].ip] = grants[slot].expires_at]
                 /\ UNCHANGED <<grants, logged>>
            ELSE /\ grants' = [grants EXCEPT ![slot].active = FALSE]
                 /\ logged' = FW!LogFailure(grants[slot].ip)
                 /\ UNCHANGED promised
    BY DEF FW!InsertRule
<1> QED
    BY <1>1, <1>2, <1>3, <1>4, InsertEffect

(* The rule of the first expired grant comes out. *)
LEMMA DeleteRuleEffect ==
    ASSUME SystemInv, FW!DeleteRule
    PROVE  \E i \in expired :
              /\ grants[i].ip \in IPs
              /\ table.rules[grants[i].ip] = 1
              /\ table' \in FW!Tables /\ table'.chain
              /\ table'.rules = [table.rules EXCEPT ![grants[i].ip] = @ - 1]
              /\ logged' = logged
              /\ expired' = expired \ {i}
<1> USE DEF SystemInv
<1> DEFINE i == FW!FirstOf(expired)
<1>1. pc = "delete" /\ expired # {} /\ expired \subseteq Slots
    BY TypeFacts DEF FW!DeleteRule, Phases
<1>2. i \in expired
    BY <1>1, FirstGrant
<1>3. grants[i].ip \in IPs /\ table.rules[grants[i].ip] = 1
    BY <1>1, <1>2 DEF Books, Booked, Pending
<1>4. table \in FW!Tables /\ table.chain
    BY TypeFacts DEF Phases
<1>5. PICK r \in FW!run_iptables("-D", grants[i].ip, table) :
         /\ table' = r.table
         /\ logged' = IF r.ok THEN logged ELSE FW!LogFailure(grants[i].ip)
    BY DEF FW!DeleteRule
<1>6. expired' = expired \ {i}
    BY DEF FW!DeleteRule
<1>7. table.rules[grants[i].ip] > 0
    BY <1>3
<1>8. /\ r.ok
      /\ r.table \in FW!Tables
      /\ r.table.chain
      /\ r.table.rules = [table.rules EXCEPT ![grants[i].ip] = @ - 1]
    BY <1>3, <1>4, <1>5, <1>7, DeleteEffect
<1>9. logged' = logged
    BY <1>5, <1>8
<1> QED
    BY <1>2, <1>3, <1>5, <1>6, <1>8, <1>9

-----------------------------------------------------------------------------
LEMMA OpenAccessKeeps == ASSUME SystemInv, OpenAccess PROVE SystemInv'
<1> USE DEF SystemInv
<1> DEFINE ip == evt[1].src_ip
<1>1. main = "open" /\ main' = "pop" /\ evt' = <<>> /\ UNCHANGED <<clients, queue>>
    BY DEF OpenAccess
<1>2. /\ pc = "ready"
      /\ FW!Extend(ip) \/ FW!Reserve(ip) \/ FW!RefuseGrant(ip)
      /\ UNCHANGED <<g_added_jump, expired, table, now, runs>>
      /\ UNCHANGED <<operatorJump, logged, warned>>
    BY DEF OpenAccess, FW!firewall_open
<1>3. ip \in IPs
    BY <1>1, EventFacts
<1>4. TypeOK' /\ TableInv'
    BY <1>1, <1>2 DEF STypeOK, TypeOK, TableInv
<1>5. LoopOK'
    BY <1>1 DEF STypeOK, LoopOK
<1>6. expired = {} /\ Pending = {} /\ expired' = {}
    BY <1>2 DEF Phases, Pending
<1>7. now + ACCESS_TIMEOUT \in Nat /\ now + ACCESS_TIMEOUT > 0
    BY TypeFacts, ServiceAssumption
<1>8. FW!FTypeOK
    BY TypeParts
<1>9. CASE FW!Extend(ip)
    <2>1. PICK i \in FW!Active :
             /\ grants' \in [Slots -> FW!Grant]
             /\ grants'[i].expires_at = now + ACCESS_TIMEOUT
             /\ \A j \in Slots : grants'[j].ip = grants[j].ip
                                /\ grants'[j].active = grants[j].active
             /\ \A j \in Slots \ {i} : grants'[j] = grants[j]
        BY <1>3, <1>9, ExtendEffect
    <2>2. /\ pc' = pc /\ slot' = slot
          /\ promised' = [promised EXCEPT ![ip] = now + ACCESS_TIMEOUT]
        BY <1>9 DEF FW!Extend, FW!Expiry
    <2>3. promised' \in [IPs -> Nat]
        BY <1>3, <1>7, <1>8, <2>2 DEF FW!FTypeOK
    <2>4. FW!FTypeOK'
        BY <1>2, <1>8, <2>1, <2>2, <2>3, SameSlots DEF FW!FTypeOK
    <2>5. FW!Active' = FW!Active
        BY <2>1, ActiveFacts
    <2>6. Phases'
        BY <1>1, <1>2, <2>2 DEF Phases
    <2>7. Pending' = {} /\ Booked' = FW!Active /\ Booked = FW!Active
        BY <1>2, <1>6, <2>2, <2>5 DEF Pending, Booked
    <2>8. Books'
        BY <1>2, <1>6, <1>7, <2>1, <2>5, <2>7, ActiveFacts DEF Books
    <2> QED
        BY <1>4, <1>5, <2>4, <2>6, <2>8, TypeParts
<1>10. CASE FW!Reserve(ip)
    <2>1. /\ slot' \in Slots \ FW!Active
          /\ grants' \in [Slots -> FW!Grant]
          /\ grants'[slot'].ip = ip
          /\ grants'[slot'].expires_at = now + ACCESS_TIMEOUT
          /\ \A j \in Slots \ {slot'} : grants'[j] = grants[j]
          /\ FW!Active' = FW!Active \cup {slot'}
        BY <1>3, <1>10, ReserveEffect
    <2>2. pc' = "insert" /\ promised' = promised /\ FW!GrantsOf(ip) = {}
        BY <1>10 DEF FW!Reserve
    <2>3. FW!FTypeOK'
        BY <1>2, <1>8, <2>1, <2>2, SameSlots DEF FW!FTypeOK
    <2>4. Phases'
        BY <1>1, <1>2, <1>6, <2>1, <2>2 DEF Phases
    <2>5. /\ Pending' = {slot'}
          /\ Booked' = FW!Active \cup {slot'}
          /\ Booked = FW!Active
        BY <1>6, <2>1, <2>2 DEF Pending, Booked
    <2>6. \A i \in FW!Active : i \in Slots /\ grants'[i] = grants[i] /\ grants[i].ip # ip
        BY <2>1, <2>2, ActiveFacts DEF FW!GrantsOf
    <2>7. Books'
        BY <1>2, <1>3, <1>6, <1>7, <2>1, <2>5, <2>6 DEF Books
    <2> QED
        BY <1>4, <1>5, <2>3, <2>4, <2>7, TypeParts
<1>11. CASE FW!RefuseGrant(ip)
    <2>1. UNCHANGED firewall /\ now' = now
        BY <1>2, <1>11 DEF FW!RefuseGrant, firewall
    <2>2. Phases'
        BY <1>1, <1>2, <2>1 DEF Phases, firewall
    <2> QED
        BY <1>4, <1>5, <2>1, <2>2, FirewallUntouched, TypeParts DEF TypeOK
<1> QED
    BY <1>2, <1>9, <1>10, <1>11

LEMMA BatchIsActive == FW!Batch \subseteq FW!Active
    BY DEF FW!Batch, FW!Due

LEMMA ExpireKeeps == ASSUME SystemInv, Expire PROVE SystemInv'
<1> USE DEF SystemInv
<1>1. main = "tick" /\ main' = "sweep" /\ UNCHANGED <<clients, queue, evt>>
    BY DEF Expire
<1>2. /\ pc = "ready" /\ FW!Revoke(FW!Batch)
      /\ UNCHANGED <<g_added_jump, slot, table, now, runs>>
      /\ UNCHANGED <<operatorJump, promised, logged, warned>>
    BY DEF Expire, FW!firewall_tick, FW!ghost
<1>3. TypeOK' /\ TableInv'
    BY <1>1, <1>2 DEF STypeOK, TypeOK, TableInv
<1>4. LoopOK'
    BY <1>1 DEF STypeOK, LoopOK
<1>5. /\ grants' \in [Slots -> FW!Grant]
      /\ \A j \in Slots : grants'[j].ip = grants[j].ip
      /\ \A j \in Slots \ FW!Batch : grants'[j] = grants[j]
      /\ FW!Active' = FW!Active \ FW!Batch
      /\ expired' = FW!Batch
    BY <1>2, BatchIsActive, RevokeEffect
<1>6. pc' = IF FW!Batch = {} THEN "ready" ELSE "delete"
    BY <1>2 DEF FW!Revoke
<1>7. FW!Batch \subseteq FW!Active /\ FW!Active \subseteq Slots
    BY BatchIsActive, ActiveFacts
<1>8. FW!FTypeOK'
    BY <1>2, <1>5, <1>6, <1>7, TypeParts, SameSlots DEF FW!FTypeOK
<1>9. Phases'
    BY <1>1, <1>2, <1>5, <1>6 DEF Phases
<1>10. Booked' = Booked /\ Booked = FW!Active /\ Pending' = {} /\ Pending = {}
    BY <1>2, <1>5, <1>6, <1>7 DEF Phases, Booked, Pending
<1>11. Books'
    <2>1. \A i \in Booked' : grants'[i].ip = grants[i].ip
        BY <1>5, <1>7, <1>10
    <2>2. (FW!Active \cap expired)' = {}
        BY <1>5
    <2>3. \A i \in FW!Active' : grants'[i].expires_at > 0
        BY <1>5, <1>7 DEF Books
    <2> QED
        BY <1>2, <1>10, <2>1, <2>2, <2>3 DEF Books
<1> QED
    BY <1>3, <1>4, <1>8, <1>9, <1>11, TypeParts

LEMMA InsertRuleKeeps ==
    ASSUME SystemInv, FW!InsertRule, UNCHANGED <<clients, loop>>
    PROVE  SystemInv'
<1> USE DEF SystemInv
<1> DEFINE ip == grants[slot].ip
<1>1. /\ slot \in FW!Active /\ ip \in IPs
      /\ table' \in FW!Tables /\ table'.chain
      /\ table'.rules = [table.rules EXCEPT ![ip] = @ + 1]
      /\ promised' = [promised EXCEPT ![ip] = grants[slot].expires_at]
      /\ UNCHANGED <<grants, logged>>
    BY InsertRuleEffect
<1>2. /\ pc = "insert" /\ pc' = "ready" /\ slot' = 0
      /\ UNCHANGED <<g_added_jump, expired, now, runs, operatorJump, warned>>
    BY DEF FW!InsertRule
<1>3. TypeOK' /\ TableInv'
    BY <1>2 DEF STypeOK, TypeOK, TableInv
<1>4. LoopOK'
    BY DEF STypeOK, LoopOK, loop
<1>5. /\ slot \in Slots /\ grants[slot].expires_at \in Nat /\ 0 \in Slots
      /\ table.rules \in [IPs -> Nat]
    BY TypeFacts, GrantFields, LimitAssumption DEF Slots, FW!Tables
<1>6. FW!FTypeOK'
    <2>1. promised' \in [IPs -> Nat]
        BY <1>1, <1>5, TypeParts DEF FW!FTypeOK
    <2> QED
        BY <1>1, <1>2, <1>5, <2>1, TypeParts, SameSlots DEF FW!FTypeOK
<1>7. expired = {} /\ FW!Active' = FW!Active
    BY <1>1, <1>2 DEF Phases, FW!Active
<1>8. Phases'
    BY <1>1, <1>2, <1>7 DEF Phases
<1>9. /\ Booked = FW!Active /\ Booked' = FW!Active
      /\ Pending = {slot} /\ Pending' = {}
    BY <1>2, <1>7 DEF Booked, Pending
<1>10. Books'
    <2>1. table.rules[ip] = 0
        BY <1>1, <1>5, <1>9 DEF Books
    <2>2. table'.rules[ip] = 1 /\ \A a \in IPs \ {ip} : table'.rules[a] = table.rules[a]
        BY <1>1, <1>5, <2>1
    <2>3. \A i \in Booked' \ Pending' : table'.rules[grants'[i].ip] = 1
        BY <1>1, <1>9, <2>2 DEF Books
    <2>4. \A a \in IPs : table'.rules[a] # 0 =>
             \E i \in Booked' \ Pending' : grants'[i].ip = a
        BY <1>1, <1>9, <2>2 DEF Books
    <2> QED
        BY <1>1, <1>2, <1>7, <1>9, <2>3, <2>4 DEF Books
<1> QED
    BY <1>3, <1>4, <1>6, <1>8, <1>10, TypeParts

LEMMA DeleteRuleKeeps ==
    ASSUME SystemInv, FW!DeleteRule, UNCHANGED <<clients, loop>>
    PROVE  SystemInv'
<1> USE DEF SystemInv
<1>1. PICK i \in expired :
         /\ grants[i].ip \in IPs
         /\ table.rules[grants[i].ip] = 1
         /\ table' \in FW!Tables /\ table'.chain
         /\ table'.rules = [table.rules EXCEPT ![grants[i].ip] = @ - 1]
         /\ logged' = logged
         /\ expired' = expired \ {i}
    BY DeleteRuleEffect
<1>2. /\ pc = "delete" /\ pc' = IF expired' = {} THEN "ready" ELSE "delete"
      /\ UNCHANGED <<grants, g_added_jump, slot, now, runs>>
      /\ UNCHANGED <<operatorJump, promised, warned>>
    BY DEF FW!DeleteRule
<1>3. TypeOK' /\ TableInv'
    BY <1>2 DEF STypeOK, TypeOK, TableInv
<1>4. LoopOK'
    BY DEF STypeOK, LoopOK, loop
<1>5. table.rules \in [IPs -> Nat]
    BY TypeFacts DEF FW!Tables
<1>6. FW!FTypeOK'
    BY <1>1, <1>2, TypeParts DEF FW!FTypeOK
<1>7. FW!Active' = FW!Active /\ i \notin FW!Active
    BY <1>1, <1>2 DEF Books, FW!Active
<1>8. Phases'
    BY <1>1, <1>2 DEF Phases, loop
<1>9. Booked' = Booked \ {i} /\ i \in Booked /\ Pending = {} /\ Pending' = {}
    BY <1>1, <1>2, <1>7 DEF Booked, Pending
<1>10. Books'
    <2>1. /\ table'.rules[grants[i].ip] = 0
          /\ \A a \in IPs \ {grants[i].ip} : table'.rules[a] = table.rules[a]
        BY <1>1, <1>5
    <2>2. \A j \in Booked \ {i} : grants[j].ip # grants[i].ip
        BY <1>9 DEF Books
    <2>3. \A j \in Booked' \ Pending' : table'.rules[grants'[j].ip] = 1
        BY <1>2, <1>9, <2>1, <2>2 DEF Books
    <2>4. \A a \in IPs : table'.rules[a] # 0 =>
             \E j \in Booked' \ Pending' : grants'[j].ip = a
        BY <1>2, <1>9, <2>1 DEF Books
    <2> QED
        BY <1>1, <1>2, <1>7, <1>9, <2>3, <2>4 DEF Books
<1> QED
    BY <1>3, <1>4, <1>6, <1>8, <1>10, TypeParts

LEMMA SystemInductive == SystemInv /\ [SNext]_svars => SystemInv'
<1> SUFFICES ASSUME SystemInv, [SNext]_svars PROVE SystemInv'
    OBVIOUS
<1>1. CASE \E e \in Events : Capture(e)
    BY <1>1, CaptureKeeps
<1>2. CASE TakeEvent
    BY <1>2, TakeEventKeeps
<1>3. CASE Process
    BY <1>3, ProcessKeeps
<1>4. CASE OpenAccess
    BY <1>4, OpenAccessKeeps
<1>5. CASE Iptables
    BY <1>5, InsertRuleKeeps, DeleteRuleKeeps DEF Iptables
<1>6. CASE Expire
    BY <1>6, ExpireKeeps
<1>7. CASE Sweep
    BY <1>7, SweepKeeps
<1>8. CASE Clock
    BY <1>8, ClockKeeps
<1>9. CASE UNCHANGED svars
    <2>1. UNCHANGED <<vars, main, queue, evt, firewall>>
        BY <1>9 DEF svars, loop
    <2>2. TypeOK' /\ TableInv' /\ now' \in Nat
        BY <2>1 DEF SystemInv, STypeOK, vars, TypeOK, TableInv
    <2>3. LoopOK'
        BY <2>1 DEF SystemInv, STypeOK, LoopOK
    <2>4. Phases'
        BY <2>1 DEF SystemInv, Phases, firewall, FW!Active
    <2> QED
        BY <2>1, <2>2, <2>3, <2>4, FirewallUntouched, TypeParts DEF SystemInv
<1> QED
    BY <1>1, <1>2, <1>3, <1>4, <1>5, <1>6, <1>7, <1>8, <1>9 DEF SNext

(* Whatever the capture thread, the processor loop, iptables and the clock   *)
(* interleave, the daemon's state is of the types its declarations say: the  *)
(* queue within its capacity, an event at hand exactly while one is handled. *)
THEOREM SystemTypeCorrect == SSpec => []STypeOK
<1>1. SystemInv => STypeOK
    BY DEF SystemInv
<1> QED
    BY InitSystem, SystemInductive, <1>1, PTL DEF SSpec

(* The addresses that can connect have a slot each. *)
LEMMA BooksBoundAccess == SystemInv => AccessIsBounded
<1> SUFFICES ASSUME SystemInv PROVE AccessIsBounded
    OBVIOUS
<1> DEFINE open == {ip \in IPs : table.rules[ip] # 0}
           seat == [ip \in open |-> CHOOSE i \in Booked : grants[i].ip = ip]
<1>1. \A ip \in open : \E i \in Booked : grants[i].ip = ip /\ table.rules[ip] = 1
    BY DEF SystemInv, Books
<1>2. \A ip \in open : seat[ip] \in Booked /\ grants[seat[ip]].ip = ip
    BY <1>1
<1>3. Booked \in SUBSET Slots
    BY ActiveFacts, TypeFacts DEF SystemInv, Booked
<1>4. seat \in Injection(open, Slots)
    <2>1. seat \in [open -> Slots]
        BY <1>2, <1>3
    <2>2. \A a, b \in open : seat[a] = seat[b] => a = b
        BY <1>2
    <2> QED
        BY <2>1, <2>2 DEF Injection, IsInjective
<1>5. IsFiniteSet(Slots) /\ Cardinality(Slots) = MAX_CLIENTS
    BY FS_Interval, LimitAssumption DEF Slots
<1>6. Cardinality(open) <= MAX_CLIENTS
    BY <1>4, <1>5, FS_Injection
<1> QED
    BY <1>1, <1>6 DEF AccessIsBounded, Booked

(* At no moment can more than MAX_CLIENTS addresses connect, and every rule  *)
(* is the only one of its address and on its way out with a grant or with    *)
(* the expiry under way, for every table size, timeout and batch size.       *)
THEOREM AccessBounded == SSpec => []AccessIsBounded
    BY InitSystem, SystemInductive, BooksBoundAccess, PTL DEF SSpec

LEMMA BooksMatchRules == SystemInv => FW!RulesMatchGrants
<1> SUFFICES ASSUME SystemInv, pc = "ready", NEW ip \in IPs
             PROVE  /\ FW!Cardinality(FW!GrantsOf(ip)) <= 1
                    /\ table.rules[ip] \in FW!Cardinality(FW!GrantsOf(ip))
                                             ..FW!Cardinality(FW!GrantsOf(ip)) + logged[ip]
    BY DEF FW!RulesMatchGrants
<1> DEFINE held == Cardinality(FW!GrantsOf(ip))
<1>1. \A S : FW!Cardinality(S) = Cardinality(S)
    BY DEF FW!Cardinality, Cardinality
<1>2. logged[ip] \in Nat /\ table.rules[ip] \in Nat
    BY TypeFacts DEF SystemInv, STypeOK, FW!FTypeOK, FW!Tables
<1>3. Booked = FW!Active /\ Pending = {}
    BY DEF SystemInv, Phases, Booked, Pending
<1>4. held <= 1 /\ table.rules[ip] = held
    <2>1. CASE FW!GrantsOf(ip) = {}
        <3>1. table.rules[ip] = 0
            BY <1>3, <2>1 DEF SystemInv, Books, FW!GrantsOf
        <3> QED
            BY <2>1, <3>1, FS_EmptySet
    <2>2. CASE FW!GrantsOf(ip) # {}
        <3>1. PICK i \in FW!GrantsOf(ip) : TRUE
            BY <2>2
        <3>2. FW!GrantsOf(ip) = {j \in FW!Active : grants[j].ip = ip}
            BY DEF FW!GrantsOf
        <3>3. FW!GrantsOf(ip) = {i}
            BY <1>3, <3>1, <3>2 DEF SystemInv, Books
        <3>4. table.rules[ip] = 1
            BY <1>3, <3>1, <3>2 DEF SystemInv, Books
        <3>5. Cardinality({i}) = 1
            BY FS_Singleton, Zenon
        <3> QED
            BY <3>3, <3>4, <3>5
    <2> QED
        BY <2>1, <2>2
<1> QED
    BY <1>1, <1>2, <1>4

(* In the composed daemon too, with a clock that may be set back and knocks  *)
(* captured while iptables runs, between two calls every grant has its rule  *)
(* and the chain holds no other.                                             *)
THEOREM SystemRulesMatchGrants == SSpec => []FW!RulesMatchGrants
    BY InitSystem, SystemInductive, BooksMatchRules, PTL DEF SSpec

(* The processor loop drives the knock table as Knocker allows, so what is   *)
(* proved of the table alone holds in the daemon: no flood of knocks through *)
(* the queue, no sweep and no slow iptables evicts a client in its window.   *)
THEOREM SystemRunsKnocker == SSpec => Spec /\ LiveEntryKept /\ ImplementsKnockProgress
<1>1. SInit => Init
    BY DEF SInit
<1>2. SystemInv /\ [SNext]_svars => [Next]_vars
    <2> SUFFICES ASSUME SystemInv, [SNext]_svars PROVE [Next]_vars
        OBVIOUS
    <2>1. CASE \E e \in Events : Capture(e)
        BY <2>1 DEF Capture
    <2>2. CASE TakeEvent
        BY <2>2 DEF TakeEvent
    <2>3. CASE Process
        BY <2>3, EventFacts DEF SystemInv, Process, Next, Knock
    <2>4. CASE OpenAccess
        BY <2>4 DEF OpenAccess, FW!firewall_open, vars
    <2>5. CASE Iptables
        BY <2>5 DEF Iptables, FW!InsertRule, FW!DeleteRule, vars
    <2>6. CASE Expire
        BY <2>6 DEF Expire, FW!firewall_tick, vars
    <2>7. CASE Sweep
        BY <2>7 DEF Sweep, Next, Housekeeping
    <2>8. CASE Clock
        BY <2>8 DEF Clock, Next, Housekeeping
    <2>9. CASE UNCHANGED svars
        BY <2>9 DEF svars
    <2> QED
        BY <2>1, <2>2, <2>3, <2>4, <2>5, <2>6, <2>7, <2>8, <2>9 DEF SNext
<1>3. SSpec => Spec
    BY InitSystem, SystemInductive, <1>1, <1>2, PTL DEF SSpec, Spec
<1> QED
    BY <1>3, LiveEntriesKept, TableImplementsProgress

-----------------------------------------------------------------------------
(* The mapped state.  Deadlines are read off a grant table that is a         *)
(* parameter, so that the facts hold of the one after a step too.            *)

DeadlineIn(g, ip) ==
    LET held == {i \in Slots : g[i].active /\ g[i].ip = ip}
    IN  IF held = {} THEN 0 ELSE g[First(held)].expires_at

LEMMA UntilIsRead ==
    /\ Until = [ip \in IPs |-> DeadlineIn(grants, ip)]
    /\ Until' = [ip \in IPs |-> DeadlineIn(grants', ip)]
<1>1. /\ \A ip \in IPs : FW!GrantsOf(ip) = {i \in Slots : grants[i].active /\ grants[i].ip = ip}
      /\ \A ip \in IPs : FW!GrantsOf(ip)' = {i \in Slots : grants'[i].active /\ grants'[i].ip = ip}
    BY ActiveFacts DEF FW!GrantsOf
<1>2. \A S : FW!FirstOf(S) = First(S)
    BY DEF FW!FirstOf, First
<1> QED
    BY <1>1, <1>2 DEF Until, DeadlineIn, FW!find_grant

LEMMA SoleDeadline ==
    ASSUME NEW g, NEW i \in Slots, g[i].active,
           \A j \in Slots : g[j].active /\ g[j].ip = g[i].ip => j = i
    PROVE  DeadlineIn(g, g[i].ip) = g[i].expires_at
<1> DEFINE held == {j \in Slots : g[j].active /\ g[j].ip = g[i].ip}
<1>1. held = {i}
    OBVIOUS
<1>2. First(held) \in held
    BY <1>1, FirstIsMember
<1> QED
    BY <1>1, <1>2 DEF DeadlineIn

LEMMA NoDeadline ==
    ASSUME NEW g, NEW ip, \A j \in Slots : ~(g[j].active /\ g[j].ip = ip)
    PROVE  DeadlineIn(g, ip) = 0
    BY DEF DeadlineIn

(* Untouched grants of an address leave its deadline alone. *)
LEMMA SameDeadline ==
    ASSUME NEW g, NEW h, NEW ip,
           \A j \in Slots : (g[j].active /\ g[j].ip = ip) \/ (h[j].active /\ h[j].ip = ip)
                                 => g[j] = h[j]
    PROVE  DeadlineIn(g, ip) = DeadlineIn(h, ip)
<1>1. {j \in Slots : g[j].active /\ g[j].ip = ip} = {j \in Slots : h[j].active /\ h[j].ip = ip}
    OBVIOUS
<1>2. CASE {j \in Slots : g[j].active /\ g[j].ip = ip} = {}
    BY <1>1, <1>2 DEF DeadlineIn
<1>3. CASE {j \in Slots : g[j].active /\ g[j].ip = ip} # {}
    <2> DEFINE f == First({j \in Slots : g[j].active /\ g[j].ip = ip})
    <2>1. f \in Slots /\ g[f].active /\ g[f].ip = ip
        BY <1>3, FirstIsMember
    <2>2. g[f] = h[f]
        BY <2>1
    <2> QED
        BY <1>1, <1>3, <2>2 DEF DeadlineIn
<1> QED
    BY <1>2, <1>3

(* An address is promised access exactly while it has a grant, and its       *)
(* deadline is the grant's.                                                  *)
LEMMA PromisedFacts ==
    ASSUME SystemInv
    PROVE  /\ \A i \in FW!Active : grants[i].ip \in Service!Promised
                                  /\ Until[grants[i].ip] = grants[i].expires_at
           /\ \A ip \in Service!Promised : \E i \in FW!Active : grants[i].ip = ip
           /\ Service!Promised \subseteq IPs
<1> USE DEF SystemInv
<1>1. ASSUME NEW i \in FW!Active
      PROVE  /\ grants[i].ip \in Service!Promised
             /\ Until[grants[i].ip] = grants[i].expires_at
    <2>1. i \in Slots /\ grants[i].active
        BY ActiveFacts
    <2>2. grants[i].ip \in IPs /\ grants[i].expires_at > 0
        BY DEF Books, Booked
    <2>3. \A j \in Slots : grants[j].active /\ grants[j].ip = grants[i].ip => j = i
        BY ActiveFacts DEF Books, Booked
    <2>4. DeadlineIn(grants, grants[i].ip) = grants[i].expires_at
        BY <2>1, <2>3, SoleDeadline
    <2>5. Until[grants[i].ip] = grants[i].expires_at
        BY <2>2, <2>4, UntilIsRead
    <2> QED
        BY <2>2, <2>5 DEF Service!Promised
<1>2. ASSUME NEW ip \in Service!Promised
      PROVE  \E i \in FW!Active : grants[i].ip = ip
    <2>1. ip \in IPs /\ Until[ip] > 0
        BY DEF Service!Promised
    <2>2. DeadlineIn(grants, ip) > 0
        BY <2>1, UntilIsRead
    <2>3. DeadlineIn(grants, ip) # 0
        BY <2>2
    <2>4. \E j \in Slots : grants[j].active /\ grants[j].ip = ip
        BY <2>3, NoDeadline
    <2> QED
        BY <2>4, ActiveFacts
<1> QED
    BY <1>1, <1>2 DEF Service!Promised

(* What the rules say about who may connect when those of one address change. *)
LEMMA AccessChanges ==
    ASSUME NEW old, NEW new, NEW ip \in IPs, NEW b \in BOOLEAN,
           \A a \in IPs \ {ip} : new[a] = old[a],
           (new[ip] # 0) <=> b
    PROVE  [a \in IPs |-> new[a] # 0] = [[a \in IPs |-> old[a] # 0] EXCEPT ![ip] = b]
    BY Zenon

(* An address may connect exactly while one of its rules is in the chain. *)
LEMMA AccessFacts ==
    ASSUME SystemInv
    PROVE  /\ \A i \in Booked \ Pending : Access[grants[i].ip]
           /\ \A ip \in IPs : Access[ip] => \E i \in Booked \ Pending : grants[i].ip = ip
<1>1. \A ip \in IPs : Access[ip] <=> table.rules[ip] # 0
    BY Zenon DEF Access
<1>2. \A i \in Booked \ Pending : grants[i].ip \in IPs /\ table.rules[grants[i].ip] # 0
    BY DEF SystemInv, Books
<1> QED
    BY <1>1, <1>2 DEF SystemInv, Books

LEMMA OwedFacts ==
    ASSUME STypeOK
    PROVE  /\ main # "open" /\ pc # "insert" => Owed = {}
           /\ main = "open" /\ pc # "insert" => Owed = {evt[1].src_ip}
           /\ main' # "open" /\ pc' # "insert" => Owed' = {}
           /\ main' = "open" /\ pc' # "insert" /\ evt'[1].src_ip \in IPs
                 => Owed' = {evt'[1].src_ip}
           /\ main # "open" /\ pc = "insert" /\ grants[slot].ip \in IPs
                 => Owed = {grants[slot].ip}
           /\ main' # "open" /\ pc' = "insert" /\ grants'[slot'].ip \in IPs
                 => Owed' = {grants'[slot'].ip}
<1>1. main = "open" => evt[1].src_ip \in IPs
    BY EventFacts
<1> QED
    BY <1>1 DEF Owed

(* As many addresses are promised access as slots are in use. *)
LEMMA PromisedCount ==
    ASSUME SystemInv
    PROVE  /\ IsFiniteSet(FW!Active)
           /\ Cardinality(Service!Promised) = Cardinality(FW!Active)
<1> DEFINE owner == [i \in FW!Active |-> grants[i].ip]
<1>1. IsFiniteSet(Slots) /\ FW!Active \subseteq Slots
    BY FS_Interval, LimitAssumption, ActiveFacts DEF Slots
<1>2. IsFiniteSet(FW!Active)
    BY <1>1, FS_Subset
<1>3. owner \in [FW!Active -> Service!Promised]
    BY PromisedFacts
<1>4. \A i, j \in FW!Active : owner[i] = owner[j] => i = j
    BY DEF SystemInv, Books, Booked
<1>5. \A ip \in Service!Promised : \E i \in FW!Active : owner[i] = ip
    BY PromisedFacts
<1>6. owner \in Bijection(FW!Active, Service!Promised)
    BY <1>3, <1>4, <1>5 DEF Bijection, Injection, Surjection, IsInjective
<1>7. ExistsBijection(FW!Active, Service!Promised)
    BY <1>6 DEF ExistsBijection
<1> QED
    BY <1>2, <1>7, FS_Bijection

LEMMA SameCardinality == \A S : Service!Cardinality(S) = Cardinality(S)
    BY DEF Service!Cardinality, Cardinality

-----------------------------------------------------------------------------
(* Every step of the daemon is a step of the service, or none. *)

LEMMA SameKnocking ==
    /\ Abstract!PNext => Service!PNext
    /\ \A ip \in IPs : Abstract!Finish(ip) => Service!Finish(ip)
    BY DEF Abstract!PNext, Service!PNext, Abstract!Begin, Service!Begin,
           Abstract!Proceed, Service!Proceed, Abstract!Finish, Service!Finish,
           Abstract!StartOver, Service!StartOver, Abstract!GiveUp, Service!GiveUp,
           Abstract!ForgetExpired, Service!ForgetExpired,
           Abstract!ClockMoves, Service!ClockMoves,
           Abstract!OnTheWay, Service!OnTheWay, Abstract!Expired, Service!Expired,
           Abstract!Idle, Service!Idle, Abstract!At, Service!At,
           Abstract!Cardinality, Service!Cardinality

LEMMA KnocksUntouched ==
    ASSUME UNCHANGED <<clients, now>>
    PROVE  UNCHANGED Service!pvars
    BY ProgressIsRead DEF Service!pvars

LEMMA AnswersUntouched ==
    ASSUME UNCHANGED firewall
    PROVE  Until' = Until /\ Access' = Access
    BY UntilIsRead DEF firewall, Access

(* A step of the knock table that concerns no grant. *)
LEMMA KnockingStep ==
    ASSUME SystemInv, SystemInv', [Next]_vars,
           Owed' = Owed, Until' = Until, Access' = Access
    PROVE  Service!Knocks \/ UNCHANGED <<Service!pvars, Service!avars>>
<1>1. IInv /\ IInv'
    BY TypeParts DEF SystemInv, IInv
<1>2. Abstract!PNext \/ UNCHANGED Abstract!pvars
    BY <1>1, StepImplements
<1>3. UNCHANGED Service!avars
    BY DEF Service!avars
<1>4. UNCHANGED Abstract!pvars => UNCHANGED Service!pvars
    BY DEF Abstract!pvars, Service!pvars
<1> QED
    BY <1>2, <1>3, <1>4, SameKnocking DEF Service!Knocks

LEMMA ProcessImplements ==
    ASSUME SystemInv, SystemInv', Process
    PROVE  \/ \E ip \in IPs : Service!Earn(ip)
           \/ Service!Knocks \/ UNCHANGED <<Service!pvars, Service!avars>>
<1> DEFINE ip == evt[1].src_ip
           port == evt[1].dst_port
<1>1. STypeOK /\ main = "process" /\ UNCHANGED firewall
    BY DEF Process, SystemInv
<1>2. PICK res \in Results :
         /\ knocker_process(ip, port, res)
         /\ IF res = "COMPLETE" THEN main' = "open" /\ UNCHANGED evt
                                ELSE main' = "pop" /\ evt' = <<>>
    BY DEF Process
<1>3. ip \in IPs /\ port \in KnockPorts
    BY <1>1, EventFacts
<1>4. Until' = Until /\ Access' = Access
    BY <1>1, AnswersUntouched
<1>5. pc = "ready" /\ pc' = "ready"
    BY <1>1 DEF SystemInv, Phases, firewall
<1>6. Owed = {}
    BY <1>1, <1>5, OwedFacts
<1>7. CASE res = "COMPLETE"
    <2>1. IInv /\ IInv'
        BY TypeParts DEF SystemInv, IInv
    <2>2. Service!Finish(ip)
        BY <1>2, <1>3, <1>7, <2>1, CompletionFinishes, SameKnocking
    <2>3. Owed' = Owed \cup {ip}
        BY <1>1, <1>2, <1>3, <1>5, <1>6, <1>7, OwedFacts
    <2> QED
        BY <1>3, <1>4, <2>2, <2>3 DEF Service!Earn
<1>8. CASE res # "COMPLETE"
    <2>1. [Next]_vars
        BY <1>2, <1>3 DEF Next, Knock
    <2>2. Owed' = Owed
        BY <1>1, <1>2, <1>5, <1>6, <1>8, OwedFacts
    <2> QED
        BY <1>4, <2>1, <2>2, KnockingStep
<1> QED
    BY <1>7, <1>8

LEMMA OpenAccessImplements ==
    ASSUME SystemInv, SystemInv', OpenAccess
    PROVE  \E ip \in IPs : Service!Prolong(ip) \/ Service!Promise(ip) \/ Service!TurnAway(ip)
<1> DEFINE ip == evt[1].src_ip
<1>1. /\ STypeOK /\ main = "open" /\ main' = "pop" /\ pc = "ready"
      /\ FW!Extend(ip) \/ FW!Reserve(ip) \/ FW!RefuseGrant(ip)
      /\ UNCHANGED <<clients, now, expired, table>>
    BY DEF OpenAccess, FW!firewall_open, SystemInv
<1>2. ip \in IPs
    BY <1>1, EventFacts
<1>3. Owed = {ip}
    BY <1>1, OwedFacts
<1>4. UNCHANGED Service!pvars /\ Access' = Access
    BY <1>1, KnocksUntouched DEF Access
<1>5. expired = {} /\ Booked = FW!Active /\ Pending = {}
    BY <1>1 DEF SystemInv, Phases, Booked, Pending
<1>6. /\ Until = [a \in IPs |-> DeadlineIn(grants, a)]
      /\ Until' = [a \in IPs |-> DeadlineIn(grants', a)]
    BY UntilIsRead
<1>7. \A i, j \in FW!Active : grants[i].ip = grants[j].ip => i = j
    BY <1>5 DEF SystemInv, Books
<1>8. ASSUME \A i \in FW!Active : grants[i].ip # ip
      PROVE  ip \notin Service!Promised /\ ~Access[ip]
    BY <1>2, <1>5, <1>8, PromisedFacts, AccessFacts
<1>9. CASE FW!Extend(ip)
    <2>1. PICK i \in FW!Active :
             /\ grants[i].ip = ip
             /\ grants'[i].expires_at = now + ACCESS_TIMEOUT
             /\ \A j \in Slots : grants'[j].ip = grants[j].ip
                                /\ grants'[j].active = grants[j].active
             /\ \A j \in Slots \ {i} : grants'[j] = grants[j]
        BY <1>1, <1>2, <1>9, ExtendEffect
    <2>2. i \in Slots /\ grants'[i].active /\ grants'[i].ip = ip
        BY <2>1, ActiveFacts
    <2>3. \A j \in Slots : grants'[j].active /\ grants'[j].ip = grants'[i].ip => j = i
        BY <1>7, <2>1, <2>2, ActiveFacts
    <2>4. DeadlineIn(grants', ip) = now + ACCESS_TIMEOUT
        BY <2>1, <2>2, <2>3, SoleDeadline
    <2>5. \A a \in IPs \ {ip} : DeadlineIn(grants', a) = DeadlineIn(grants, a)
        BY <2>1, <2>2, SameDeadline
    <2>6. Until' = [Until EXCEPT ![ip] = now + ACCESS_TIMEOUT]
        BY <1>6, <2>4, <2>5
    <2>7. ip \in Service!Promised /\ Access[ip]
        BY <1>5, <2>1, PromisedFacts, AccessFacts
    <2>8. pc' = "ready"
        BY <1>1, <1>9 DEF FW!Extend
    <2>9. Owed' = Owed \ {ip}
        BY <1>1, <1>3, <2>8, OwedFacts
    <2>10. Service!Prolong(ip)
        BY <1>3, <1>4, <2>6, <2>7, <2>9 DEF Service!Prolong
    <2> QED
        BY <1>2, <2>10
<1>10. CASE FW!Reserve(ip)
    <2>1. /\ slot' \in Slots \ FW!Active
          /\ grants'[slot'].ip = ip
          /\ grants'[slot'].expires_at = now + ACCESS_TIMEOUT
          /\ \A j \in Slots \ {slot'} : grants'[j] = grants[j]
          /\ FW!Active' = FW!Active \cup {slot'}
        BY <1>1, <1>2, <1>10, ReserveEffect
    <2>2. pc' = "insert" /\ \A i \in FW!Active : grants[i].ip # ip
        BY <1>10 DEF FW!Reserve, FW!GrantsOf
    <2>3. ip \notin Service!Promised
        BY <1>8, <2>2
    <2>4. grants'[slot'].active /\ ~grants[slot'].active
        BY <2>1, ActiveFacts
    <2>5. \A j \in Slots : grants'[j].active /\ grants'[j].ip = grants'[slot'].ip => j = slot'
        BY <2>1, <2>2, ActiveFacts
    <2>6. DeadlineIn(grants', ip) = now + ACCESS_TIMEOUT
        BY <2>1, <2>4, <2>5, SoleDeadline
    <2>7. \A a \in IPs \ {ip} : DeadlineIn(grants', a) = DeadlineIn(grants, a)
        BY <2>1, <2>4, SameDeadline
    <2>8. Until' = [Until EXCEPT ![ip] = now + ACCESS_TIMEOUT]
        BY <1>6, <2>6, <2>7
    <2>9. Owed' = Owed
        BY <1>1, <1>2, <1>3, <2>1, <2>2, OwedFacts
    <2>10. Cardinality(Service!Promised) < MAX_CLIENTS
        <3>1. IsFiniteSet(Slots) /\ Cardinality(Slots) = MAX_CLIENTS
            BY FS_Interval, LimitAssumption DEF Slots
        <3>2. IsFiniteSet(Slots \ {slot'}) /\ Cardinality(Slots \ {slot'}) = MAX_CLIENTS - 1
            BY <2>1, <3>1, FS_RemoveElement
        <3>3. FW!Active \in SUBSET (Slots \ {slot'})
            BY <2>1, ActiveFacts
        <3>4. Cardinality(FW!Active) <= MAX_CLIENTS - 1 /\ Cardinality(FW!Active) \in Nat
            BY <3>2, <3>3, FS_Subset, FS_CardinalityType
        <3> QED
            BY <3>4, PromisedCount, LimitAssumption
    <2>11. Service!Promise(ip)
        BY <1>3, <1>4, <2>3, <2>8, <2>9, <2>10, SameCardinality DEF Service!Promise
    <2> QED
        BY <1>2, <2>11
<1>11. CASE FW!RefuseGrant(ip)
    <2>1. /\ UNCHANGED <<grants, pc>>
          /\ FW!Active = Slots
          /\ \A i \in FW!Active : grants[i].ip # ip
        BY <1>11, SameSlots DEF FW!RefuseGrant, FW!GrantsOf
    <2>2. ~Access[ip]
        BY <1>8, <2>1
    <2>3. Until' = Until
        BY <1>6, <2>1
    <2>4. Owed' = Owed \ {ip}
        BY <1>1, <1>3, <2>1, OwedFacts
    <2>5. Cardinality(Service!Promised) >= MAX_CLIENTS
        <3>1. Cardinality(Slots) = MAX_CLIENTS
            BY FS_Interval, LimitAssumption DEF Slots
        <3> QED
            BY <2>1, <3>1, PromisedCount, LimitAssumption
    <2>6. Service!TurnAway(ip)
        BY <1>3, <1>4, <2>2, <2>3, <2>4, <2>5, SameCardinality DEF Service!TurnAway
    <2> QED
        BY <1>2, <2>6
<1> QED
    BY <1>1, <1>9, <1>10, <1>11

LEMMA ExpireImplements ==
    ASSUME SystemInv, SystemInv', Expire
    PROVE  \E A \in SUBSET IPs : Service!Withdraw(A)
<1> DEFINE A == {grants[i].ip : i \in FW!Batch}
<1>1. /\ STypeOK /\ main = "tick" /\ main' = "sweep" /\ pc = "ready"
      /\ FW!Revoke(FW!Batch)
      /\ UNCHANGED <<clients, now, table>>
    BY DEF Expire, FW!firewall_tick, SystemInv
<1>2. /\ \A j \in Slots : grants'[j].ip = grants[j].ip
      /\ \A j \in Slots \ FW!Batch : grants'[j] = grants[j]
      /\ FW!Active' = FW!Active \ FW!Batch
    BY <1>1, BatchIsActive, RevokeEffect
<1>3. FW!Batch \subseteq FW!Active /\ FW!Active \subseteq Slots
    BY BatchIsActive, ActiveFacts
<1>4. Booked = FW!Active /\ Pending = {}
    BY <1>1 DEF SystemInv, Phases, Booked, Pending
<1>5. /\ \A i \in FW!Active : grants[i].ip \in IPs
      /\ \A i, j \in FW!Active : grants[i].ip = grants[j].ip => i = j
    BY <1>4 DEF SystemInv, Books
<1>6. A \in SUBSET IPs
    BY <1>3, <1>5
<1>7. UNCHANGED Service!pvars /\ Access' = Access
    BY <1>1, KnocksUntouched DEF Access
<1>8. pc' \in {"ready", "delete"}
    BY <1>1 DEF FW!Revoke
<1>9. Owed' = Owed
    BY <1>1, <1>8, OwedFacts
<1>10. ASSUME NEW a \in A
       PROVE  a \in Service!Promised /\ Access[a] /\ now >= Until[a]
    <2>1. PICK i \in FW!Batch : a = grants[i].ip
        OBVIOUS
    <2>2. i \in FW!Active /\ now >= grants[i].expires_at
        BY DEF FW!Batch, FW!Due
    <2> QED
        BY <1>4, <2>1, <2>2, PromisedFacts, AccessFacts
<1>11. ASSUME NEW a \in IPs
       PROVE  DeadlineIn(grants', a) = IF a \in A THEN 0 ELSE DeadlineIn(grants, a)
    <2>1. CASE a \in A
        <3>1. \A j \in Slots : ~(grants'[j].active /\ grants'[j].ip = a)
            BY <1>2, <1>3, <1>5, <2>1, ActiveFacts
        <3> QED
            BY <2>1, <3>1, NoDeadline
    <2>2. CASE a \notin A
        <3>1. \A j \in Slots : grants[j].ip = a \/ grants'[j].ip = a => grants'[j] = grants[j]
            BY <1>2, <2>2
        <3>2. DeadlineIn(grants', a) = DeadlineIn(grants, a)
            BY <3>1, SameDeadline
        <3> QED
            BY <2>2, <3>2
    <2> QED
        BY <2>1, <2>2
<1>12. Until' = [a \in IPs |-> IF a \in A THEN 0 ELSE Until[a]]
    BY <1>11, UntilIsRead
<1>13. Service!Withdraw(A)
    BY <1>7, <1>9, <1>10, <1>12 DEF Service!Withdraw
<1> QED
    BY <1>6, <1>13

LEMMA InsertRuleImplements ==
    ASSUME SystemInv, SystemInv', FW!InsertRule, UNCHANGED <<clients, loop>>
    PROVE  \E ip \in IPs : Service!Open(ip)
<1> DEFINE ip == grants[slot].ip
<1>1. /\ slot \in FW!Active /\ ip \in IPs
      /\ table'.rules = [table.rules EXCEPT ![ip] = @ + 1]
      /\ grants' = grants
    BY InsertRuleEffect
<1>2. STypeOK /\ pc = "insert" /\ pc' = "ready" /\ now' = now /\ main = "pop" /\ main' = main
    BY DEF FW!InsertRule, SystemInv, Phases, loop
<1>3. Owed = {ip} /\ Owed' = {}
    BY <1>1, <1>2, OwedFacts
<1>4. UNCHANGED Service!pvars /\ Until' = Until
    BY <1>1, <1>2, KnocksUntouched, UntilIsRead
<1>5. ip \in Service!Promised
    BY <1>1, PromisedFacts
<1>6. expired = {} /\ Booked = FW!Active /\ Pending = {slot}
    BY <1>2 DEF SystemInv, Phases, Booked, Pending
<1>7. \A i \in Booked \ Pending : grants[i].ip # ip
    BY <1>1, <1>6 DEF SystemInv, Books
<1>8. ~Access[ip]
    BY <1>1, <1>7, AccessFacts
<1>9. Access' = [Access EXCEPT ![ip] = TRUE]
    <2>1. table.rules \in [IPs -> Nat]
        BY <1>2, TypeFacts DEF FW!Tables
    <2>2. table'.rules[ip] # 0 /\ \A a \in IPs \ {ip} : table'.rules[a] = table.rules[a]
        BY <1>1, <2>1
    <2> QED
        BY <1>1, <2>2, AccessChanges DEF Access
<1>10. Service!Open(ip)
    BY <1>3, <1>4, <1>5, <1>8, <1>9 DEF Service!Open
<1> QED
    BY <1>1, <1>10

LEMMA DeleteRuleImplements ==
    ASSUME SystemInv, SystemInv', FW!DeleteRule, UNCHANGED <<clients, loop>>
    PROVE  \E ip \in IPs : Service!Close(ip)
<1>1. PICK i \in expired :
         /\ grants[i].ip \in IPs
         /\ table.rules[grants[i].ip] = 1
         /\ table'.rules = [table.rules EXCEPT ![grants[i].ip] = @ - 1]
    BY DeleteRuleEffect
<1> DEFINE ip == grants[i].ip
<1>2. /\ STypeOK /\ pc = "delete" /\ pc' \in {"ready", "delete"}
      /\ main = "sweep" /\ main' = main /\ UNCHANGED <<grants, now>>
    BY DEF FW!DeleteRule, SystemInv, Phases, loop
<1>3. Owed' = Owed
    BY <1>2, OwedFacts
<1>4. UNCHANGED Service!pvars /\ Until' = Until
    BY <1>2, KnocksUntouched, UntilIsRead
<1>5. Pending = {} /\ i \in Booked /\ i \notin FW!Active
    BY <1>1, <1>2 DEF SystemInv, Books, Booked, Pending
<1>6. \A j \in FW!Active : grants[j].ip # ip
    BY <1>5 DEF SystemInv, Books, Booked
<1>7. ip \notin Service!Promised /\ Access[ip]
    BY <1>5, <1>6, PromisedFacts, AccessFacts
<1>8. Access' = [Access EXCEPT ![ip] = FALSE]
    <2>1. table.rules \in [IPs -> Nat]
        BY <1>2, TypeFacts DEF FW!Tables
    <2>2. table'.rules[ip] = 0 /\ \A a \in IPs \ {ip} : table'.rules[a] = table.rules[a]
        BY <1>1, <2>1
    <2> QED
        BY <1>1, <2>2, AccessChanges DEF Access
<1>9. Service!Close(ip)
    BY <1>3, <1>4, <1>7, <1>8 DEF Service!Close
<1> QED
    BY <1>1, <1>9

LEMMA SystemStepImplements ==
    ASSUME SystemInv, SystemInv', [SNext]_svars
    PROVE  [Service!ANext]_<<Service!pvars, Service!avars>>
<1>1. ASSUME UNCHANGED <<vars, firewall>>, Owed' = Owed
      PROVE  UNCHANGED <<Service!pvars, Service!avars>>
    BY <1>1, KnocksUntouched, AnswersUntouched DEF vars, Service!avars
<1>2. CASE \E e \in Events : Capture(e)
    BY <1>1, <1>2 DEF Capture, firewall, Owed
<1>3. CASE TakeEvent
    <2>1. /\ STypeOK /\ main # "open" /\ main' # "open"
          /\ pc = "ready" /\ pc' = "ready" /\ UNCHANGED <<vars, firewall>>
        BY <1>3 DEF TakeEvent, SystemInv, firewall
    <2> QED
        BY <1>1, <2>1, OwedFacts
<1>4. CASE Process
    BY <1>4, ProcessImplements DEF Service!ANext
<1>5. CASE OpenAccess
    BY <1>5, OpenAccessImplements DEF Service!ANext
<1>6. CASE Iptables
    BY <1>6, InsertRuleImplements, DeleteRuleImplements DEF Iptables, Service!ANext
<1>7. CASE Expire
    BY <1>7, ExpireImplements DEF Service!ANext
<1>8. CASE Sweep
    <2>1. /\ STypeOK /\ main # "open" /\ main' # "open"
          /\ pc = "ready" /\ pc' = "ready" /\ UNCHANGED firewall /\ [Next]_vars
        BY <1>8 DEF Sweep, SystemInv, firewall, Next, Housekeeping
    <2>2. Owed' = Owed
        BY <2>1, OwedFacts
    <2> QED
        BY <2>1, <2>2, AnswersUntouched, KnockingStep DEF Service!ANext
<1>9. CASE Clock
    <2>1. UNCHANGED <<main, evt, firewall>> /\ [Next]_vars
        BY <1>9 DEF Clock, loop, Next, Housekeeping
    <2>2. Owed' = Owed
        BY <2>1 DEF firewall, Owed
    <2> QED
        BY <2>1, <2>2, AnswersUntouched, KnockingStep DEF Service!ANext
<1>10. CASE UNCHANGED svars
    BY <1>1, <1>10 DEF svars, loop, firewall, Owed
<1> QED
    BY <1>2, <1>3, <1>4, <1>5, <1>6, <1>7, <1>8, <1>9, <1>10 DEF SNext

LEMMA SystemInitImplements == SInit => Service!AInit
<1> SUFFICES ASSUME SInit PROVE Service!AInit
    OBVIOUS
<1>1. Service!PInit
    BY InitImplements DEF SInit, Abstract!PInit, Service!PInit, Abstract!Idle, Service!Idle
<1>2. Owed = {}
    BY DEF SInit, Owed
<1>3. Until = [ip \in IPs |-> 0]
    <2>1. \A j \in Slots : grants[j].active = FALSE
        BY SameSlots DEF SInit, FW!NoGrants
    <2>2. \A ip \in IPs : DeadlineIn(grants, ip) = 0
        BY <2>1, NoDeadline
    <2> QED
        BY <2>2, UntilIsRead
<1>4. Access = [ip \in IPs |-> FALSE]
    <2>1. table.rules = [ip \in IPs |-> 0]
        BY DEF SInit, FW!EmptyTable, FW!NoRules
    <2>2. \A ip \in IPs : table.rules[ip] = 0
        BY <2>1
    <2> QED
        BY <2>2, Zenon DEF Access
<1> QED
    BY <1>1, <1>2, <1>3, <1>4 DEF Service!AInit

(* The daemon implements the service, for every number of addresses, table   *)
(* size, sequence, window, timeout, batch size, queue capacity and clock:    *)
(* through the queue, both tables and slow iptables invocations, access is   *)
(* opened only for an address that went through the whole sequence, with a   *)
(* deadline ACCESS_TIMEOUT after the firewall was told, refused only when    *)
(* MAX_CLIENTS addresses have it, and taken away only at its own deadline.   *)
THEOREM SystemImplementsService == SSpec => ImplementsAccessService
<1>1. SystemInv /\ SystemInv' /\ [SNext]_svars
         => [Service!ANext]_<<Service!pvars, Service!avars>>
    BY SystemStepImplements
<1> QED
    BY InitSystem, SystemInitImplements, SystemInductive, <1>1, PTL
    DEF SSpec, ImplementsAccessService, Service!ASpec

=============================================================================
