---------------------------- MODULE FirewallProofs ---------------------------
(***************************************************************************)
(* Theorems about the rule manager, for every grant table, set of addresses *)
(* and timeout, with iptables failing and the daemon killed anywhere: the   *)
(* chain agrees with the table, the operator's jump survives, a stopped     *)
(* daemon leaves nobody in, and no access ends before its time.             *)
(***************************************************************************)
EXTENDS Firewall, FiniteSetTheorems, WellFoundedInduction, TLAPS

-----------------------------------------------------------------------------
(* What each iptables command may leave behind, whatever is reported. *)

LEMMA Outcome ==
  ASSUME NEW cmd, NEW ip, NEW t, NEW r \in run_iptables(cmd, ip, t)
  PROVE  /\ r.ok \in BOOLEAN
         /\ \/ Applies(cmd, ip, t) /\ r.table = Effect(cmd, ip, t)
            \/ r.table = t /\ ~r.ok
  BY Zenon DEF run_iptables

LEMMA RunNewChain ==
  ASSUME NEW t \in Tables, NEW r \in run_iptables("-N", NoIP, t)
  PROVE  /\ r.table \in Tables
         /\ r.table.rules = t.rules /\ r.table.jumps = t.jumps
  <1>0. \/ Applies("-N", NoIP, t) /\ r.table = Effect("-N", NoIP, t)
        \/ r.table = t /\ ~r.ok
    BY Outcome
  <1>1. Effect("-N", NoIP, t) = [t EXCEPT !.chain = TRUE]
    BY DEF Effect
  <1> QED BY <1>1, <1>0 DEF Tables

LEMMA RunFlush ==
  ASSUME NEW t \in Tables, NEW r \in run_iptables("-F", NoIP, t)
  PROVE  /\ r.table \in Tables /\ r.table.jumps = t.jumps
         /\ \/ r.table.rules = NoRules
            \/ r.table.rules = t.rules /\ ~r.ok
  <1>0. \/ Applies("-F", NoIP, t) /\ r.table = Effect("-F", NoIP, t)
        \/ r.table = t /\ ~r.ok
    BY Outcome
  <1>1. Effect("-F", NoIP, t) = [t EXCEPT !.rules = NoRules]
    BY DEF Effect
  <1>2. NoRules \in [IPs -> Nat]
    BY DEF NoRules
  <1> QED BY <1>1, <1>2, <1>0 DEF Tables

LEMMA RunCheckJump ==
  ASSUME NEW t \in Tables, NEW r \in run_iptables("-C_INPUT", NoIP, t)
  PROVE  r.table = t
  <1>0. \/ Applies("-C_INPUT", NoIP, t) /\ r.table = Effect("-C_INPUT", NoIP, t)
        \/ r.table = t /\ ~r.ok
    BY Outcome
  <1>1. Effect("-C_INPUT", NoIP, t) = t
    BY DEF Effect
  <1> QED BY <1>1, <1>0

LEMMA RunAddJump ==
  ASSUME NEW t \in Tables, NEW r \in run_iptables("-I_INPUT", NoIP, t)
  PROVE  /\ r.table \in Tables /\ r.table.rules = t.rules
         /\ \/ r.table.jumps = t.jumps + 1
            \/ r.table.jumps = t.jumps /\ ~r.ok
  <1>0. \/ Applies("-I_INPUT", NoIP, t) /\ r.table = Effect("-I_INPUT", NoIP, t)
        \/ r.table = t /\ ~r.ok
    BY Outcome
  <1>1. Effect("-I_INPUT", NoIP, t) = [t EXCEPT !.jumps = @ + 1]
    BY DEF Effect
  <1> QED BY <1>1, <1>0 DEF Tables

LEMMA RunInsert ==
  ASSUME NEW t \in Tables, NEW ip \in IPs, NEW r \in run_iptables("-I", ip, t)
  PROVE  /\ r.table \in Tables /\ r.table.jumps = t.jumps
         /\ \/ r.table.rules = [t.rules EXCEPT ![ip] = @ + 1]
            \/ r.table.rules = t.rules /\ ~r.ok
  <1>0. \/ Applies("-I", ip, t) /\ r.table = Effect("-I", ip, t)
        \/ r.table = t /\ ~r.ok
    BY Outcome
  <1>1. Effect("-I", ip, t) = [t EXCEPT !.rules[ip] = @ + 1]
    BY DEF Effect
  <1> QED BY <1>1, <1>0 DEF Tables

LEMMA RunDelete ==
  ASSUME NEW t \in Tables, NEW ip \in IPs, NEW r \in run_iptables("-D", ip, t)
  PROVE  /\ r.table \in Tables /\ r.table.jumps = t.jumps
         /\ \/ /\ t.rules[ip] > 0
               /\ r.table.rules = [t.rules EXCEPT ![ip] = @ - 1]
            \/ r.table.rules = t.rules /\ ~r.ok
  <1>0. \/ Applies("-D", ip, t) /\ r.table = Effect("-D", ip, t)
        \/ r.table = t /\ ~r.ok
    BY Outcome
  <1>1. Effect("-D", ip, t) = [t EXCEPT !.rules[ip] = @ - 1]
    BY DEF Effect
  <1>2. Applies("-D", ip, t) => t.rules[ip] > 0
    BY DEF Applies
  <1> QED BY <1>1, <1>2, <1>0 DEF Tables

LEMMA RunUnhook ==
  ASSUME NEW t \in Tables, NEW r \in run_iptables("-D_INPUT", NoIP, t)
  PROVE  /\ r.table \in Tables /\ r.table.rules = t.rules
         /\ \/ t.jumps > 0 /\ r.table.jumps = t.jumps - 1
            \/ r.table.jumps = t.jumps /\ ~r.ok
  <1>0. \/ Applies("-D_INPUT", NoIP, t) /\ r.table = Effect("-D_INPUT", NoIP, t)
        \/ r.table = t /\ ~r.ok
    BY Outcome
  <1>1. Effect("-D_INPUT", NoIP, t) = [t EXCEPT !.jumps = @ - 1]
    BY DEF Effect
  <1>2. Applies("-D_INPUT", NoIP, t) => t.jumps > 0
    BY DEF Applies
  <1> QED BY <1>1, <1>2, <1>0 DEF Tables

LEMMA RunDeleteChain ==
  ASSUME NEW t \in Tables, NEW r \in run_iptables("-X", NoIP, t)
  PROVE  /\ r.table \in Tables
         /\ r.table.rules = t.rules /\ r.table.jumps = t.jumps
  <1>0. \/ Applies("-X", NoIP, t) /\ r.table = Effect("-X", NoIP, t)
        \/ r.table = t /\ ~r.ok
    BY Outcome
  <1>1. Effect("-X", NoIP, t) = [t EXCEPT !.chain = FALSE]
    BY DEF Effect
  <1> QED BY <1>1, <1>0 DEF Tables

-----------------------------------------------------------------------------
(* Slots: the first of some slots exists, because slots are numbers. *)
LEMMA FirstIsOne ==
  ASSUME NEW S \in SUBSET Slots, S # {}
  PROVE  FirstOf(S) \in S
  <1>1. S \subseteq Nat
    BY GrantAssumption DEF Slots
  <1>2. PICK x \in S : \A y \in S : ~(<<y, x>> \in OpToRel(<, Nat))
    BY <1>1, WFMin, NatLessThanWellFounded, Zenon
  <1>3. \A y \in S : ~(y < x)
    BY <1>1, <1>2 DEF OpToRel
  <1>4. \A y \in S : x <= y
    BY <1>1, <1>3
  <1> QED BY <1>4 DEF FirstOf

LEMMA SlotsExist == 0 \in Slots /\ Slots \subseteq Nat
  BY GrantAssumption DEF Slots

-----------------------------------------------------------------------------
(* The inductive invariant.                                                  *)

InService == pc \in {"ready", "insert", "delete"}

(* The grants whose rules the chain should hold or still holds: the one that *)
(* is being inserted is in the table and not in the chain yet, those being   *)
(* expired are out of the table and still in the chain.                      *)
Booked == Active \cup expired
Inserting == IF pc = "insert" THEN {slot} ELSE {}
Owed(ip) == IF \E i \in Booked \ Inserting : grants[i].ip = ip THEN 1 ELSE 0

(* Where the calls are. *)
Calls ==
    /\ expired # {} <=> pc = "delete"
    /\ pc \in Starting => Active = {}
    /\ pc = "insert" => slot \in Active /\ table.rules[grants[slot].ip] < MaxRules
    /\ \A ip \in IPs : table.rules[ip] <= MaxRules

(* No address is booked twice, and the chain holds what is owed to it and    *)
(* no more than one rule beyond for each failure in the log.                 *)
Books ==
    /\ pc \in {"check_jump", "add_jump"} =>
          \A ip \in IPs : table.rules[ip] = 0 /\ logged[ip] = 0
    /\ InService =>
          /\ Active \cap expired = {}
          /\ \A i \in Booked : grants[i].ip \in IPs
          /\ \A i, j \in Booked : grants[i].ip = grants[j].ip => i = j
          /\ \A ip \in IPs : table.rules[ip] \in Owed(ip)..Owed(ip) + logged[ip]

(* A jump that knockd added comes on top of the operator's. *)
Jumps ==
    /\ pc \in Starting => ~g_added_jump
    /\ pc = "unhook" => g_added_jump
    /\ operatorJump => table.jumps >= 1
    /\ operatorJump /\ g_added_jump /\ (InService \/ pc \in {"flush", "unhook"})
          => table.jumps >= 2

(* From a flush until the first grant, and from the flush of the shutdown    *)
(* on, the chain is empty, or the log tells that it could not be flushed.    *)
Closed ==
    /\ pc \in {"check_jump", "add_jump"} => table.rules = NoRules
    /\ pc \in {"unhook", "del", "stopped", "failed"} =>
          warned \/ table.rules = NoRules

(* A promise that still runs has a grant that lasts as long. *)
PromisesKept ==
    InService \/ pc \in Starting =>
        \A ip \in IPs :
            \/ promised[ip] <= now
            \/ \E i \in Active \ Inserting :
                  grants[i].ip = ip /\ promised[ip] <= grants[i].expires_at

FInv == FTypeOK /\ Calls /\ Books /\ Jumps /\ Closed /\ PromisesKept

LEMMA FirewallInit == FInit => FInv
  <1> SUFFICES ASSUME FInit PROVE FInv
    OBVIOUS
  <1>1. table \in Tables /\ table.rules = NoRules /\ (operatorJump => table.jumps = 1)
    BY DEF FInit, Tables, EmptyTable, NoRules
  <1>2. grants \in [Slots -> Grant] /\ Active = {}
    BY DEF FInit, NoGrants, Grant, Active
  <1>3. FTypeOK
    <2>1. g_added_jump \in BOOLEAN /\ operatorJump \in BOOLEAN /\ warned \in BOOLEAN
      BY Zenon DEF FInit
    <2>2. /\ slot \in Slots /\ expired \in SUBSET Slots /\ now \in Nat /\ runs \in Nat
          /\ promised \in [IPs -> Nat] /\ logged \in [IPs -> 0..MaxRules]
      BY SlotsExist, FirewallBounds DEF FInit
    <2> QED
      BY <1>1, <1>2, <2>1, <2>2 DEF FInit, FTypeOK, Down
  <1>4. Calls
    BY <1>1, <1>2, FirewallBounds DEF FInit, Calls, Starting, NoRules
  <1>5. Books /\ Closed /\ PromisesKept
    BY DEF FInit, Books, Closed, PromisesKept, InService, Starting
  <1>6. Jumps
    BY <1>1 DEF FInit, Jumps, InService, Starting
  <1> QED BY <1>3, <1>4, <1>5, <1>6 DEF FInv

-----------------------------------------------------------------------------
(* The next-state relation, one action at a time. *)
LEMMA FirewallSteps ==
  ASSUME FNext
  PROVE  \/ firewall_init \/ NewChain \/ FlushChain \/ CheckJump \/ AddJump
         \/ \E ip \in IPs : firewall_open(ip)
         \/ \E ip \in IPs : firewall_close(ip)
         \/ InsertRule \/ firewall_tick \/ DeleteRule
         \/ firewall_shutdown \/ FlushGrants \/ Unhook \/ DeleteChain
         \/ Crash \/ FTick
  BY Zenon DEF FNext

LEMMA InsertedAddress ==
  ASSUME FTypeOK, Calls, Books, pc = "insert"
  PROVE  grants[slot].ip \in IPs
  BY DEF Calls, Books, InService, Booked

LEMMA DeletedAddress ==
  ASSUME FTypeOK, Calls, Books, pc = "delete"
  PROVE  FirstOf(expired) \in expired /\ grants[FirstOf(expired)].ip \in IPs
  <1>1. FirstOf(expired) \in expired
    BY FirstIsOne DEF FTypeOK, Calls
  <1> QED BY <1>1 DEF Books, InService, Booked

LEMMA LogFailureType ==
  ASSUME FTypeOK, NEW ip \in IPs
  PROVE  /\ LogFailure(ip) \in [IPs -> 0..MaxRules]
         /\ \A a \in IPs : a # ip => LogFailure(ip)[a] = logged[a]
         /\ LogFailure(ip)[ip] = IF logged[ip] < MaxRules THEN logged[ip] + 1
                                 ELSE logged[ip]
  BY FirewallBounds DEF LogFailure, FTypeOK

LEMMA RevokeTypes ==
  ASSUME FTypeOK, NEW S \in SUBSET Slots, Revoke(S)
  PROVE  /\ grants' \in [Slots -> Grant] /\ expired' \in SUBSET Slots
         /\ Active' = Active \ S
         /\ \A i \in Slots : /\ grants'[i].ip = grants[i].ip
                             /\ grants'[i].expires_at = grants[i].expires_at
         /\ pc' \in {"ready", "delete"}
  BY DEF FTypeOK, Revoke, Grant, Active

LEMMA ToBeRevoked ==
  ASSUME FTypeOK
  PROVE  /\ Batch \in SUBSET Slots /\ Batch \subseteq Due /\ Due \subseteq Active
         /\ Active \subseteq Slots
         /\ \A ip \in IPs : GrantsOf(ip) # {} =>
              /\ find_grant(ip) \in GrantsOf(ip)
              /\ find_grant(ip) \in Slots
  <1>1. Batch \subseteq Due /\ Due \subseteq Active /\ Active \subseteq Slots
    BY DEF Batch, Due, Active
  <1>2. \A ip \in IPs : GrantsOf(ip) \in SUBSET Slots
    BY DEF GrantsOf, Active
  <1> QED BY <1>1, <1>2, FirstIsOne DEF find_grant

-----------------------------------------------------------------------------
LEMMA FirewallTypes ==
  ASSUME FTypeOK, Calls, Books, [FNext]_fvars
  PROVE  FTypeOK'
  <1>a. NoGrants \in [Slots -> Grant]
    BY DEF NoGrants, Grant
  <1>b. table \in Tables
    BY DEF FTypeOK
  <1>1. CASE firewall_init
    <2>1. g_added_jump' \in BOOLEAN /\ warned' \in BOOLEAN
      BY <1>1, Zenon DEF firewall_init
    <2>2. pc' \in Down \cup Starting /\ promised' \in [IPs -> Nat] /\ runs' \in Nat
      BY <1>1 DEF firewall_init, FTypeOK, Down, Starting
    <2> QED BY <1>1, <1>a, <2>1, <2>2 DEF firewall_init, FTypeOK, calling
  <1>2. CASE NewChain
    BY <1>2, <1>b, RunNewChain DEF NewChain, FTypeOK, calling, ghost, Starting
  <1>3. CASE FlushChain
    <2>1. PICK r \in run_iptables("-F", NoIP, table) :
             /\ table' = r.table
             /\ pc' = IF r.ok THEN "check_jump" ELSE "failed"
             /\ logged' = IF r.ok THEN [ip \in IPs |-> 0] ELSE logged
             /\ warned' = ~r.ok
      BY <1>3 DEF FlushChain
    <2>2. table' \in Tables
      BY <1>b, <2>1, RunFlush
    <2>4. warned' \in BOOLEAN
      BY <2>1, Zenon
    <2>3. logged' \in [IPs -> 0..MaxRules]
      BY <2>1, FirewallBounds DEF FTypeOK
    <2> QED
      BY <1>3, <2>1, <2>2, <2>3, <2>4 DEF FlushChain, FTypeOK, calling, Starting, Down
  <1>4. CASE CheckJump
    <2>1. table' = table /\ pc' \in {"ready", "add_jump"}
      BY <1>4, <1>b, RunCheckJump DEF CheckJump
    <2> QED BY <1>4, <2>1 DEF CheckJump, FTypeOK, calling, ghost, Starting
  <1>5. CASE AddJump
    <2>1. PICK r \in run_iptables("-I_INPUT", NoIP, table) :
             /\ table' = r.table
             /\ pc' = IF r.ok THEN "ready" ELSE "failed"
             /\ g_added_jump' = r.ok
      BY <1>5 DEF AddJump
    <2>2. g_added_jump' \in BOOLEAN
      BY <2>1, Outcome
    <2>3. table' \in Tables /\ pc' \in {"ready", "failed"}
      BY <1>b, <2>1, RunAddJump
    <2> QED BY <1>5, <2>2, <2>3 DEF AddJump, FTypeOK, calling, ghost, Down
  <1>6. ASSUME NEW ip \in IPs, firewall_open(ip) PROVE FTypeOK'
    <2>1. CASE Extend(ip)
      <3>1. Expiry \in Nat
        BY GrantAssumption DEF Expiry, FTypeOK
      <3>2. grants' \in [Slots -> Grant] /\ promised' \in [IPs -> Nat]
        BY <2>1, <3>1, ToBeRevoked DEF Extend, FTypeOK, Grant
      <3> QED BY <1>6, <2>1, <3>2 DEF firewall_open, Extend, FTypeOK, calling
    <2>2. CASE Reserve(ip)
      <3>1. Expiry \in Nat
        BY GrantAssumption DEF Expiry, FTypeOK
      <3>2. slot' \in Slots
        BY <2>2, FirstIsOne DEF Reserve, Active
      <3>3. grants' \in [Slots -> Grant]
        BY <2>2, <3>1, <3>2 DEF Reserve, FTypeOK, Grant
      <3> QED BY <1>6, <2>2, <3>2, <3>3 DEF firewall_open, Reserve, FTypeOK
    <2>3. CASE RefuseGrant(ip)
      BY <1>6, <2>3 DEF firewall_open, RefuseGrant, FTypeOK
    <2> QED BY <1>6, <2>1, <2>2, <2>3 DEF firewall_open
  <1>7. ASSUME NEW ip \in IPs, firewall_close(ip) PROVE FTypeOK'
    <2>1. PICK S \in SUBSET Slots : Revoke(S)
      BY <1>7, ToBeRevoked DEF firewall_close
    <2>2. promised' \in [IPs -> Nat]
      BY <1>7 DEF firewall_close, FTypeOK
    <2> QED BY <1>7, <2>1, <2>2, RevokeTypes DEF firewall_close, FTypeOK
  <1>8. CASE InsertRule
    <2>1. PICK r \in run_iptables("-I", grants[slot].ip, table) :
             /\ table' = r.table
             /\ IF r.ok
                THEN /\ promised' = [promised EXCEPT ![grants[slot].ip] =
                                        grants[slot].expires_at]
                     /\ UNCHANGED <<grants, logged>>
                ELSE /\ grants' = [grants EXCEPT ![slot].active = FALSE]
                     /\ logged' = LogFailure(grants[slot].ip)
                     /\ UNCHANGED promised
      BY <1>8 DEF InsertRule
    <2>2. grants[slot].ip \in IPs
      BY <1>8, InsertedAddress DEF InsertRule
    <2>3. table' \in Tables
      BY <1>b, <2>1, <2>2, RunInsert
    <2>4. promised' \in [IPs -> Nat]
      BY <2>1, <2>2 DEF FTypeOK, Grant
    <2>5. logged' \in [IPs -> 0..MaxRules]
      BY <2>1, <2>2, LogFailureType DEF FTypeOK
    <2>6. grants' \in [Slots -> Grant]
      <3>1. grants \in [Slots -> Grant] /\ slot \in Slots
        BY DEF FTypeOK
      <3>2. [grants[slot] EXCEPT !.active = FALSE] \in Grant
        BY <3>1 DEF Grant
      <3>3. grants' \in {grants, [grants EXCEPT ![slot].active = FALSE]}
        BY <2>1
      <3> QED BY <3>1, <3>2, <3>3
    <2> QED
      BY <1>8, <2>3, <2>4, <2>5, <2>6, SlotsExist DEF InsertRule, FTypeOK
  <1>9. CASE firewall_tick
    <2>1. Batch \in SUBSET Slots /\ Revoke(Batch)
      BY <1>9, ToBeRevoked DEF firewall_tick
    <2> QED BY <1>9, <2>1, RevokeTypes DEF firewall_tick, FTypeOK, ghost
  <1>10. CASE DeleteRule
    <2>1. PICK r \in run_iptables("-D", grants[FirstOf(expired)].ip, table) :
             /\ table' = r.table
             /\ logged' = IF r.ok THEN logged
                          ELSE LogFailure(grants[FirstOf(expired)].ip)
      BY <1>10 DEF DeleteRule
    <2>2. grants[FirstOf(expired)].ip \in IPs
      BY <1>10, DeletedAddress DEF DeleteRule
    <2>3. table' \in Tables
      BY <1>b, <2>1, <2>2, RunDelete
    <2>4. logged' \in [IPs -> 0..MaxRules]
      BY <2>1, <2>2, LogFailureType DEF FTypeOK
    <2>5. expired' \in SUBSET Slots /\ pc' \in {"ready", "delete"}
      BY <1>10 DEF DeleteRule, FTypeOK
    <2> QED BY <1>10, <2>3, <2>4, <2>5 DEF DeleteRule, FTypeOK
  <1>11. CASE firewall_shutdown
    BY <1>11 DEF firewall_shutdown, FTypeOK, calling, ghost, Stopping
  <1>12. CASE FlushGrants
    <2>1. PICK r \in run_iptables("-F", NoIP, table) :
             table' = r.table /\ warned' = ~r.ok
      BY <1>12 DEF FlushGrants
    <2>2. warned' \in BOOLEAN
      BY <2>1, Zenon
    <2>3. table' \in Tables
      BY <1>b, <2>1, RunFlush
    <2>4. pc' \in {"unhook", "stopped"} /\ grants' \in [Slots -> Grant]
      BY <1>12, <1>a DEF FlushGrants, Stop, FTypeOK
    <2> QED
      BY <1>12, <2>2, <2>3, <2>4 DEF FlushGrants, FTypeOK, calling, Stopping, Down
  <1>13. CASE Unhook
    <2>1. table' \in Tables
      BY <1>13, <1>b, RunUnhook DEF Unhook
    <2>2. pc' \in {"del", "stopped"} /\ grants' \in [Slots -> Grant]
      BY <1>13, <1>a DEF Unhook, Stop, FTypeOK
    <2> QED
      BY <1>13, <2>1, <2>2 DEF Unhook, FTypeOK, calling, ghost, Stopping, Down
  <1>14. CASE DeleteChain
    <2>1. table' \in Tables
      BY <1>14, <1>b, RunDeleteChain DEF DeleteChain
    <2> QED BY <1>14, <1>a, <2>1 DEF DeleteChain, Stop, FTypeOK, calling, ghost, Down
  <1>15. CASE Crash
    <2>1. g_added_jump' \in BOOLEAN
      BY <1>15, Zenon DEF Crash
    <2> QED BY <1>15, <1>a, <2>1, SlotsExist DEF Crash, FTypeOK, ghost, Down
  <1>16. CASE FTick
    BY <1>16 DEF FTick, FTypeOK, calling, ghost
  <1>17. CASE UNCHANGED fvars
    BY <1>17 DEF fvars, FTypeOK, calling, ghost
  <1> QED
    BY <1>1, <1>2, <1>3, <1>4, <1>5, <1>6, <1>7, <1>8, <1>9, <1>10, <1>11, <1>12,
       <1>13, <1>14, <1>15, <1>16, <1>17, FirewallSteps

-----------------------------------------------------------------------------
LEMMA JumpsKept ==
  ASSUME FTypeOK, Calls, Books, Jumps, [FNext]_fvars
  PROVE  Jumps'
  <1> USE DEF Jumps, InService, Starting
  <1>b. table \in Tables /\ table.jumps \in Nat
    BY DEF FTypeOK, Tables
  <1>1. CASE firewall_init
    BY <1>1 DEF firewall_init, Down
  <1>2. CASE NewChain
    <2>1. table'.jumps = table.jumps
      BY <1>2, <1>b, RunNewChain DEF NewChain
    <2> QED BY <1>2, <2>1 DEF NewChain, ghost
  <1>3. CASE FlushChain
    <2>1. table'.jumps = table.jumps /\ pc' \in {"check_jump", "failed"}
      BY <1>3, <1>b, RunFlush DEF FlushChain
    <2> QED BY <1>3, <2>1 DEF FlushChain
  <1>4. CASE CheckJump
    <2>1. table' = table /\ pc' \in {"ready", "add_jump"}
      BY <1>4, <1>b, RunCheckJump DEF CheckJump
    <2> QED BY <1>4, <2>1 DEF CheckJump, ghost
  <1>5. CASE AddJump
    <2>1. PICK r \in run_iptables("-I_INPUT", NoIP, table) :
             /\ table' = r.table
             /\ pc' = IF r.ok THEN "ready" ELSE "failed"
             /\ g_added_jump' = r.ok
      BY <1>5 DEF AddJump
    <2>2. \/ table'.jumps = table.jumps + 1
          \/ table'.jumps = table.jumps /\ ~g_added_jump'
      BY <1>b, <2>1, RunAddJump
    <2>3. pc' \in {"ready", "failed"} /\ operatorJump' = operatorJump
      BY <1>5, <2>1 DEF AddJump, ghost
    <2> QED BY <1>b, <2>2, <2>3
  <1>6. ASSUME NEW ip \in IPs, firewall_open(ip) PROVE Jumps'
    BY <1>6 DEF firewall_open, Extend, Reserve, RefuseGrant
  <1>7. ASSUME NEW ip \in IPs, firewall_close(ip) PROVE Jumps'
    BY <1>7 DEF firewall_close, Revoke
  <1>8. CASE InsertRule
    <2>1. table'.jumps = table.jumps
      <3>1. grants[slot].ip \in IPs
        BY <1>8, InsertedAddress DEF InsertRule
      <3>2. PICK r \in run_iptables("-I", grants[slot].ip, table) : table' = r.table
        BY <1>8 DEF InsertRule
      <3> QED BY <1>b, <3>1, <3>2, RunInsert
    <2> QED BY <1>8, <2>1 DEF InsertRule
  <1>9. CASE firewall_tick
    BY <1>9 DEF firewall_tick, Revoke, ghost
  <1>10. CASE DeleteRule
    <2>1. table'.jumps = table.jumps
      <3> DEFINE ip == grants[FirstOf(expired)].ip
      <3>1. ip \in IPs
        BY <1>10, DeletedAddress DEF DeleteRule
      <3>2. PICK r \in run_iptables("-D", ip, table) : table' = r.table
        BY <1>10 DEF DeleteRule
      <3> QED BY <1>b, <3>1, <3>2, RunDelete
    <2>2. pc' \in {"ready", "delete"}
      BY <1>10 DEF DeleteRule
    <2> QED BY <1>10, <2>1, <2>2 DEF DeleteRule
  <1>11. CASE firewall_shutdown
    BY <1>11 DEF firewall_shutdown, ghost
  <1>12. CASE FlushGrants
    <2>1. table'.jumps = table.jumps
      BY <1>12, <1>b, RunFlush DEF FlushGrants
    <2>2. pc' = IF g_added_jump THEN "unhook" ELSE "stopped"
      BY <1>12 DEF FlushGrants, Stop
    <2> QED BY <1>12, <2>1, <2>2 DEF FlushGrants
  <1>13. CASE Unhook
    <2>1. PICK r \in run_iptables("-D_INPUT", NoIP, table) :
             /\ table' = r.table
             /\ IF r.ok THEN pc' = "del" /\ UNCHANGED grants ELSE Stop
      BY <1>13 DEF Unhook
    <2>2. table'.jumps >= table.jumps - 1
      BY <1>b, <2>1, RunUnhook
    <2>3. pc' \in {"del", "stopped"}
      BY <2>1 DEF Stop
    <2>4. pc = "unhook" /\ g_added_jump' = g_added_jump /\ operatorJump' = operatorJump
      BY <1>13 DEF Unhook, ghost
    <2>5. table'.jumps \in Int
      BY <1>b, <2>1, RunUnhook
    <2>6. operatorJump => table.jumps >= 2
      BY <2>4
    <2> QED BY <1>b, <2>2, <2>3, <2>4, <2>5, <2>6
  <1>14. CASE DeleteChain
    <2>1. table'.jumps = table.jumps
      BY <1>14, <1>b, RunDeleteChain DEF DeleteChain
    <2> QED BY <1>14, <2>1 DEF DeleteChain, Stop, ghost
  <1>15. CASE Crash
    BY <1>15 DEF Crash, ghost
  <1>16. CASE FTick
    BY <1>16 DEF FTick, ghost
  <1>17. CASE UNCHANGED fvars
    BY <1>17 DEF fvars, ghost
  <1> QED
    BY <1>1, <1>2, <1>3, <1>4, <1>5, <1>6, <1>7, <1>8, <1>9, <1>10, <1>11, <1>12,
       <1>13, <1>14, <1>15, <1>16, <1>17, FirewallSteps

-----------------------------------------------------------------------------
LEMMA ClosedKept ==
  ASSUME FTypeOK, Closed, [FNext]_fvars
  PROVE  Closed'
  <1> USE DEF Closed
  <1>b. table \in Tables
    BY DEF FTypeOK
  <1>1. CASE firewall_init
    <2>1. pc' \in {"new_chain", "failed"} /\ (pc' = "failed" => warned')
      BY <1>1, Zenon DEF firewall_init
    <2> QED BY <2>1
  <1>a. CASE NewChain \/ Crash
    BY <1>a DEF NewChain, Crash
  <1>2. CASE FlushChain
    <2>1. PICK r \in run_iptables("-F", NoIP, table) :
             /\ table' = r.table
             /\ pc' = IF r.ok THEN "check_jump" ELSE "failed"
             /\ warned' = ~r.ok
      BY <1>2 DEF FlushChain
    <2>2. table'.rules = NoRules \/ ~r.ok
      BY <1>b, <2>1, RunFlush
    <2>3. CASE r.ok
      BY <2>1, <2>2, <2>3
    <2>4. CASE ~r.ok
      BY <2>1, <2>4
    <2> QED BY <2>3, <2>4
  <1>3. CASE CheckJump
    <2>1. table' = table /\ pc' \in {"ready", "add_jump"}
      BY <1>3, <1>b, RunCheckJump DEF CheckJump
    <2> QED BY <1>3, <2>1 DEF CheckJump
  <1>4. CASE AddJump
    <2>1. table'.rules = table.rules /\ pc' \in {"ready", "failed"}
      BY <1>4, <1>b, RunAddJump DEF AddJump
    <2> QED BY <1>4, <2>1 DEF AddJump
  <1>5. ASSUME NEW ip \in IPs, firewall_open(ip) \/ firewall_close(ip) PROVE Closed'
    BY <1>5 DEF firewall_open, Extend, Reserve, RefuseGrant, firewall_close, Revoke
  <1>6. CASE InsertRule \/ firewall_tick \/ DeleteRule \/ firewall_shutdown
    BY <1>6 DEF InsertRule, firewall_tick, Revoke, DeleteRule, firewall_shutdown
  <1>7. CASE FlushGrants
    <2>1. PICK r \in run_iptables("-F", NoIP, table) :
             table' = r.table /\ warned' = ~r.ok
      BY <1>7 DEF FlushGrants
    <2>2. pc' \in {"unhook", "stopped"}
      BY <1>7 DEF FlushGrants, Stop
    <2>3. warned' \/ table'.rules = NoRules
      BY <1>b, <2>1, RunFlush
    <2> QED BY <2>2, <2>3
  <1>8. CASE Unhook
    <2>1. table'.rules = table.rules
      BY <1>8, <1>b, RunUnhook DEF Unhook
    <2>2. pc' \in {"del", "stopped"}
      BY <1>8 DEF Unhook, Stop
    <2> QED BY <1>8, <2>1, <2>2 DEF Unhook, ghost
  <1>9. CASE DeleteChain
    <2>1. table'.rules = table.rules
      BY <1>9, <1>b, RunDeleteChain DEF DeleteChain
    <2> QED BY <1>9, <2>1 DEF DeleteChain, Stop, ghost
  <1>10. CASE FTick \/ UNCHANGED fvars
    BY <1>10 DEF FTick, fvars, ghost
  <1> QED
    BY <1>1, <1>a, <1>2, <1>3, <1>4, <1>5, <1>6, <1>7, <1>8, <1>9, <1>10,
       FirewallSteps

-----------------------------------------------------------------------------
(* What the calls do to the table, for the books and the promises. *)

(* The slots an Extend leaves as they are: all of them, but for a deadline. *)
LEMMA ExtendEffect ==
  ASSUME FTypeOK, NEW ip \in IPs, Extend(ip)
  PROVE  /\ Active' = Active /\ find_grant(ip) \in Active
         /\ grants[find_grant(ip)].ip = ip
         /\ \A i \in Slots : /\ grants'[i].ip = grants[i].ip
                             /\ grants'[i].expires_at =
                                   IF i = find_grant(ip) THEN Expiry
                                   ELSE grants[i].expires_at
  <1>1. find_grant(ip) \in GrantsOf(ip)
    BY ToBeRevoked DEF Extend
  <1>2. find_grant(ip) \in Active /\ grants[find_grant(ip)].ip = ip
    BY <1>1 DEF GrantsOf
  <1>3. grants' = [grants EXCEPT ![find_grant(ip)].expires_at = Expiry]
    BY DEF Extend
  <1> HIDE DEF find_grant
  <1>4. \A i \in Slots : /\ grants'[i].ip = grants[i].ip
                         /\ grants'[i].active = grants[i].active
                         /\ grants'[i].expires_at =
                               IF i = find_grant(ip) THEN Expiry
                               ELSE grants[i].expires_at
    BY <1>3 DEF FTypeOK, Grant
  <1>5. Active' = Active
    BY <1>4 DEF Active
  <1> QED BY <1>2, <1>4, <1>5

LEMMA ReserveEffect ==
  ASSUME FTypeOK, NEW ip \in IPs, Reserve(ip)
  PROVE  /\ slot' \in Slots /\ slot' \notin Active
         /\ Active' = Active \cup {slot'}
         /\ grants'[slot'].ip = ip
         /\ \A i \in Slots : i # slot' => grants'[i] = grants[i]
  <1>1. slot' \in Slots /\ slot' \notin Active
    BY FirstIsOne DEF Reserve, Active
  <1>2. grants' = [grants EXCEPT ![slot'] =
                     [ip |-> ip, expires_at |-> Expiry, active |-> TRUE]]
    BY DEF Reserve
  <1>3. /\ grants'[slot'].ip = ip /\ grants'[slot'].active
        /\ \A i \in Slots : i # slot' => grants'[i] = grants[i]
    BY <1>1, <1>2 DEF FTypeOK
  <1>4. Active' = Active \cup {slot'}
    BY <1>1, <1>3 DEF Active
  <1> QED BY <1>1, <1>3, <1>4

LEMMA InsertEffect ==
  ASSUME FTypeOK, Calls, Books, InsertRule,
         NEW ip, ip = grants[slot].ip
  PROVE  /\ pc = "insert" /\ pc' = "ready" /\ expired' = expired /\ now' = now
         /\ \/ /\ grants' = grants /\ Active' = Active /\ logged' = logged
               /\ table'.rules = [table.rules EXCEPT ![ip] = @ + 1]
               /\ promised' = [promised EXCEPT ![ip] = grants[slot].expires_at]
            \/ /\ Active' = Active \ {slot}
               /\ \A i \in Slots : i # slot => grants'[i] = grants[i]
               /\ \/ table'.rules = table.rules
                  \/ table'.rules = [table.rules EXCEPT ![ip] = @ + 1]
               /\ logged' = LogFailure(ip) /\ promised' = promised
  <1>1. PICK r \in run_iptables("-I", ip, table) :
           /\ table' = r.table
           /\ IF r.ok
              THEN /\ promised' = [promised EXCEPT ![ip] = grants[slot].expires_at]
                   /\ UNCHANGED <<grants, logged>>
              ELSE /\ grants' = [grants EXCEPT ![slot].active = FALSE]
                   /\ logged' = LogFailure(ip)
                   /\ UNCHANGED promised
    BY DEF InsertRule
  <1>2. \/ r.table.rules = [table.rules EXCEPT ![ip] = @ + 1]
        \/ r.table.rules = table.rules /\ ~r.ok
    <2>1. ip \in IPs
      BY InsertedAddress DEF InsertRule
    <2>2. table \in Tables
      BY DEF FTypeOK
    <2> QED BY <2>1, <2>2, RunInsert
  <1>3. pc = "insert" /\ pc' = "ready" /\ expired' = expired /\ now' = now
    BY DEF InsertRule
  <1>4. CASE r.ok
    <2>1. grants' = grants
      BY <1>1, <1>4
    <2>2. Active' = Active
      BY <2>1 DEF Active
    <2> QED BY <1>1, <1>2, <1>3, <1>4, <2>2
  <1>5. CASE ~r.ok
    <2>1. grants' = [grants EXCEPT ![slot].active = FALSE]
      BY <1>1, <1>5
    <2>2. /\ ~grants'[slot].active
          /\ \A i \in Slots : i # slot => grants'[i] = grants[i]
      BY <2>1 DEF FTypeOK, Grant
    <2>3. Active' = Active \ {slot}
      BY <2>2 DEF Active, FTypeOK
    <2> QED BY <1>1, <1>2, <1>3, <1>5, <2>2, <2>3
  <1> QED BY <1>4, <1>5

LEMMA DeleteEffect ==
  ASSUME FTypeOK, Calls, Books, DeleteRule,
         NEW i, i = FirstOf(expired), NEW ip, ip = grants[i].ip
  PROVE  /\ pc = "delete" /\ i \in expired /\ expired' = expired \ {i}
         /\ pc' = IF expired' = {} THEN "ready" ELSE "delete"
         /\ grants' = grants /\ Active' = Active /\ now' = now
         /\ promised' = promised
         /\ \/ /\ table.rules[ip] > 0
               /\ table'.rules = [table.rules EXCEPT ![ip] = @ - 1]
               /\ logged' \in {logged, LogFailure(ip)}
            \/ table'.rules = table.rules /\ logged' = LogFailure(ip)
  <1>1. PICK r \in run_iptables("-D", ip, table) :
           /\ table' = r.table
           /\ logged' = IF r.ok THEN logged ELSE LogFailure(ip)
    BY DEF DeleteRule
  <1>2. \/ /\ table.rules[ip] > 0
           /\ r.table.rules = [table.rules EXCEPT ![ip] = @ - 1]
        \/ r.table.rules = table.rules /\ ~r.ok
    <2>1. ip \in IPs
      BY DeletedAddress DEF DeleteRule
    <2>2. table \in Tables
      BY DEF FTypeOK
    <2> QED BY <2>1, <2>2, RunDelete
  <1>3. /\ pc = "delete" /\ expired' = expired \ {i} /\ grants' = grants
        /\ pc' = IF expired' = {} THEN "ready" ELSE "delete"
        /\ now' = now /\ promised' = promised
    BY DEF DeleteRule
  <1>4. i \in expired
    BY <1>3, DeletedAddress
  <1>5. Active' = Active
    BY <1>3 DEF Active
  <1> QED BY <1>1, <1>2, <1>3, <1>4, <1>5

-----------------------------------------------------------------------------
LEMMA CallsKept ==
  ASSUME FTypeOK, Calls, Books, [FNext]_fvars
  PROVE  Calls'
  <1> USE DEF Calls, Starting
  <1>a. table \in Tables /\ table.rules \in [IPs -> Nat] /\ MaxRules \in Nat
    BY FirewallBounds DEF FTypeOK, Tables
  <1>b. NoGrants' = NoGrants /\ (grants' = NoGrants => Active' = {})
    BY DEF NoGrants, Active
  <1>c. grants' = grants => Active' = Active
    BY DEF Active
  <1>1. CASE firewall_init
    BY <1>1, <1>b DEF firewall_init, Down, calling
  <1>2. CASE NewChain
    <2>1. table'.rules = table.rules
      BY <1>2, <1>a, RunNewChain DEF NewChain
    <2> QED BY <1>2, <1>c, <2>1 DEF NewChain, calling
  <1>3. CASE FlushChain
    <2>1. table'.rules \in {table.rules, NoRules} /\ pc' \in {"check_jump", "failed"}
      BY <1>3, <1>a, RunFlush DEF FlushChain
    <2>2. \A ip \in IPs : table'.rules[ip] <= MaxRules
      BY <1>a, <2>1 DEF NoRules
    <2> QED BY <1>3, <1>c, <2>1, <2>2 DEF FlushChain, calling
  <1>4. CASE CheckJump
    <2>1. table' = table /\ pc' \in {"ready", "add_jump"}
      BY <1>4, <1>a, RunCheckJump DEF CheckJump
    <2> QED BY <1>4, <1>c, <2>1 DEF CheckJump, calling
  <1>5. CASE AddJump
    <2>1. table'.rules = table.rules /\ pc' \in {"ready", "failed"}
      BY <1>5, <1>a, RunAddJump DEF AddJump
    <2> QED BY <1>5, <1>c, <2>1 DEF AddJump, calling
  <1>6. ASSUME NEW ip \in IPs, firewall_open(ip) PROVE Calls'
    <2>1. CASE Extend(ip) \/ RefuseGrant(ip)
      BY <1>6, <2>1 DEF firewall_open, Extend, RefuseGrant
    <2>2. CASE Reserve(ip)
      BY <1>6, <2>2, ReserveEffect DEF firewall_open, Reserve
    <2> QED BY <1>6, <2>1, <2>2 DEF firewall_open
  <1>7. ASSUME NEW ip \in IPs, firewall_close(ip) PROVE Calls'
    BY <1>7 DEF firewall_close, Revoke
  <1>8. CASE InsertRule
    <2> DEFINE ip == grants[slot].ip
    <2>1. ip \in IPs
      BY <1>8, InsertedAddress DEF InsertRule
    <2>2. \/ table'.rules = table.rules
          \/ table'.rules = [table.rules EXCEPT ![ip] = @ + 1]
      BY <1>8, InsertEffect
    <2>3. table.rules[ip] < MaxRules
      BY <1>8 DEF InsertRule
    <2>4. \A a \in IPs : table'.rules[a] <= MaxRules
      BY <1>a, <2>1, <2>2, <2>3
    <2> QED BY <1>8, <2>4 DEF InsertRule
  <1>9. CASE firewall_tick
    BY <1>9 DEF firewall_tick, Revoke
  <1>10. CASE DeleteRule
    <2> DEFINE ip == grants[FirstOf(expired)].ip
    <2>1. ip \in IPs
      BY <1>10, DeletedAddress DEF DeleteRule
    <2>2. \/ table'.rules = table.rules
          \/ table'.rules = [table.rules EXCEPT ![ip] = @ - 1]
      BY <1>10, DeleteEffect
    <2>3. \A a \in IPs : table'.rules[a] <= MaxRules
      BY <1>a, <2>1, <2>2
    <2>4. pc' = IF expired' = {} THEN "ready" ELSE "delete"
      BY <1>10 DEF DeleteRule
    <2> QED BY <2>3, <2>4
  <1>11. CASE firewall_shutdown
    BY <1>11 DEF firewall_shutdown, calling
  <1>12. CASE FlushGrants
    <2>1. table'.rules \in {table.rules, NoRules} /\ pc' \in {"unhook", "stopped"}
      BY <1>12, <1>a, RunFlush DEF FlushGrants, Stop
    <2>2. \A ip \in IPs : table'.rules[ip] <= MaxRules
      BY <1>a, <2>1 DEF NoRules
    <2> QED BY <1>12, <2>1, <2>2 DEF FlushGrants, calling
  <1>13. CASE Unhook
    <2>1. table'.rules = table.rules /\ pc' \in {"del", "stopped"}
      BY <1>13, <1>a, RunUnhook DEF Unhook, Stop
    <2> QED BY <1>13, <2>1 DEF Unhook, calling
  <1>14. CASE DeleteChain
    <2>1. table'.rules = table.rules
      BY <1>14, <1>a, RunDeleteChain DEF DeleteChain
    <2> QED BY <1>14, <2>1 DEF DeleteChain, Stop, calling
  <1>15. CASE Crash
    BY <1>15 DEF Crash
  <1>16. CASE FTick
    BY <1>16, <1>c DEF FTick, calling
  <1>17. CASE UNCHANGED fvars
    BY <1>17, <1>c DEF fvars, calling
  <1> QED
    BY <1>1, <1>2, <1>3, <1>4, <1>5, <1>6, <1>7, <1>8, <1>9, <1>10, <1>11, <1>12,
       <1>13, <1>14, <1>15, <1>16, <1>17, FirewallSteps

-----------------------------------------------------------------------------
(* The books: one step for each way the table, the chain or the log moves. *)

(* Nothing that the books are about has moved. *)
LEMMA BooksUnmoved ==
  ASSUME Books, grants' = grants, expired' = expired, slot' = slot, pc' = pc,
         table' = table, logged' = logged
  PROVE  Books'
  BY DEF Books, InService, Booked, Active, Owed, Inserting

(* The same slots are booked for the same addresses: enough, when the chain  *)
(* and the log stay and no rule is being inserted.                           *)
LEMMA BooksRearranged ==
  ASSUME FTypeOK, Books, pc = "ready", pc' \in {"ready", "delete"},
         Booked' = Booked, Booked \subseteq Slots, Active' \cap expired' = {},
         \A i \in Slots : grants'[i].ip = grants[i].ip,
         table' = table, logged' = logged
  PROVE  Books'
  <1>1. \A ip \in IPs : Owed(ip)' = Owed(ip)
    BY DEF Owed, Inserting
  <1> QED BY <1>1 DEF Books, InService

LEMMA BooksAfterStart ==
  ASSUME FTypeOK, Calls, Books, pc \in {"check_jump", "add_jump"}, pc' = "ready",
         grants' = grants, expired' = expired, logged' = logged,
         table'.rules = table.rules
  PROVE  Books'
  <1>1. Active' = {} /\ expired' = {}
    BY DEF Calls, Starting, Active
  <1>2. \A ip \in IPs : Owed(ip)' = 0
    BY <1>1 DEF Owed, Booked
  <1>3. \A ip \in IPs : table'.rules[ip] = 0 /\ logged'[ip] = 0
    BY DEF Books
  <1> QED BY <1>1, <1>2, <1>3 DEF Books, Booked

LEMMA BooksAfterReserve ==
  ASSUME FTypeOK, Calls, Books, NEW ip \in IPs, pc = "ready", Reserve(ip),
         expired' = expired, table' = table, logged' = logged
  PROVE  Books'
  <1>1. /\ expired = {} /\ expired' = {} /\ pc' = "insert"
        /\ Active \subseteq Slots
        /\ \A i \in Active : grants[i].ip # ip
    BY DEF Calls, Reserve, GrantsOf, Active
  <1>2. /\ slot' \notin Active /\ Active' = Active \cup {slot'}
        /\ grants'[slot'].ip = ip
        /\ \A i \in Active : grants'[i] = grants[i]
    BY <1>1, ReserveEffect
  <1>3. /\ \A i \in Active : grants[i].ip \in IPs
        /\ \A i, j \in Active : grants[i].ip = grants[j].ip => i = j
        /\ \A a \in IPs : table.rules[a] \in Owed(a)..Owed(a) + logged[a]
    BY DEF Books, InService, Booked
  <1>4. \A a \in IPs : Owed(a)' = Owed(a)
    BY <1>1, <1>2 DEF Owed, Booked, Inserting
  <1>5. /\ Active' \cap expired' = {} /\ Booked' = Active \cup {slot'}
    BY <1>1, <1>2 DEF Booked
  <1>6. \A i \in Booked' : grants'[i].ip \in IPs
    BY <1>2, <1>3, <1>5
  <1>7. \A i, j \in Booked' : grants'[i].ip = grants'[j].ip => i = j
    BY <1>1, <1>2, <1>3, <1>5
  <1> QED BY <1>1, <1>3, <1>4, <1>5, <1>6, <1>7 DEF Books

LEMMA BooksAfterInsert ==
  ASSUME FTypeOK, FTypeOK', Calls, Books, InsertRule
  PROVE  Books'
  <1> DEFINE ip == grants[slot].ip
  <1>0. ip \in IPs /\ slot \in Active /\ expired = {} /\ Active \subseteq Slots
    BY InsertedAddress DEF InsertRule, Calls, Active
  <1>1. /\ \A i \in Active : grants[i].ip \in IPs
        /\ \A i, j \in Active : grants[i].ip = grants[j].ip => i = j
        /\ \A a \in IPs : table.rules[a] \in Owed(a)..Owed(a) + logged[a]
    BY DEF Books, InService, Booked, InsertRule
  <1>2. /\ pc = "insert" /\ pc' = "ready" /\ expired' = {}
    BY <1>0 DEF InsertRule
  <1>3. Owed(ip) = 0 /\ table.rules[ip] \in 0..logged[ip]
    <2>1. Owed(ip) = 0
      BY <1>0, <1>1, <1>2 DEF Owed, Booked, Inserting
    <2>2. 0 + logged[ip] = logged[ip]
      BY <1>0 DEF FTypeOK
    <2> QED BY <1>0, <1>1, <2>1, <2>2
  <1>4. /\ table.rules \in [IPs -> Nat] /\ logged \in [IPs -> Nat]
        /\ table'.rules \in [IPs -> Nat] /\ table.rules[ip] < MaxRules
    BY <1>2, FirewallBounds DEF FTypeOK, Tables, Calls
  <1>5. CASE /\ grants' = grants /\ Active' = Active /\ logged' = logged
             /\ table'.rules = [table.rules EXCEPT ![ip] = @ + 1]
    <2>1. \A a \in IPs : Owed(a)' = IF a = ip THEN 1 ELSE Owed(a)
      BY <1>0, <1>1, <1>2, <1>5 DEF Owed, Booked, Inserting
    <2>2. \A a \in IPs : table'.rules[a] \in Owed(a)'..Owed(a)' + logged'[a]
      BY <1>0, <1>1, <1>3, <1>4, <1>5, <2>1
    <2> QED BY <1>1, <1>2, <1>5, <2>2 DEF Books, Booked
  <1>6. CASE /\ Active' = Active \ {slot}
             /\ \A i \in Slots : i # slot => grants'[i] = grants[i]
             /\ \/ table'.rules = table.rules
                \/ table'.rules = [table.rules EXCEPT ![ip] = @ + 1]
             /\ logged' = LogFailure(ip)
    <2>1. \A a \in IPs : Owed(a)' = Owed(a)
      BY <1>0, <1>1, <1>2, <1>6 DEF Owed, Booked, Inserting
    <2>2. /\ \A a \in IPs : a # ip => logged'[a] = logged[a]
          /\ logged'[ip] = IF logged[ip] < MaxRules THEN logged[ip] + 1 ELSE logged[ip]
      BY <1>0, <1>6, LogFailureType
    <2>3. table'.rules[ip] \in 0..logged'[ip]
      BY <1>0, <1>3, <1>4, <1>6, <2>2, FirewallBounds
    <2>4. \A a \in IPs : a # ip => table'.rules[a] = table.rules[a]
      BY <1>4, <1>6
    <2>5. \A a \in IPs : table'.rules[a] \in Owed(a)'..Owed(a)' + logged'[a]
      BY <1>0, <1>1, <1>3, <1>4, <2>1, <2>2, <2>3, <2>4
    <2>6. /\ \A i \in Active' : grants'[i].ip \in IPs
          /\ \A i, j \in Active' : grants'[i].ip = grants'[j].ip => i = j
      BY <1>0, <1>1, <1>6
    <2> QED BY <1>2, <2>5, <2>6 DEF Books, Booked
  <1> QED BY <1>5, <1>6, InsertEffect

LEMMA BooksAfterDelete ==
  ASSUME FTypeOK, FTypeOK', Calls, Books, DeleteRule
  PROVE  Books'
  <1>0. PICK d \in expired, ip \in IPs : d = FirstOf(expired) /\ ip = grants[d].ip
    BY DeletedAddress DEF DeleteRule
  <1>1. /\ Active \cap expired = {}
        /\ \A i \in Booked : grants[i].ip \in IPs
        /\ \A i, j \in Booked : grants[i].ip = grants[j].ip => i = j
        /\ \A a \in IPs : table.rules[a] \in Owed(a)..Owed(a) + logged[a]
    BY DEF Books, InService, DeleteRule
  <1>2. /\ pc = "delete" /\ expired' = expired \ {d} /\ grants' = grants
        /\ pc' \in {"ready", "delete"} /\ Active' = Active
    BY <1>0 DEF DeleteRule, Active
  <1>3. Booked' = Booked \ {d} /\ d \in Booked /\ Active' \cap expired' = {}
    BY <1>0, <1>1, <1>2 DEF Booked
  <1>4. /\ Owed(ip) = 1 /\ Owed(ip)' = 0
        /\ \A a \in IPs : a # ip => Owed(a)' = Owed(a)
    BY <1>0, <1>1, <1>2, <1>3 DEF Owed, Inserting
  <1>5. /\ table.rules \in [IPs -> Nat] /\ logged \in [IPs -> Nat]
        /\ table'.rules \in [IPs -> Nat] /\ logged' \in [IPs -> Nat]
        /\ table.rules[ip] <= MaxRules
    BY <1>0, FirewallBounds DEF FTypeOK, Tables, Calls
  <1>6. /\ \A a \in IPs : a # ip => LogFailure(ip)[a] = logged[a]
        /\ LogFailure(ip)[ip] = IF logged[ip] < MaxRules THEN logged[ip] + 1
                                ELSE logged[ip]
    BY <1>0, LogFailureType
  <1>7. \/ /\ table.rules[ip] > 0
           /\ table'.rules = [table.rules EXCEPT ![ip] = @ - 1]
           /\ logged' \in {logged, LogFailure(ip)}
        \/ table'.rules = table.rules /\ logged' = LogFailure(ip)
    BY <1>0, DeleteEffect
  <1>8. table'.rules[ip] \in 0..logged'[ip]
    BY <1>0, <1>1, <1>4, <1>5, <1>6, <1>7, FirewallBounds
  <1>9. \A a \in IPs : a # ip => table'.rules[a] = table.rules[a] /\ logged'[a] = logged[a]
    BY <1>5, <1>6, <1>7
  <1>10. \A a \in IPs : table'.rules[a] \in Owed(a)'..Owed(a)' + logged'[a]
    BY <1>0, <1>1, <1>4, <1>5, <1>8, <1>9
  <1> QED BY <1>1, <1>2, <1>3, <1>10 DEF Books

LEMMA BooksKept ==
  ASSUME FTypeOK, FTypeOK', Calls, Books, [FNext]_fvars
  PROVE  Books'
  <1>a. table \in Tables
    BY DEF FTypeOK
  <1>b. pc' \notin {"check_jump", "add_jump", "ready", "insert", "delete"} => Books'
    BY DEF Books, InService
  <1>c. pc = "ready" => expired = {} /\ Active \subseteq Slots
    BY DEF Calls, Active
  <1>1. CASE firewall_init \/ NewChain
    <2>1. pc' \in {"new_chain", "failed", "flush_chain"}
      BY <1>1 DEF firewall_init, NewChain
    <2> QED BY <1>b, <2>1
  <1>2. CASE FlushChain
    <2>1. PICK r \in run_iptables("-F", NoIP, table) :
             /\ table' = r.table
             /\ pc' = IF r.ok THEN "check_jump" ELSE "failed"
             /\ logged' = IF r.ok THEN [ip \in IPs |-> 0] ELSE logged
      BY <1>2 DEF FlushChain
    <2>2. CASE r.ok
      BY <1>a, <2>1, <2>2, RunFlush DEF Books, InService, NoRules
    <2>3. CASE ~r.ok
      BY <1>b, <2>1, <2>3
    <2> QED BY <2>2, <2>3
  <1>3. CASE CheckJump
    <2>1. table' = table /\ pc' \in {"ready", "add_jump"} /\ pc = "check_jump"
      BY <1>3, <1>a, RunCheckJump DEF CheckJump
    <2>2. CASE pc' = "ready"
      BY <1>3, <2>1, <2>2, BooksAfterStart DEF CheckJump, calling, ghost
    <2>3. CASE pc' = "add_jump"
      BY <1>3, <2>1, <2>3 DEF CheckJump, Books, InService, ghost
    <2> QED BY <2>1, <2>2, <2>3
  <1>4. CASE AddJump
    <2>1. table'.rules = table.rules /\ pc' \in {"ready", "failed"} /\ pc = "add_jump"
      BY <1>4, <1>a, RunAddJump DEF AddJump
    <2>2. CASE pc' = "ready"
      BY <1>4, <2>1, <2>2, BooksAfterStart DEF AddJump, calling, ghost
    <2> QED BY <1>b, <2>1, <2>2
  <1>5. ASSUME NEW ip \in IPs, firewall_open(ip) PROVE Books'
    <2>1. CASE Extend(ip)
      <3>1. Booked' = Booked /\ Booked \subseteq Slots /\ Active' \cap expired' = {}
        BY <1>5, <1>c, <2>1, ExtendEffect DEF firewall_open, Booked
      <3>2. \A i \in Slots : grants'[i].ip = grants[i].ip
        BY <2>1, ExtendEffect
      <3>3. pc = "ready" /\ pc' = "ready" /\ table' = table /\ logged' = logged
        BY <1>5, <2>1 DEF firewall_open, Extend
      <3> QED BY <3>1, <3>2, <3>3, BooksRearranged
    <2>2. CASE Reserve(ip)
      BY <1>5, <2>2, BooksAfterReserve DEF firewall_open
    <2>3. CASE RefuseGrant(ip)
      BY <1>5, <2>3, BooksUnmoved DEF firewall_open, RefuseGrant
    <2> QED BY <1>5, <2>1, <2>2, <2>3 DEF firewall_open
  <1>6. ASSUME NEW S \in SUBSET Active, Revoke(S), pc = "ready",
               table' = table, logged' = logged
        PROVE  Books'
    <2>1. S \in SUBSET Slots /\ expired = {} /\ expired' = S /\ Active \subseteq Slots
      BY <1>6, <1>c DEF Revoke
    <2>2. /\ Active' = Active \ S
          /\ \A i \in Slots : grants'[i].ip = grants[i].ip
          /\ pc' \in {"ready", "delete"}
      BY <1>6, <2>1, RevokeTypes
    <2>3. Booked' = Booked /\ Booked \subseteq Slots /\ Active' \cap expired' = {}
      BY <2>1, <2>2 DEF Booked
    <2> QED BY <1>6, <2>2, <2>3, BooksRearranged
  <1>7. ASSUME NEW ip \in IPs, firewall_close(ip) PROVE Books'
    <2>1. PICK S \in SUBSET Active : Revoke(S)
      BY <1>7, ToBeRevoked DEF firewall_close, GrantsOf
    <2> QED BY <1>6, <1>7, <2>1 DEF firewall_close
  <1>8. CASE InsertRule
    BY <1>8, BooksAfterInsert
  <1>9. CASE firewall_tick
    <2>1. Batch \in SUBSET Active
      BY ToBeRevoked
    <2> QED BY <1>6, <1>9, <2>1 DEF firewall_tick, ghost
  <1>10. CASE DeleteRule
    BY <1>10, BooksAfterDelete
  <1>11. CASE firewall_shutdown \/ FlushGrants \/ Unhook \/ DeleteChain \/ Crash
    <2>1. pc' \in {"flush", "unhook", "del", "stopped", "off"}
      BY <1>11 DEF firewall_shutdown, FlushGrants, Unhook, DeleteChain, Crash, Stop
    <2> QED BY <1>b, <2>1
  <1>12. CASE FTick \/ UNCHANGED fvars
    BY <1>12, BooksUnmoved DEF FTick, fvars, calling, ghost
  <1> QED
    BY <1>1, <1>2, <1>3, <1>4, <1>5, <1>7, <1>8, <1>9, <1>10, <1>11, <1>12,
       FirewallSteps

-----------------------------------------------------------------------------
(* The promises. *)

(* Time passes and grants of rules in the chain are kept or extended. *)
LEMMA PromisesUnmoved ==
  ASSUME FTypeOK, FTypeOK', PromisesKept, InService \/ pc \in Starting,
         promised' = promised, now' >= now,
         \A i \in Active \ Inserting :
            /\ i \in Active' \ Inserting'
            /\ grants'[i].ip = grants[i].ip
            /\ grants'[i].expires_at >= grants[i].expires_at
  PROVE  PromisesKept'
  <1>1. \A ip \in IPs :
           /\ promised[ip] \in Nat /\ now \in Nat /\ now' \in Nat
           /\ \/ promised[ip] <= now
              \/ \E i \in Active \ Inserting :
                    grants[i].ip = ip /\ promised[ip] <= grants[i].expires_at
    BY DEF PromisesKept, FTypeOK
  <1>2. \A i \in Active : grants[i].expires_at \in Nat
    BY DEF FTypeOK, Grant, Active
  <1>3. \A i \in Active' : grants'[i].expires_at \in Nat
    BY DEF FTypeOK, Grant, Active
  <1>4. \A ip \in IPs :
           \/ promised'[ip] <= now'
           \/ \E i \in Active' \ Inserting' :
                 grants'[i].ip = ip /\ promised'[ip] <= grants'[i].expires_at
    BY <1>1, <1>2, <1>3
  <1> QED BY <1>4 DEF PromisesKept

LEMMA PromisesStep ==
  ASSUME FTypeOK, FTypeOK', Calls, Books, PromisesKept, [FNext]_fvars
  PROVE  PromisesKept'
  <1>a. promised \in [IPs -> Nat] /\ now \in Nat
    BY DEF FTypeOK
  <1>b. pc' \notin Starting \cup {"ready", "insert", "delete"} => PromisesKept'
    BY DEF PromisesKept, InService
  <1>c. \A i \in Active : i \in Slots /\ grants[i].expires_at \in Nat
    BY DEF FTypeOK, Grant, Active
  <1>d. ASSUME grants' = grants, promised' = promised, now' >= now,
               InService \/ pc \in Starting, Inserting' \subseteq Inserting
        PROVE  PromisesKept'
    <2>1. Active' = Active
      BY <1>d DEF Active
    <2>2. \A i \in Active : grants[i].expires_at >= grants[i].expires_at
      BY <1>c
    <2> QED BY <1>d, <2>1, <2>2, PromisesUnmoved
  <1>e. pc' # "insert" => Inserting' = {}
    BY DEF Inserting
  <1>f. now >= now
    BY <1>a
  <1>1. CASE firewall_init
    BY <1>1, <1>a DEF firewall_init, PromisesKept
  <1>2. CASE NewChain \/ FlushChain \/ CheckJump \/ AddJump
    <2>1. /\ grants' = grants /\ promised' = promised /\ now' = now
          /\ pc \in Starting /\ pc' # "insert"
      BY <1>2 DEF NewChain, FlushChain, CheckJump, AddJump, Starting, ghost
    <2> QED BY <1>d, <1>e, <1>f, <2>1
  <1>3. ASSUME NEW ip \in IPs, firewall_open(ip) PROVE PromisesKept'
    <2>0. pc = "ready" /\ InService /\ now' = now /\ Inserting = {}
      BY <1>3 DEF firewall_open, InService, Inserting
    <2>1. CASE Extend(ip)
      <3>1. Inserting' = {} /\ promised' = [promised EXCEPT ![ip] = Expiry]
        BY <2>0, <2>1 DEF Extend, Inserting
      <3>2. PICK e \in Active' : /\ grants'[e].ip = ip
                                 /\ grants'[e].expires_at = Expiry
        BY <2>1, <1>c, ExtendEffect
      <3>3. Expiry \in Nat
        BY GrantAssumption, <1>a DEF Expiry
      <3>4. \A a \in IPs : a # ip =>
               \/ promised'[a] <= now'
               \/ \E i \in Active' : grants'[i].ip = a
                                     /\ promised'[a] <= grants'[i].expires_at
        BY <1>a, <1>c, <2>0, <2>1, <3>1, ExtendEffect DEF PromisesKept
      <3>5. promised'[ip] <= grants'[e].expires_at
        BY <1>a, <3>1, <3>2, <3>3
      <3> QED BY <3>1, <3>2, <3>4, <3>5 DEF PromisesKept
    <2>2. CASE Reserve(ip)
      <3>1. /\ slot' \notin Active /\ Active' = Active \cup {slot'}
            /\ \A i \in Slots : i # slot' => grants'[i] = grants[i]
        BY <2>2, ReserveEffect
      <3>2. promised' = promised /\ Inserting' = {slot'}
        BY <2>2 DEF Reserve, Inserting
      <3> QED BY <1>c, <1>f, <2>0, <3>1, <3>2, PromisesUnmoved
    <2>3. CASE RefuseGrant(ip)
      <3>1. grants' = grants /\ promised' = promised /\ pc' # "insert"
        BY <2>0, <2>3 DEF RefuseGrant
      <3> QED BY <1>d, <1>e, <1>f, <2>0, <3>1
    <2> QED BY <1>3, <2>1, <2>2, <2>3 DEF firewall_open
  <1>4. ASSUME NEW ip \in IPs, firewall_close(ip) PROVE PromisesKept'
    <2>1. PICK S \in SUBSET Slots : Revoke(S) /\ S \subseteq GrantsOf(ip)
      BY <1>4, ToBeRevoked DEF firewall_close
    <2>2. /\ promised' = [promised EXCEPT ![ip] = 0] /\ now' = now
          /\ pc = "ready" /\ InService /\ Inserting = {}
      BY <1>4 DEF firewall_close, InService, Inserting
    <2>3. /\ Active' = Active \ S /\ Inserting' = {}
          /\ \A i \in Slots : /\ grants'[i].ip = grants[i].ip
                              /\ grants'[i].expires_at = grants[i].expires_at
      BY <1>e, <2>1, RevokeTypes
    <2>4. \A a \in IPs : a # ip =>
             \/ promised'[a] <= now'
             \/ \E i \in Active' : grants'[i].ip = a
                                   /\ promised'[a] <= grants'[i].expires_at
      BY <1>a, <1>c, <2>1, <2>2, <2>3 DEF PromisesKept, GrantsOf
    <2>5. promised'[ip] <= now'
      BY <1>a, <2>2
    <2> QED BY <2>3, <2>4, <2>5 DEF PromisesKept
  <1>5. CASE InsertRule
    <2> DEFINE ip == grants[slot].ip
    <2>0. /\ ip \in IPs /\ slot \in Active /\ pc = "insert" /\ InService
          /\ Inserting = {slot} /\ Inserting' = {} /\ now' = now
      BY <1>5, <1>e, InsertedAddress DEF InsertRule, Calls, InService, Inserting
    <2>1. CASE /\ grants' = grants /\ Active' = Active
               /\ promised' = [promised EXCEPT ![ip] = grants[slot].expires_at]
      <3>1. \A a \in IPs : a # ip =>
               \/ promised'[a] <= now'
               \/ \E i \in Active' : grants'[i].ip = a
                                     /\ promised'[a] <= grants'[i].expires_at
        BY <1>a, <2>0, <2>1 DEF PromisesKept
      <3>2. promised'[ip] <= grants'[slot].expires_at
        BY <1>a, <1>c, <2>0, <2>1
      <3>3. slot \in Active' /\ grants'[slot].ip = ip
        BY <2>0, <2>1
      <3>4. \A a \in IPs :
               \/ promised'[a] <= now'
               \/ \E i \in Active' : grants'[i].ip = a
                                     /\ promised'[a] <= grants'[i].expires_at
        BY <3>1, <3>2, <3>3
      <3> QED BY <2>0, <3>4 DEF PromisesKept
    <2>2. CASE /\ Active' = Active \ {slot} /\ promised' = promised
               /\ \A i \in Slots : i # slot => grants'[i] = grants[i]
      BY <1>c, <1>f, <2>0, <2>2, PromisesUnmoved
    <2> QED BY <1>5, <2>1, <2>2, InsertEffect
  <1>6. CASE firewall_tick
    <2>1. Batch \in SUBSET Slots /\ Revoke(Batch) /\ Batch \subseteq Due
      BY <1>6, ToBeRevoked DEF firewall_tick
    <2>2. /\ promised' = promised /\ now' = now
          /\ pc = "ready" /\ InService /\ Inserting = {}
      BY <1>6 DEF firewall_tick, InService, Inserting, ghost
    <2>3. /\ Active' = Active \ Batch /\ Inserting' = {}
          /\ \A i \in Slots : /\ grants'[i].ip = grants[i].ip
                              /\ grants'[i].expires_at = grants[i].expires_at
      BY <1>e, <2>1, RevokeTypes
    <2>4. \A i \in Batch : now >= grants[i].expires_at /\ i \in Active
      BY <2>1 DEF Due
    <2>5. \A a \in IPs :
             \/ promised[a] <= now
             \/ \E i \in Active : grants[i].ip = a
                                  /\ promised[a] <= grants[i].expires_at
      BY <2>2 DEF PromisesKept
    <2>6. \A a \in IPs :
             \/ promised'[a] <= now'
             \/ \E i \in Active' : grants'[i].ip = a
                                   /\ promised'[a] <= grants'[i].expires_at
      BY <1>a, <1>c, <2>2, <2>3, <2>4, <2>5
    <2> QED BY <2>3, <2>6 DEF PromisesKept
  <1>7. CASE DeleteRule
    <2>1. /\ grants' = grants /\ promised' = promised /\ now' = now
          /\ InService /\ pc' # "insert"
      BY <1>7 DEF DeleteRule, InService
    <2> QED BY <1>d, <1>e, <1>f, <2>1
  <1>8. CASE firewall_shutdown \/ FlushGrants \/ Unhook \/ DeleteChain \/ Crash
    <2>1. pc' \in {"flush", "unhook", "del", "stopped", "off"}
      BY <1>8 DEF firewall_shutdown, FlushGrants, Unhook, DeleteChain, Crash, Stop
    <2> QED BY <1>b, <2>1 DEF Starting
  <1>9. CASE FTick \/ UNCHANGED fvars
    <2>1. /\ grants' = grants /\ promised' = promised /\ now' >= now
          /\ pc' = pc /\ slot' = slot
      BY <1>9, <1>a DEF FTick, fvars, calling, ghost
    <2>2. Inserting' = Inserting
      BY <2>1 DEF Inserting
    <2>3. CASE InService \/ pc \in Starting
      BY <1>d, <2>1, <2>2, <2>3
    <2>4. CASE ~(InService \/ pc \in Starting)
      BY <1>b, <2>1, <2>4 DEF InService
    <2> QED BY <2>3, <2>4
  <1> QED
    BY <1>1, <1>2, <1>3, <1>4, <1>5, <1>6, <1>7, <1>8, <1>9, FirewallSteps

LEMMA FirewallInvariant == FSpec => []FInv
  <1>1. FInv /\ [FNext]_fvars => FInv'
    BY FirewallTypes, CallsKept, BooksKept, JumpsKept, ClosedKept, PromisesStep DEF FInv
  <1> QED BY FirewallInit, <1>1, PTL DEF FSpec

-----------------------------------------------------------------------------
(* The grant table, the chain and the calls of firewall.c keep their types,  *)
(* with every command failing and the daemon killed at any point.            *)
THEOREM FirewallTypeCorrect == FSpec => []FTypeOK
  <1>1. FInv => FTypeOK
    BY DEF FInv
  <1> QED BY FirewallInvariant, <1>1, PTL

(* Between two calls of firewall.c every grant has its rule, no address has  *)
(* two grants, and each rule too many has a failure in the log.              *)
THEOREM ChainMatchesTable == FSpec => []RulesMatchGrants
  <1>1. FInv => RulesMatchGrants
    <2> SUFFICES ASSUME FInv, pc = "ready", NEW ip \in IPs
                 PROVE  /\ Cardinality(GrantsOf(ip)) <= 1
                        /\ table.rules[ip] \in Cardinality(GrantsOf(ip))
                              ..Cardinality(GrantsOf(ip)) + logged[ip]
      BY DEF RulesMatchGrants
    <2>1. /\ expired = {} /\ Inserting = {} /\ Booked = Active
      BY DEF FInv, Calls, Inserting, Booked
    <2>2. /\ \A i, j \in Active : grants[i].ip = grants[j].ip => i = j
          /\ table.rules[ip] \in Owed(ip)..Owed(ip) + logged[ip]
      BY <2>1 DEF FInv, Books, InService
    <2>3. Cardinality(GrantsOf(ip)) = Owed(ip)
      <3>1. CASE GrantsOf(ip) = {}
        <4>1. Owed(ip) = 0
          BY <2>1, <3>1 DEF Owed, GrantsOf
        <4> QED BY <3>1, <4>1, FS_EmptySet
      <3>2. CASE GrantsOf(ip) # {}
        <4>1. PICK i \in GrantsOf(ip) : TRUE
          BY <3>2
        <4>2. GrantsOf(ip) = {i} /\ Owed(ip) = 1
          BY <2>1, <2>2, <4>1 DEF Owed, GrantsOf
        <4> QED BY <4>2, FS_Singleton
      <3> QED BY <3>1, <3>2
    <2>4. Owed(ip) \in {0, 1}
      BY DEF Owed
    <2> QED BY <2>2, <2>3, <2>4
  <1> QED BY FirewallInvariant, <1>1, PTL

(* The jump the operator put into INPUT outlives every start, failure, crash *)
(* and shutdown of the daemon.                                               *)
THEOREM OperatorsJumpSurvives == FSpec => []OperatorJumpKept
  <1>1. FInv => OperatorJumpKept
    BY DEF FInv, Jumps, OperatorJumpKept
  <1> QED BY FirewallInvariant, <1>1, PTL

(* After firewall_shutdown(), or a start that failed, nobody has access, or  *)
(* the log tells that the chain could not be flushed.                        *)
THEOREM StoppingCloses == FSpec => []StoppedMeansClosed
  <1>1. FInv => StoppedMeansClosed
    BY DEF FInv, Closed, StoppedMeansClosed
  <1> QED BY FirewallInvariant, <1>1, PTL

(* firewall_tick() and firewall_close() delete no rule of an address whose   *)
(* promised access still runs, extensions included.                          *)
THEOREM AccessLastsAsPromised == FSpec => NoEarlyExpiry
  <1>1. FInv /\ [FNext]_fvars =>
          [\A ip \in IPs :
              pc = "delete" /\ table'.rules[ip] < table.rules[ip]
                 => now >= promised[ip]]_fvars
    <2> SUFFICES ASSUME FInv, FNext, NEW ip \in IPs, pc = "delete",
                        table'.rules[ip] < table.rules[ip]
                 PROVE  now >= promised[ip]
      OBVIOUS
    <2> USE DEF FInv
    <2>1. table.rules \in [IPs -> Nat] /\ promised[ip] \in Nat /\ now \in Nat
      BY DEF FTypeOK, Tables
    <2>2. CASE DeleteRule
      <3>1. PICK d \in expired, a \in IPs : d = FirstOf(expired) /\ a = grants[d].ip
        BY DeletedAddress
      <3>2. \/ table'.rules = [table.rules EXCEPT ![a] = @ - 1]
            \/ table'.rules = table.rules
        BY <2>2, <3>1, DeleteEffect
      <3>3. a = ip
        BY <2>1, <3>2
      <3>4. /\ Active \cap expired = {}
            /\ \A i, j \in Booked : grants[i].ip = grants[j].ip => i = j
        BY DEF Books, InService
      <3>5. \A i \in Active : grants[i].ip # ip
        BY <3>1, <3>3, <3>4 DEF Booked
      <3> QED BY <2>1, <3>5 DEF PromisesKept, InService
    <2>3. CASE Crash \/ FTick
      <3>1. table' = table
        BY <2>3 DEF Crash, FTick
      <3> QED BY <2>1, <3>1
    <2>4. DeleteRule \/ Crash \/ FTick
      BY DEF FNext, firewall_init, NewChain, FlushChain, CheckJump, AddJump,
             firewall_open, firewall_close, InsertRule, firewall_tick,
             firewall_shutdown, FlushGrants, Unhook, DeleteChain, Down
    <2> QED BY <2>2, <2>3, <2>4
  <1> QED BY FirewallInvariant, <1>1, PTL DEF FSpec, NoEarlyExpiry

=============================================================================
