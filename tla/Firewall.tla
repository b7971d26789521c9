------------------------------- MODULE Firewall ------------------------------
(***************************************************************************)
(* The rule manager of firewall.c: setting the chain up, opening, extending *)
(* and closing time-limited grants, expiring them, and taking everything    *)
(* down again.  Every iptables invocation is an action of its own, because  *)
(* each may fail, the clock runs on meanwhile, and the daemon may be killed *)
(* before or after it; the daemon may then be started again on whatever the *)
(* packet filter was left with.                                             *)
(*                                                                          *)
(* Only the processor thread calls in, so one program counter suffices.     *)
(***************************************************************************)
EXTENDS Iptables, FiniteSets

CONSTANTS
    NoIP,                 \* the ip field of a zeroed grant
    MAX_CLIENTS,          \* entries in the grant table
    ACCESS_TIMEOUT,       \* seconds a grant lasts
    MAX_EXPIRY_PER_TICK,  \* grants closed in one pass
    MaxTime,              \* bound: the clock is not advanced past this
    MaxRuns,              \* bound: times the daemon is started
    MaxRules,             \* bound: identical rules for one address
    MayCrash              \* may the daemon be killed?

(* config_validate() resets what is not positive. *)
ASSUME GrantAssumption ==
    /\ MAX_CLIENTS \in Nat \ {0}
    /\ ACCESS_TIMEOUT \in Nat \ {0}
    /\ MAX_EXPIRY_PER_TICK \in Nat \ {0}

ASSUME FaultAssumption ==
    /\ Failing \subseteq Commands /\ Unreported \subseteq Commands
    /\ MayCrash \in BOOLEAN

ASSUME FirewallBounds ==
    /\ MaxTime \in Nat /\ MaxRuns \in Nat /\ MaxRules \in Nat

VARIABLES
    grants,        \* the grant table
    g_added_jump,  \* did this process insert the jump from INPUT?
    pc,            \* the iptables invocation that is next, or a resting state
    slot,          \* firewall_open(): the slot it reserved, 0 outside of it
    expired,       \* slots whose rules are still to be deleted
    table,         \* the packet filter
    now,           \* what time(NULL) returns
    runs,          \* processes started so far
    operatorJump,  \* does the operator's own ruleset hold the jump?
    promised,      \* promised[ip]: end of the access this process promised ip
    logged,        \* logged[ip]: failures logged for ip since the last flush
    warned         \* did the log tell that the chain could not be flushed, at
                   \* the shutdown or in a start that failed?

calling == <<slot, expired>>
ghost == <<operatorJump, promised, logged, warned>>
fvars == <<grants, g_added_jump, pc, calling, table, now, runs, ghost>>

Slots == 0..MAX_CLIENTS - 1

(* grant_t *)
Grant == [ip : IPs \cup {NoIP}, expires_at : Nat, active : BOOLEAN]

NoGrants == [i \in Slots |-> [ip |-> NoIP, expires_at |-> 0, active |-> FALSE]]

(* off: no process (not started yet, or killed); failed: firewall_init()     *)
(* returned -1 and freed the table, so that firewall_shutdown() then returns *)
(* at once; stopped: firewall_shutdown() returned; ready: between calls.     *)
Down == {"off", "failed", "stopped"}
Starting == {"new_chain", "flush_chain", "check_jump", "add_jump"}
Stopping == {"flush", "unhook", "del"}

FTypeOK ==
    /\ grants \in [Slots -> Grant]
    /\ g_added_jump \in BOOLEAN
    /\ pc \in Down \cup Starting \cup {"ready", "insert", "delete"} \cup Stopping
    /\ slot \in Slots /\ expired \in SUBSET Slots
    /\ table \in Tables
    /\ now \in Nat /\ runs \in Nat
    /\ operatorJump \in BOOLEAN
    /\ promised \in [IPs -> Nat]
    /\ logged \in [IPs -> 0..MaxRules] /\ warned \in BOOLEAN

FirstOf(S) == CHOOSE i \in S : \A j \in S : i <= j

Active == {i \in Slots : grants[i].active}

(* Seeded fault: an address that has a grant is given another. *)
GrantsOf_Nobody(ip) == {i \in Active : grants[i].ip = NoIP}

(* Slots of the grants of this address; find_grant() returns the first. *)
GrantsOf(ip) == {i \in Active : grants[i].ip = ip}

find_grant(ip) == FirstOf(GrantsOf(ip))

-----------------------------------------------------------------------------
(* The operator may keep the chain and the jump in a persistent ruleset. *)
FInit ==
    /\ grants = NoGrants /\ g_added_jump = FALSE
    /\ pc = "off" /\ slot = 0 /\ expired = {}
    /\ operatorJump \in BOOLEAN
    /\ table = IF operatorJump
               THEN [chain |-> TRUE, rules |-> NoRules, jumps |-> 1]
               ELSE EmptyTable
    /\ now = 0 /\ runs = 0
    /\ promised = [ip \in IPs |-> 0]
    /\ logged = [ip \in IPs |-> 0] /\ warned = FALSE

(* A process starts, and main() calls firewall_init(): the table is          *)
(* allocated, or there is no memory for it.                                  *)
firewall_init ==
    /\ pc \in Down /\ runs < MaxRuns
    /\ runs' = runs + 1
    /\ pc' \in {"new_chain", "failed"}
    /\ grants' = NoGrants /\ g_added_jump' = FALSE
    /\ promised' = [ip \in IPs |-> 0] /\ warned' = (pc' = "failed")
    /\ UNCHANGED <<calling, table, now, operatorJump, logged>>

(* The result of -N is ignored: the chain normally exists after a restart. *)
NewChain ==
    /\ pc = "new_chain"
    /\ \E r \in run_iptables("-N", NoIP, table) : table' = r.table
    /\ pc' = "flush_chain"
    /\ UNCHANGED <<grants, g_added_jump, calling, now, runs, ghost>>

FlushChain ==
    /\ pc = "flush_chain"
    /\ \E r \in run_iptables("-F", NoIP, table) :
          /\ table' = r.table
          /\ pc' = IF r.ok THEN "check_jump" ELSE "failed"
          /\ logged' = IF r.ok THEN [ip \in IPs |-> 0] ELSE logged
          /\ warned' = ~r.ok
    /\ UNCHANGED <<grants, g_added_jump, calling, now, runs>>
    /\ UNCHANGED <<operatorJump, promised>>

(* Seeded fault: a jump that was there already is taken for knockd's own. *)
CheckJump_Claims ==
    /\ pc = "check_jump"
    /\ \E r \in run_iptables("-C_INPUT", NoIP, table) :
          /\ table' = r.table
          /\ pc' = IF r.ok THEN "ready" ELSE "add_jump"
    /\ g_added_jump' = TRUE
    /\ UNCHANGED <<grants, calling, now, runs, ghost>>

CheckJump ==
    /\ pc = "check_jump"
    /\ \E r \in run_iptables("-C_INPUT", NoIP, table) :
          /\ table' = r.table
          /\ pc' = IF r.ok THEN "ready" ELSE "add_jump"
    /\ UNCHANGED <<grants, g_added_jump, calling, now, runs, ghost>>

AddJump ==
    /\ pc = "add_jump"
    /\ \E r \in run_iptables("-I_INPUT", NoIP, table) :
          /\ table' = r.table
          /\ pc' = IF r.ok THEN "ready" ELSE "failed"
          /\ g_added_jump' = r.ok
    /\ UNCHANGED <<grants, calling, now, runs, ghost>>

-----------------------------------------------------------------------------
(* Seeded fault: the deadline on the wrong side of now. *)
Expiry_Past == now - ACCESS_TIMEOUT

Expiry == now + ACCESS_TIMEOUT

(* Seeded fault: access is confirmed but the deadline stays. *)
Extend_KeepsDeadline(ip) ==
    /\ GrantsOf(ip) # {}
    /\ promised' = [promised EXCEPT ![ip] = Expiry]
    /\ UNCHANGED <<grants, pc, slot>>

(* firewall_open() for an address that has a grant: only its deadline moves. *)
Extend(ip) ==
    /\ GrantsOf(ip) # {}
    /\ grants' = [grants EXCEPT ![find_grant(ip)].expires_at = Expiry]
    /\ promised' = [promised EXCEPT ![ip] = Expiry]
    /\ UNCHANGED <<pc, slot>>

(* The first free slot is reserved before iptables runs. *)
Reserve(ip) ==
    /\ GrantsOf(ip) = {} /\ Active # Slots
    /\ table.rules[ip] < MaxRules
    /\ slot' = FirstOf(Slots \ Active)
    /\ grants' = [grants EXCEPT ![slot'] =
                    [ip |-> ip, expires_at |-> Expiry, active |-> TRUE]]
    /\ pc' = "insert"
    /\ UNCHANGED promised

(* Every slot is in use: -1. *)
RefuseGrant(ip) ==
    /\ GrantsOf(ip) = {} /\ Active = Slots
    /\ UNCHANGED <<grants, slot, pc, promised>>

firewall_open(ip) ==
    /\ pc = "ready"
    /\ Extend(ip) \/ Reserve(ip) \/ RefuseGrant(ip)
    /\ UNCHANGED <<g_added_jump, expired, table, now, runs>>
    /\ UNCHANGED <<operatorJump, logged, warned>>

(* log_error() or log_warn() about a rule of this address; counted up to    *)
(* MaxRules, above which more of them say nothing new.                      *)
LogFailure(ip) ==
    [logged EXCEPT ![ip] = IF @ < MaxRules THEN @ + 1 ELSE @]

(* The rest of firewall_open(): the rule, or the slot given back. *)
InsertRule ==
    /\ pc = "insert"
    /\ LET ip == grants[slot].ip IN
       \E r \in run_iptables("-I", ip, table) :
          /\ table' = r.table
          /\ IF r.ok
             THEN /\ promised' = [promised EXCEPT ![ip] = grants[slot].expires_at]
                  /\ UNCHANGED <<grants, logged>>
             ELSE /\ grants' = [grants EXCEPT ![slot].active = FALSE]
                  /\ logged' = LogFailure(ip)
                  /\ UNCHANGED promised
    /\ pc' = "ready" /\ slot' = 0
    /\ UNCHANGED <<g_added_jump, expired, now, runs, operatorJump, warned>>

(* Seeded fault: the slots are freed and their rules forgotten. *)
Revoke_Forgets(S) ==
    /\ grants' = [i \in Slots |-> IF i \in S
                                  THEN [grants[i] EXCEPT !.active = FALSE]
                                  ELSE grants[i]]
    /\ expired' = {} /\ pc' = "ready"

(* Deactivate the grants in these slots; their rules are deleted next. *)
Revoke(S) ==
    /\ grants' = [i \in Slots |-> IF i \in S
                                  THEN [grants[i] EXCEPT !.active = FALSE]
                                  ELSE grants[i]]
    /\ expired' = S
    /\ pc' = IF S = {} THEN "ready" ELSE "delete"

firewall_close(ip) ==
    /\ pc = "ready"
    /\ Revoke(IF GrantsOf(ip) = {} THEN {} ELSE {find_grant(ip)})
    /\ promised' = [promised EXCEPT ![ip] = 0]
    /\ UNCHANGED <<g_added_jump, slot, table, now, runs>>
    /\ UNCHANGED <<operatorJump, logged, warned>>

Due == {i \in Active : now >= grants[i].expires_at}

(* The scan stops after MAX_EXPIRY_PER_TICK hits; the rest wait. *)
Batch == {i \in Due : Cardinality({j \in Due : j < i}) < MAX_EXPIRY_PER_TICK}

firewall_tick ==
    /\ pc = "ready"
    /\ Revoke(Batch)
    /\ UNCHANGED <<g_added_jump, slot, table, now, runs, ghost>>

(* One delete of firewall_close() or firewall_tick(); a failure is only      *)
(* logged.                                                                   *)
DeleteRule ==
    /\ pc = "delete"
    /\ LET i == FirstOf(expired) IN
       /\ \E r \in run_iptables("-D", grants[i].ip, table) :
             /\ table' = r.table
             /\ logged' = IF r.ok THEN logged ELSE LogFailure(grants[i].ip)
       /\ expired' = expired \ {i}
       /\ pc' = IF expired' = {} THEN "ready" ELSE "delete"
    /\ UNCHANGED <<grants, g_added_jump, slot, now, runs>>
    /\ UNCHANGED <<operatorJump, promised, warned>>

-----------------------------------------------------------------------------
(* Seeded fault: unhooking the chain is thought to be enough. *)
firewall_shutdown_NoFlush ==
    /\ pc = "ready"
    /\ pc' = IF g_added_jump THEN "unhook" ELSE "flush"
    /\ UNCHANGED <<grants, g_added_jump, calling, table, now, runs, ghost>>

firewall_shutdown ==
    /\ pc = "ready"
    /\ pc' = "flush"
    /\ UNCHANGED <<grants, g_added_jump, calling, table, now, runs, ghost>>

(* free(grants) and the end of the process. *)
Stop == pc' = "stopped" /\ grants' = NoGrants

FlushGrants ==
    /\ pc = "flush"
    /\ \E r \in run_iptables("-F", NoIP, table) :
          table' = r.table /\ warned' = ~r.ok
    /\ IF g_added_jump THEN pc' = "unhook" /\ UNCHANGED grants ELSE Stop
    /\ UNCHANGED <<g_added_jump, calling, now, runs>>
    /\ UNCHANGED <<operatorJump, promised, logged>>

Unhook ==
    /\ pc = "unhook"
    /\ \E r \in run_iptables("-D_INPUT", NoIP, table) :
          /\ table' = r.table
          /\ IF r.ok THEN pc' = "del" /\ UNCHANGED grants ELSE Stop
    /\ UNCHANGED <<g_added_jump, calling, now, runs, ghost>>

DeleteChain ==
    /\ pc = "del"
    /\ \E r \in run_iptables("-X", NoIP, table) : table' = r.table
    /\ Stop
    /\ UNCHANGED <<g_added_jump, calling, now, runs, ghost>>

(* SIGKILL, a crash, the OOM killer: the packet filter keeps what it has. *)
Crash ==
    /\ MayCrash /\ pc \notin Down
    /\ pc' = "off"
    /\ grants' = NoGrants /\ g_added_jump' = FALSE
    /\ slot' = 0 /\ expired' = {}
    /\ UNCHANGED <<table, now, runs, ghost>>

FTick ==
    /\ now < MaxTime
    /\ now' = now + 1
    /\ UNCHANGED <<grants, g_added_jump, pc, calling, table, runs, ghost>>

FNext ==
    \/ firewall_init \/ NewChain \/ FlushChain \/ CheckJump \/ AddJump
    \/ \E ip \in IPs : firewall_open(ip) \/ firewall_close(ip)
    \/ InsertRule \/ firewall_tick \/ DeleteRule
    \/ firewall_shutdown \/ FlushGrants \/ Unhook \/ DeleteChain
    \/ Crash \/ FTick

FSpec == FInit /\ [][FNext]_fvars

-----------------------------------------------------------------------------
(* Between two calls no grant lacks its rule, and the chain holds no rule    *)
(* beyond the grants but those the log has told of, one failure for one rule *)
(* at most: whether addresses open, extend, lose their slot to a failed      *)
(* insert, are expired in a batch or outlive a killed daemon, nobody has     *)
(* access that no deadline ends unless iptables was reported to have failed. *)
RulesMatchGrants ==
    pc = "ready" =>
        \A ip \in IPs :
           LET held == Cardinality(GrantsOf(ip)) IN
           /\ held <= 1
           /\ table.rules[ip] \in held..held + logged[ip]

(* A jump the operator put into INPUT is still there, whatever fails and     *)
(* whenever the daemon is killed: "Nothing here deletes a rule knockd did    *)
(* not add" (firewall.c:13).                                                 *)
OperatorJumpKept == operatorJump => table.jumps >= 1

(* "Stopping knockd closes the protected port" (firewall.c:401): after a     *)
(* shutdown, and after a start that failed at any of its commands, nobody    *)
(* has access, through a jump of knockd's or of the operator's, unless the   *)
(* chain could not be flushed and the log says so.  After a failed start     *)
(* firewall_shutdown() returns without a command ("nothing of ours is        *)
(* installed", firewall.c:395): the chain may stay, but with no rule in it,  *)
(* those of a killed predecessor included.                                   *)
StoppedMeansClosed ==
    pc \in {"stopped", "failed"} =>
        warned \/ table.jumps = 0 \/ table.rules = NoRules

(* Expiry never takes away access that is still promised: a rule is deleted  *)
(* only at or after the deadline the last firewall_open() set, extensions    *)
(* included.                                                                 *)
NoEarlyExpiry ==
    [][\A ip \in IPs :
          pc = "delete" /\ table'.rules[ip] < table.rules[ip]
             => now >= promised[ip]]_fvars

(* README.md:92, "On shutdown knockd flushes and removes its own chain":     *)
(* after a clean shutdown nothing that knockd installed is left, unless the  *)
(* operator's ruleset holds the jump.                                        *)
ShutdownRemovesChain ==
    pc = "stopped" /\ ~operatorJump => table = EmptyTable

=============================================================================
