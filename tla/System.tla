------------------------------- MODULE System --------------------------------
(***************************************************************************)
(* The running daemon, from the capture thread to the packet filter: the    *)
(* knock state machine (Knocker) and the rule manager (Firewall) driven by  *)
(* the processor loop of main.c, fed by the capture thread through a        *)
(* bounded queue, under one wall clock.  Captures and the clock go on       *)
(* while iptables runs.                                                     *)
(*                                                                          *)
(* The queue is the one PacketQueue implements (BoundedQueue), the sniffer  *)
(* delivers knocks (Sniffer); start-up and stop are in Daemon.              *)
(***************************************************************************)
EXTENDS Knocker, FiniteSets

CONSTANTS
    QUEUE_CAPACITY,
    ACCESS_TIMEOUT, MAX_EXPIRY_PER_TICK  \* see Firewall

(* config_validate() resets an ACCESS_TIMEOUT that is not positive; the      *)
(* other two are fixed when the daemon is compiled.                          *)
ASSUME ServiceAssumption ==
    /\ QUEUE_CAPACITY \in Nat \ {0}
    /\ ACCESS_TIMEOUT \in Nat \ {0}
    /\ MAX_EXPIRY_PER_TICK \in Nat \ {0}

VARIABLES
    main,   \* where the processor loop is
    queue,  \* knock events, oldest first
    evt,    \* the event being handled, as a sequence of at most one
    grants, g_added_jump, pc, slot, expired, table, runs,  \* see Firewall
    operatorJump, promised, logged, warned

(* What failures and crashes do is Firewall's own subject. *)
FW == INSTANCE Firewall WITH
    Failing <- {}, Unreported <- {}, MaxRuns <- 1, MaxRules <- 2,
    MayCrash <- FALSE

firewall == <<grants, g_added_jump, pc, slot, expired, table, runs,
              operatorJump, promised, logged, warned>>
loop == <<main, queue, evt>>
svars == <<vars, loop, firewall>>

(* knock_event_t *)
Events == [src_ip : IPs, dst_port : KnockPorts]

STypeOK ==
    /\ TypeOK /\ FW!FTypeOK
    /\ main \in {"wait", "process", "open", "pop", "tick", "sweep"}
    /\ queue \in Seq(Events) /\ Len(queue) <= QUEUE_CAPACITY
    /\ evt \in {<<>>} \cup {<<e>> : e \in Events}
    /\ main \in {"process", "open"} <=> evt # <<>>

(* main() has come through its start-up: an empty table, the chain hooked. *)
SInit ==
    /\ Init
    /\ main = "wait" /\ queue = <<>> /\ evt = <<>>
    /\ grants = FW!NoGrants /\ g_added_jump = TRUE
    /\ pc = "ready" /\ slot = 0 /\ expired = {}
    /\ table = [FW!EmptyTable EXCEPT !.chain = TRUE, !.jumps = 1]
    /\ runs = 1 /\ operatorJump = FALSE
    /\ promised = [ip \in IPs |-> 0]
    /\ logged = [ip \in IPs |-> 0] /\ warned = FALSE

-----------------------------------------------------------------------------
(* Seeded fault: the queue has no limit. *)
Capture_Unbounded(e) ==
    /\ queue' = Append(queue, e)
    /\ UNCHANGED <<vars, main, evt, firewall>>

(* The capture thread pushes a knock; on a full queue it is lost, which      *)
(* changes nothing here.                                                     *)
Capture(e) ==
    /\ Len(queue) < QUEUE_CAPACITY
    /\ queue' = Append(queue, e)
    /\ UNCHANGED <<vars, main, evt, firewall>>

(* pktqueue_wait() and pktqueue_pop(): an event, or on to the housekeeping.  *)
(* firewall_open() is over when iptables is.                                 *)
TakeEvent ==
    /\ main \in {"wait", "pop"} /\ pc = "ready"
    /\ IF queue = <<>>
       THEN main' = "tick" /\ UNCHANGED <<queue, evt>>
       ELSE main' = "process" /\ evt' = <<Head(queue)>> /\ queue' = Tail(queue)
    /\ UNCHANGED <<vars, firewall>>

(* Seeded fault: any knock that was not rejected opens the firewall. *)
Process_AnyProgress ==
    /\ main = "process"
    /\ \E res \in Results :
          /\ knocker_process(evt[1].src_ip, evt[1].dst_port, res)
          /\ IF res # "RESET" THEN main' = "open" /\ UNCHANGED evt
                              ELSE main' = "pop" /\ evt' = <<>>
    /\ UNCHANGED <<queue, firewall>>

(* process_event() up to the answer of knocker_process(). *)
Process ==
    /\ main = "process"
    /\ \E res \in Results :
          /\ knocker_process(evt[1].src_ip, evt[1].dst_port, res)
          /\ IF res = "COMPLETE" THEN main' = "open" /\ UNCHANGED evt
                                 ELSE main' = "pop" /\ evt' = <<>>
    /\ UNCHANGED <<queue, firewall>>

OpenAccess ==
    /\ main = "open" /\ main' = "pop" /\ evt' = <<>>
    /\ FW!firewall_open(evt[1].src_ip)
    /\ UNCHANGED <<clients, queue>>

Expire ==
    /\ main = "tick" /\ main' = "sweep"
    /\ FW!firewall_tick
    /\ UNCHANGED <<clients, queue, evt>>

(* The iptables invocation that firewall_open() or firewall_tick() is in. *)
Iptables ==
    /\ FW!InsertRule \/ FW!DeleteRule
    /\ UNCHANGED <<clients, loop>>

(* knocker_cleanup_stale(), if STALE_SCAN_INTERVAL has passed *)
Sweep ==
    /\ main = "sweep" /\ pc = "ready" /\ main' = "wait"
    /\ knocker_cleanup_stale \/ UNCHANGED vars
    /\ UNCHANGED <<queue, evt, firewall>>

Clock == (Tick \/ StepBack) /\ UNCHANGED <<loop, firewall>>

SNext ==
    \/ \E e \in Events : Capture(e)
    \/ TakeEvent \/ Process \/ OpenAccess \/ Iptables \/ Expire \/ Sweep
    \/ Clock

SSpec == SInit /\ [][SNext]_svars

-----------------------------------------------------------------------------
(* firewall_tick() frees the slots of expired grants before it deletes their *)
(* rules, and firewall_open() hands a slot out before the rule is in.  Still *)
(* there is no moment, between two calls or in the middle of one, at which   *)
(* more than MAX_CLIENTS addresses can connect, an address has two rules, or *)
(* one that neither a grant nor the expiry under way will take away.         *)
AccessIsBounded ==
    LET open == {ip \in IPs : table.rules[ip] # 0} IN
    /\ Cardinality(open) <= MAX_CLIENTS
    /\ \A ip \in open :
          /\ table.rules[ip] = 1
          /\ \E i \in FW!Active \cup expired : grants[i].ip = ip

=============================================================================
