------------------------------ MODULE MCSystem -------------------------------
EXTENDS System, KnockerRefinement, TLC

MCSequence == <<7, 8, 9>>

AddressSymmetry == Permutations(IPs)

(* Addresses that finished the sequence and have no answer yet. *)
Owed ==
    {ip \in IPs : \/ main = "open" /\ evt[1].src_ip = ip
                  \/ pc = "insert" /\ grants[slot].ip = ip}

Until ==
    [ip \in IPs |-> IF FW!GrantsOf(ip) = {} THEN 0
                    ELSE grants[FW!find_grant(ip)].expires_at]

Access == [ip \in IPs |-> table.rules[ip] # 0]

Service == INSTANCE AccessService WITH
    Addresses <- IPs, SeqLen <- KNOCK_SEQ_LEN, Capacity <- MAX_CLIENTS,
    Window <- KNOCK_WINDOW, Duration <- ACCESS_TIMEOUT,
    progress <- Progress, clock <- now,
    owed <- Owed, until <- Until, access <- Access

(* The daemon implements the service: through the queue, both tables, slow   *)
(* iptables invocations during which knocks and seconds pass, and a clock    *)
(* that is set back, access is opened only for an address that went through  *)
(* the whole sequence, with a deadline ACCESS_TIMEOUT after the firewall was *)
(* told, is refused only when MAX_CLIENTS addresses have it, and taken away  *)
(* only at its own deadline.                                                 *)
ImplementsAccessService == Service!ASpec

=============================================================================
