------------------------------- MODULE Iptables ------------------------------
(***************************************************************************)
(* The packet filter as knockd sees it: the KNOCKD chain with its ACCEPT    *)
(* rules and the jump from INPUT, the iptables commands firewall.c runs on  *)
(* them, and what run_iptables() may report about one.  The filter and the  *)
(* iptables program are external; run_iptables() is firewall.c's.           *)
(***************************************************************************)
EXTENDS Integers

CONSTANTS
    IPs,
    Failing,     \* commands that may fail without effect: a busy xtables
                 \* lock, fork() or execv() refused
    Unreported   \* commands that may take effect and still be reported as
                 \* failed: iptables killed at its exit, waitpid() failing

(* The operations firewall.c passes to iptables; those with _INPUT are on    *)
(* the jump in the INPUT chain, the others on the chain KNOCKD.              *)
Commands == {"-N", "-F", "-C_INPUT", "-I_INPUT", "-I", "-D", "-D_INPUT", "-X"}

(* What the filter holds: identical rules are separate rules, so they are    *)
(* counted.                                                                  *)
Tables == [chain : BOOLEAN, rules : [IPs -> Nat], jumps : Nat]

NoRules == [ip \in IPs |-> 0]

EmptyTable == [chain |-> FALSE, rules |-> NoRules, jumps |-> 0]

(* Does iptables exit with status 0? *)
Applies(cmd, ip, t) ==
    \/ cmd = "-N" /\ ~t.chain
    \/ cmd \in {"-F", "-I", "-I_INPUT"} /\ t.chain
    \/ cmd = "-D" /\ t.rules[ip] > 0
    \/ cmd \in {"-C_INPUT", "-D_INPUT"} /\ t.jumps > 0
    \/ cmd = "-X" /\ t.chain /\ t.jumps = 0 /\ t.rules = NoRules

Effect(cmd, ip, t) ==
    CASE cmd = "-N"       -> [t EXCEPT !.chain = TRUE]
      [] cmd = "-F"       -> [t EXCEPT !.rules = NoRules]
      [] cmd = "-C_INPUT" -> t
      [] cmd = "-I_INPUT" -> [t EXCEPT !.jumps = @ + 1]
      [] cmd = "-I"       -> [t EXCEPT !.rules[ip] = @ + 1]
      [] cmd = "-D"       -> [t EXCEPT !.rules[ip] = @ - 1]
      [] cmd = "-D_INPUT" -> [t EXCEPT !.jumps = @ - 1]
      [] cmd = "-X"       -> [t EXCEPT !.chain = FALSE]

(* What run_iptables() may return for a command on table t (0 or not), and   *)
(* the table it leaves.                                                      *)
run_iptables(cmd, ip, t) ==
    {r \in [ok : BOOLEAN, table : {t, Effect(cmd, ip, t)}] :
        \/ Applies(cmd, ip, t) /\ r.table = Effect(cmd, ip, t)
              /\ (r.ok \/ cmd \in Unreported)
        \/ (~Applies(cmd, ip, t) \/ cmd \in Failing) /\ r.table = t /\ ~r.ok}

=============================================================================
