---------------------------- MODULE KnockerSound -----------------------------
(***************************************************************************)
(* Is every KNOCK_COMPLETE deserved?  The state machine of Knocker, watched *)
(* by a recogniser that knows nothing of its table: for every address, the  *)
(* knocks it really sent.                                                   *)
(***************************************************************************)
EXTENDS Knocker

(* sent[ip][k]: the latest time at which ip knocked the k-th port as the end *)
(* of an in-order run of ports 1..k (other knocks may lie between) with no   *)
(* gap above KNOCK_WINDOW, all of it since its last grant; Never if it has   *)
(* not.                                                                      *)
VARIABLE sent

varsS == <<vars, sent>>

Never == -1

Steps == 1..KNOCK_SEQ_LEN

TypeOKS == TypeOK /\ sent \in [IPs -> [Steps -> Nat \cup {Never}]]

NothingSent == [k \in Steps |-> Never]

(* A knock on the k-th port at time now extends a run of k-1 ports. *)
Extends(s, k) ==
    \/ k = 1
    \/ k > 1 /\ s[k-1] # Never /\ now - s[k-1] <= KNOCK_WINDOW

(* The runs after a knock on port.  A clock that was set back must not make  *)
(* a run look older than it is, hence the comparison.                        *)
Record(s, port) ==
    [k \in Steps |->
        IF port = KNOCK_SEQUENCE[k] /\ Extends(s, k) /\ now > s[k]
        THEN now ELSE s[k]]

InitS == Init /\ sent = [ip \in IPs |-> NothingSent]

KnockS(ip, port, res) ==
    /\ knocker_process(ip, port, res)
    /\ sent' = [sent EXCEPT ![ip] = IF res = "COMPLETE"
                                    THEN NothingSent
                                    ELSE Record(sent[ip], port)]

NextS ==
    \/ \E ip \in IPs, port \in KnockPorts, res \in Results :
          KnockS(ip, port, res)
    \/ Housekeeping /\ UNCHANGED sent

SpecS == InitS /\ [][NextS]_varsS

-----------------------------------------------------------------------------
(* A live entry never claims more than its address has done: the steps it    *)
(* counts were really knocked, in order and in time, since the last grant,   *)
(* and not before the time the entry remembers.                              *)
EntryIsEarned ==
    \A i \in Slots : clients[i].active =>
        LET c == clients[i] IN
        /\ sent[c.ip][c.current_step] # Never
        /\ sent[c.ip][c.current_step] >= c.last_knock

(* knocker_process() returns KNOCK_COMPLETE only to an address that knocked  *)
(* every port of the sequence in order, no two further apart than            *)
(* KNOCK_WINDOW, and none of those knocks served an earlier grant ("exactly  *)
(* once per completed sequence", knocker.h:40).  The slot that answers may   *)
(* have been released, reused by other addresses and claimed again           *)
(* meanwhile, and the wall clock may have been set back.                     *)
DeservedCompletion ==
    \A ip \in IPs, port \in KnockPorts :
       knocker_process(ip, port, "COMPLETE") =>
          /\ port = KNOCK_SEQUENCE[KNOCK_SEQ_LEN]
          /\ Extends(sent[ip], KNOCK_SEQ_LEN)

CompletionIsGenuine == [][DeservedCompletion]_varsS

=============================================================================
