--------------------------- MODULE AccessService ----------------------------
(***************************************************************************)
(* What knockd as a whole promises, without queue, threads, tables or       *)
(* iptables: an address that finishes its sequence is owed access; it gets  *)
(* it with a deadline, or is turned away when Capacity addresses have it    *)
(* already; nobody's access is withdrawn before the deadline, and nobody    *)
(* has access who was not owed it.                                          *)
(***************************************************************************)
EXTENDS KnockProgress

CONSTANT Duration  \* how long access lasts

VARIABLES
    owed,   \* addresses that finished and have no answer yet
    until,  \* until[a]: the deadline of the access a is promised, or 0
    access  \* access[a]: may a connect?

avars == <<owed, until, access>>

AInit ==
    /\ PInit
    /\ owed = {}
    /\ until = [a \in Addresses |-> 0]
    /\ access = [a \in Addresses |-> FALSE]

Promised == {a \in Addresses : until[a] > 0}

Knocks == PNext /\ UNCHANGED avars

Earn(a) ==
    /\ Finish(a)
    /\ owed' = owed \cup {a}
    /\ UNCHANGED <<until, access>>

Promise(a) ==
    /\ a \in owed /\ a \notin Promised
    /\ Cardinality(Promised) < Capacity
    /\ until' = [until EXCEPT ![a] = clock + Duration]
    /\ UNCHANGED <<pvars, owed, access>>

Open(a) ==
    /\ a \in owed /\ a \in Promised /\ ~access[a]
    /\ access' = [access EXCEPT ![a] = TRUE]
    /\ owed' = owed \ {a}
    /\ UNCHANGED <<pvars, until>>

(* Finished again while it has access: the deadline moves. *)
Prolong(a) ==
    /\ a \in owed /\ a \in Promised /\ access[a]
    /\ until' = [until EXCEPT ![a] = clock + Duration]
    /\ owed' = owed \ {a}
    /\ UNCHANGED <<pvars, access>>

TurnAway(a) ==
    /\ a \in owed /\ ~access[a]
    /\ Cardinality(Promised) >= Capacity
    /\ owed' = owed \ {a}
    /\ UNCHANGED <<pvars, until, access>>

Withdraw(A) ==
    /\ \A a \in A : a \in Promised /\ access[a] /\ clock >= until[a]
    /\ until' = [a \in Addresses |-> IF a \in A THEN 0 ELSE until[a]]
    /\ UNCHANGED <<pvars, owed, access>>

Close(a) ==
    /\ access[a] /\ a \notin Promised
    /\ access' = [access EXCEPT ![a] = FALSE]
    /\ UNCHANGED <<pvars, owed, until>>

ANext ==
    \/ Knocks
    \/ \E a \in Addresses :
          \/ Earn(a) \/ Promise(a) \/ Open(a) \/ Prolong(a) \/ TurnAway(a)
          \/ Close(a)
    \/ \E A \in SUBSET Addresses : Withdraw(A)

ASpec == AInit /\ [][ANext]_<<pvars, avars>>

=============================================================================
