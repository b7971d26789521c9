------------------------------- MODULE Knocker -------------------------------
(***************************************************************************)
(* The per-address knock state machine of knocker.c: a fixed table of      *)
(* client entries, the handler of one knock (knocker_process), the sweep   *)
(* for abandoned sequences (knocker_cleanup_stale), and the wall clock     *)
(* both of them read with time(NULL).                                      *)
(*                                                                         *)
(* Both operations run under table_lock from start to end, so each is one  *)
(* atomic action.  Logging is left out.                                    *)
(***************************************************************************)
EXTENDS Integers, Sequences

CONSTANTS
    IPs,                 \* source addresses
    NoIP,                \* the ip field of a zeroed entry (0.0.0.0)
    KNOCK_SEQUENCE,      \* the configured ports, in order
    MAX_CLIENTS,         \* entries in the table
    KNOCK_WINDOW,        \* seconds allowed between two knocks
    KNOCK_DEDUP_WINDOW,  \* seconds a repeat of the last port is ignored
    StartTime,           \* wall clock when the daemon starts
    MaxTime,             \* bound: the clock is not advanced past this
    MaxStepBack          \* bound: how far the wall clock may be set back

KNOCK_SEQ_LEN == Len(KNOCK_SEQUENCE)

(* config_validate() accepts two to sixteen distinct ports, none of them 0. *)
ASSUME SequenceAssumption ==
    /\ KNOCK_SEQUENCE \in Seq(Nat \ {0})
    /\ KNOCK_SEQ_LEN >= 2
    /\ \A i, j \in 1..KNOCK_SEQ_LEN :
          KNOCK_SEQUENCE[i] = KNOCK_SEQUENCE[j] => i = j

(* config_validate() resets a table size or a window that is not positive. *)
ASSUME LimitAssumption ==
    /\ MAX_CLIENTS \in Nat \ {0}
    /\ KNOCK_WINDOW \in Nat \ {0}
    /\ KNOCK_DEDUP_WINDOW \in Nat

ASSUME ClockAssumption ==
    /\ StartTime \in Nat
    /\ MaxTime \in Nat
    /\ MaxStepBack \in Nat

VARIABLES
    clients,  \* clients[i]: the i-th entry of the table
    now       \* what time(NULL) returns

vars == <<clients, now>>

Slots == 0..MAX_CLIENTS - 1

(* The ports sniffer_next_knock() reports: is_knock_port() filters the rest. *)
KnockPorts == {KNOCK_SEQUENCE[k] : k \in 1..KNOCK_SEQ_LEN}

(* knock_result_t.  The actions below take the value knocker_process()       *)
(* returns as their parameter res.                                           *)
Results == {"COMPLETE", "IN_PROGRESS", "RESET"}

(* knock_client_t *)
Client == [ip           : IPs \cup {NoIP},
           current_step : 0..KNOCK_SEQ_LEN,
           last_knock   : Nat,
           last_port    : KnockPorts \cup {0},
           active       : BOOLEAN]

(* An entry as calloc() and memset() leave it. *)
Zeroed == [ip |-> NoIP, current_step |-> 0, last_knock |-> 0,
           last_port |-> 0, active |-> FALSE]

TypeOK ==
    /\ clients \in [Slots -> Client]
    /\ now \in Nat

-----------------------------------------------------------------------------
(* Helpers *)

NULL == -1

(* The loops of find_client() and alloc_client() stop at the first hit. *)
First(S) == CHOOSE i \in S : \A j \in S : i <= j

(* Slot of the entry of this address, or NULL. *)
find_client(ip) ==
    LET found == {i \in Slots : clients[i].active /\ clients[i].ip = ip}
    IN  IF found = {} THEN NULL ELSE First(found)

(* Seeded fault: the oldest entry is evicted whatever its age. *)
alloc_client_AnyAge(t) ==
    LET free == {i \in Slots : ~clients[i].active}
    IN  IF free # {} THEN First(free)
        ELSE First({i \in Slots : \A j \in Slots :
                      clients[i].last_knock <= clients[j].last_knock})

(* Slot to be claimed for a new client, or NULL; t is the clock reading      *)
(* alloc_client() makes for itself.  With no free slot the oldest entry is   *)
(* taken (the first of them on a tie), but only once it is past the window.  *)
alloc_client(t) ==
    LET free   == {i \in Slots : ~clients[i].active}
        oldest == First({i \in Slots : \A j \in Slots :
                           clients[i].last_knock <= clients[j].last_knock})
    IN  IF free # {} THEN First(free)
        ELSE IF t - clients[oldest].last_knock <= KNOCK_WINDOW THEN NULL
        ELSE oldest

(* The claimed entry: zeroed, then given its owner. *)
NewClient(ip) == [Zeroed EXCEPT !.ip = ip, !.active = TRUE]

(* A knock on the port accepted last, too soon to be a new attempt. *)
IsRepeat(c, port) ==
    /\ port = c.last_port
    /\ now - c.last_knock <= KNOCK_DEDUP_WINDOW

(* Seeded fault: the window is never checked. *)
StepOf_NoWindow(c) == c.current_step

(* Steps that still count when the knock is matched against the sequence:    *)
(* none when the previous knock is further away than the window.             *)
StepOf(c) ==
    IF c.current_step > 0 /\ now - c.last_knock > KNOCK_WINDOW
    THEN 0 ELSE c.current_step

IsNext(c, port) == port = KNOCK_SEQUENCE[StepOf(c) + 1]

(* Seeded fault: the step is counted twice. *)
Accepted_Twice(c, step, port) ==
    [c EXCEPT !.current_step = step + 1, !.last_knock = now, !.last_port = port]

(* The entry after its knock on port was accepted as the step-th step. *)
Accepted(c, step, port) ==
    [c EXCEPT !.current_step = step, !.last_knock = now, !.last_port = port]

-----------------------------------------------------------------------------
(* process_locked() from the dedup check on: the entry c of slot i meets a   *)
(* knock on port.                                                            *)

Repeat(i, c, port, res) ==
    /\ IsRepeat(c, port)
    /\ clients' = [clients EXCEPT ![i] = c]
    /\ res = "IN_PROGRESS"

Advance(i, c, port, res) ==
    /\ ~IsRepeat(c, port) /\ IsNext(c, port)
    /\ StepOf(c) + 1 < KNOCK_SEQ_LEN
    /\ clients' = [clients EXCEPT ![i] = Accepted(c, StepOf(c) + 1, port)]
    /\ res = "IN_PROGRESS"

(* Seeded fault: a finished sequence keeps its slot. *)
Complete_KeepsSlot(i, c, port, res) ==
    /\ ~IsRepeat(c, port) /\ IsNext(c, port)
    /\ StepOf(c) + 1 >= KNOCK_SEQ_LEN
    /\ clients' = [clients EXCEPT ![i] = Accepted(c, StepOf(c) + 1, port)]
    /\ res = "COMPLETE"

(* The last port: the slot is released, everything else in it stays. *)
Complete(i, c, port, res) ==
    /\ ~IsRepeat(c, port) /\ IsNext(c, port)
    /\ StepOf(c) + 1 >= KNOCK_SEQ_LEN
    /\ clients' = [clients EXCEPT ![i] =
                     [Accepted(c, StepOf(c) + 1, port) EXCEPT !.active = FALSE]]
    /\ res = "COMPLETE"

(* Seeded fault: a restart keeps the steps that were done. *)
Restart_KeepsStep(i, c, port, res) ==
    /\ ~IsRepeat(c, port) /\ ~IsNext(c, port)
    /\ port = KNOCK_SEQUENCE[1]
    /\ clients' = [clients EXCEPT ![i] = Accepted(c, c.current_step, port)]
    /\ res = "IN_PROGRESS"

(* Seeded fault: a restart leaves last_port alone, the bug the comment in    *)
(* process_locked() warns of.                                                *)
Restart_KeepsPort(i, c, port, res) ==
    /\ ~IsRepeat(c, port) /\ ~IsNext(c, port)
    /\ port = KNOCK_SEQUENCE[1]
    /\ clients' = [clients EXCEPT ![i] = Accepted(c, 1, c.last_port)]
    /\ res = "IN_PROGRESS"

(* Out of order, but the port that starts a sequence. *)
Restart(i, c, port, res) ==
    /\ ~IsRepeat(c, port) /\ ~IsNext(c, port)
    /\ port = KNOCK_SEQUENCE[1]
    /\ clients' = [clients EXCEPT ![i] = Accepted(c, 1, port)]
    /\ res = "IN_PROGRESS"

(* Out of order: progress discarded.  An expired step count was zeroed       *)
(* before the match.                                                         *)
Discard(i, c, port, res) ==
    /\ ~IsRepeat(c, port) /\ ~IsNext(c, port)
    /\ port # KNOCK_SEQUENCE[1]
    /\ clients' = [clients EXCEPT ![i] =
                     [c EXCEPT !.current_step = StepOf(c), !.active = FALSE]]
    /\ res = "RESET"

HandleKnock(i, c, port, res) ==
    \/ Repeat(i, c, port, res)
    \/ Advance(i, c, port, res)
    \/ Complete(i, c, port, res)
    \/ Restart(i, c, port, res)
    \/ Discard(i, c, port, res)

(* A knock from an address that has an entry. *)
KnockTracked(ip, port, res) ==
    /\ find_client(ip) # NULL
    /\ HandleKnock(find_client(ip), clients[find_client(ip)], port, res)
    /\ UNCHANGED now

(* A first port claims an entry.  alloc_client() reads the clock again: the  *)
(* second may have turned since process_locked() read it.                    *)
KnockNew(ip, port, res) ==
    /\ find_client(ip) = NULL
    /\ port = KNOCK_SEQUENCE[1]
    /\ \E t \in {now, now + 1} :
          /\ t <= MaxTime \/ t = now
          /\ alloc_client(t) # NULL
          /\ HandleKnock(alloc_client(t), NewClient(ip), port, res)
          /\ now' = t

(* A first port while every entry is a live sequence. *)
KnockRefused(ip, port, res) ==
    /\ find_client(ip) = NULL
    /\ port = KNOCK_SEQUENCE[1]
    /\ \E t \in {now, now + 1} :
          /\ t <= MaxTime \/ t = now
          /\ alloc_client(t) = NULL
          /\ now' = t
    /\ res = "RESET"
    /\ UNCHANGED clients

(* Any other port from an address that has no entry. *)
KnockNoise(ip, port, res) ==
    /\ find_client(ip) = NULL
    /\ port # KNOCK_SEQUENCE[1]
    /\ res = "RESET"
    /\ UNCHANGED <<clients, now>>

knocker_process(ip, port, res) ==
    \/ KnockTracked(ip, port, res)
    \/ KnockNew(ip, port, res)
    \/ KnockRefused(ip, port, res)
    \/ KnockNoise(ip, port, res)

Stale(c) == c.active /\ now - c.last_knock > KNOCK_WINDOW

knocker_cleanup_stale ==
    /\ clients' = [i \in Slots |-> IF Stale(clients[i])
                                   THEN [clients[i] EXCEPT !.active = FALSE]
                                   ELSE clients[i]]
    /\ UNCHANGED now

(* The wall clock: it runs, and ntp or the operator may set it back. *)
Tick ==
    /\ now < MaxTime
    /\ now' = now + 1
    /\ UNCHANGED clients

StepBack ==
    /\ \E d \in 1..MaxStepBack : now - d >= StartTime /\ now' = now - d
    /\ UNCHANGED clients

-----------------------------------------------------------------------------
(* knocker_init() *)
Init ==
    /\ clients = [i \in Slots |-> Zeroed]
    /\ now = StartTime

Knock == \E ip \in IPs, port \in KnockPorts, res \in Results :
            knocker_process(ip, port, res)

Housekeeping == knocker_cleanup_stale \/ Tick \/ StepBack

Next == Knock \/ Housekeeping

Spec == Init /\ [][Next]_vars

-----------------------------------------------------------------------------
(* The table never holds two live entries for one address, and a live entry  *)
(* is strictly inside the sequence and remembers the port of its last step.  *)
(* find_client() returns the first match, so a second entry would let two    *)
(* half-sequences of one address be continued independently; a step outside  *)
(* the range would index KNOCK_SEQUENCE past its end.                        *)
TableInv ==
    \A i \in Slots : clients[i].active =>
        /\ clients[i].ip \in IPs
        /\ clients[i].current_step \in 1..KNOCK_SEQ_LEN - 1
        /\ clients[i].last_port = KNOCK_SEQUENCE[clients[i].current_step]
        /\ \A j \in Slots : clients[j].active /\ clients[j].ip = clients[i].ip
                              => i = j

(* An entry is dropped or changed only by a knock of its own address or      *)
(* after its window has run out: a flood of first knocks from other          *)
(* addresses never evicts a client that is halfway through the sequence      *)
(* (the promise in the comment of alloc_client()).                           *)
KeepsLiveEntries ==
    \A i \in Slots :
       clients[i].active /\ clients'[i] # clients[i] =>
          \/ \E port \in KnockPorts, res \in Results :
                knocker_process(clients[i].ip, port, res)
          \/ now' - clients[i].last_knock > KNOCK_WINDOW

LiveEntryKept == [][KeepsLiveEntries]_vars

=============================================================================
