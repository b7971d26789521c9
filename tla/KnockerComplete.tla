--------------------------- MODULE KnockerComplete ---------------------------
(***************************************************************************)
(* Does a client that knocks correctly get in?  The state machine of        *)
(* Knocker, watched by a record of every address's clean run: its knocks    *)
(* on ports 1, 2, ..., k in order, in time and with nothing of its own in   *)
(* between but retransmits of a knock of that run, while the clock is not   *)
(* set back.                                                                *)
(***************************************************************************)
EXTENDS Knocker

CONSTANTS
    FirstGap,        \* seconds a clean run may leave after its first knock
    RetransmitDepth  \* retransmits counted as harmless: 1 is the last knock
                     \* only, 2 also the one before, and so on

ASSUME RunAssumption == FirstGap \in Nat /\ RetransmitDepth \in Nat

(* run[ip]: the times of the knocks of the clean run ip is in *)
VARIABLE run

varsC == <<vars, run>>

TypeOKC == TypeOK /\ run \in [IPs -> Seq(Nat)]

GapAfter(k) == IF k = 1 THEN FirstGap ELSE KNOCK_WINDOW

(* The client's kernel repeats an unanswered SYN within the dedup window.    *)
(* Nobody can tell a repeat of a lone first knock from a fresh attempt, so   *)
(* that one starts a run.                                                    *)
IsRetransmit(r, port) ==
    /\ Len(r) > 1
    /\ \E j \in DOMAIN r :
          /\ j > Len(r) - RetransmitDepth
          /\ port = KNOCK_SEQUENCE[j]
          /\ now - r[j] <= KNOCK_DEDUP_WINDOW

IsNextOfRun(r, port) ==
    /\ r # <<>>
    /\ port = KNOCK_SEQUENCE[Len(r) + 1]
    /\ now - r[Len(r)] <= GapAfter(Len(r))

(* This knock is the last one of a clean run. *)
EndsRun(r, port) == IsNextOfRun(r, port) /\ Len(r) + 1 = KNOCK_SEQ_LEN

(* The run after a knock that was answered with res. *)
Follow(r, port, res) ==
    IF IsRetransmit(r, port) THEN r
    ELSE IF EndsRun(r, port) THEN <<>>
    ELSE IF IsNextOfRun(r, port) THEN Append(r, now)
    ELSE IF port = KNOCK_SEQUENCE[1] /\ res # "RESET" THEN <<now>>
    ELSE <<>>

InitC == Init /\ run = [ip \in IPs |-> <<>>]

KnockC(ip, port, res) ==
    /\ knocker_process(ip, port, res)
    /\ run' = [run EXCEPT ![ip] = Follow(run[ip], port, res)]

NextC ==
    \/ \E ip \in IPs, port \in KnockPorts, res \in Results :
          KnockC(ip, port, res)
    \/ (knocker_cleanup_stale \/ Tick) /\ UNCHANGED run
    \/ StepBack /\ run' = [ip \in IPs |-> <<>>]

SpecC == InitC /\ [][NextC]_varsC

-----------------------------------------------------------------------------
(* The knock that ends a clean run is answered KNOCK_COMPLETE: once the      *)
(* first knock was not refused for lack of room, no sweep, no eviction, no   *)
(* other address, no earlier half-sequence of the client itself and no       *)
(* retransmit can make knocker_process() miss it.                            *)
CleanRunCompletes ==
    [][\A ip \in IPs, port \in KnockPorts, res \in Results :
          KnockC(ip, port, res) /\ EndsRun(run[ip], port)
             => res = "COMPLETE"]_varsC

=============================================================================
