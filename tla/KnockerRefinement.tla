-------------------------- MODULE KnockerRefinement --------------------------
(***************************************************************************)
(* How the table of Knocker is read as the progress of KnockProgress.       *)
(***************************************************************************)
EXTENDS Knocker

(* How far an address has come, read off the table. *)
ProgressOf(ip) ==
    IF find_client(ip) = NULL
    THEN [step |-> 0, at |-> 0]
    ELSE [step |-> clients[find_client(ip)].current_step,
          at   |-> clients[find_client(ip)].last_knock]

Progress == [ip \in IPs |-> ProgressOf(ip)]

Abstract == INSTANCE KnockProgress WITH
    Addresses <- IPs, SeqLen <- KNOCK_SEQ_LEN, Capacity <- MAX_CLIENTS,
    Window <- KNOCK_WINDOW,
    progress <- Progress, clock <- now

(* The table of knocker.c, with its slots, stale entries, evictions and      *)
(* sweeps, implements independent progress of every address: no knock or     *)
(* sweep moves another address on or back unless its window has run out.     *)
ImplementsKnockProgress == Abstract!PSpec

=============================================================================
