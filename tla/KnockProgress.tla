--------------------------- MODULE KnockProgress ----------------------------
(***************************************************************************)
(* What the knock state machine promises, without a table, slots or ports:  *)
(* every address makes its own way through the sequence, one step at a      *)
(* time and inside the window, nobody else can move it or throw it back,    *)
(* and at most Capacity addresses are on their way at once.                 *)
(***************************************************************************)
EXTENDS Integers, FiniteSets

CONSTANTS Addresses, SeqLen, Capacity, Window

VARIABLES
    progress,  \* progress[a]: steps done, and the time of the last one
    clock

pvars == <<progress, clock>>

Idle == [step |-> 0, at |-> 0]

At(k) == [step |-> k, at |-> clock]

OnTheWay == {a \in Addresses : progress[a].step > 0}

Expired(a) == clock - progress[a].at > Window

PInit == progress = [a \in Addresses |-> Idle] /\ clock \in Nat

(* The first knock; when there is no room, an expired address makes it.  The *)
(* clock may turn while room is looked for.                                  *)
Begin(a) ==
    /\ progress[a] = Idle
    /\ \/ /\ Cardinality(OnTheWay) < Capacity
          /\ progress' = [progress EXCEPT ![a] = At(1)]
       \/ \E v \in OnTheWay :
             /\ clock' - progress[v].at > Window
             /\ progress' = [progress EXCEPT ![v] = Idle, ![a] = At(1)]
    /\ clock' \in {clock, clock + 1}

Proceed(a) ==
    /\ progress[a].step \in 1..SeqLen - 2
    /\ ~Expired(a)
    /\ progress' = [progress EXCEPT ![a] = At(progress[a].step + 1)]
    /\ UNCHANGED clock

(* The grant: the whole sequence is needed again for another one. *)
Finish(a) ==
    /\ progress[a].step = SeqLen - 1
    /\ ~Expired(a)
    /\ progress' = [progress EXCEPT ![a] = Idle]
    /\ UNCHANGED clock

(* Its own knock out of order sets an address back. *)
StartOver(a) ==
    /\ a \in OnTheWay
    /\ progress' = [progress EXCEPT ![a] = At(1)]
    /\ UNCHANGED clock

GiveUp(a) ==
    /\ a \in OnTheWay
    /\ progress' = [progress EXCEPT ![a] = Idle]
    /\ UNCHANGED clock

ForgetExpired ==
    /\ progress' = [a \in Addresses |-> IF a \in OnTheWay /\ Expired(a)
                                        THEN Idle ELSE progress[a]]
    /\ UNCHANGED clock

ClockMoves == clock' \in Nat /\ UNCHANGED progress

PNext ==
    \/ \E a \in Addresses :
          Begin(a) \/ Proceed(a) \/ Finish(a) \/ StartOver(a) \/ GiveUp(a)
    \/ ForgetExpired
    \/ ClockMoves

PSpec == PInit /\ [][PNext]_pvars

=============================================================================
