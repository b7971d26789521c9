----------------------------- MODULE DaemonProofs ----------------------------
(***************************************************************************)
(* The life of the daemon, for every size of queue and socket buffer:       *)
(* nothing is used outside its lifetime, everything is released, and a      *)
(* failed start shows in the exit code.                                     *)
(*                                                                          *)
(* None of this is inductive alone: what is held while the capture thread   *)
(* runs depends on how far main() has come, and that nothing is held at the *)
(* end on every release before it.  Progress ties the three together.       *)
(***************************************************************************)
EXTENDS Daemon, SequenceTheorems, TLAPS

Before == {"args", "knocker_init", "firewall_init", "sniffer_init", "create"}

Releasing == {"sniffer_close", "firewall_shutdown", "knocker_shutdown",
              "queue_destroy"}

Live == {"check", "recv", "push", "shutdown"}

(* What main() holds where it is: exactly what it acquired before the loop,  *)
(* at most what it has not released yet after it.                            *)
HeldAt ==
    /\ main = "args" => held = {}
    /\ main = "knocker_init" => held = {"queue"}
    /\ main = "firewall_init" => held = {"queue", "clients"}
    /\ main = "sniffer_init" => held = {"queue", "clients", "grants"}
    /\ main \in {"create"} \cup LoopStates => held = Resources
    /\ main = "firewall_shutdown" => "sock_fd" \notin held
    /\ main = "knocker_shutdown" => held \subseteq {"clients", "queue"}
    /\ main = "queue_destroy" => held \subseteq {"queue"}
    /\ main = "exited" => held = {}

(* The capture thread starts after everything is set up and has ended when   *)
(* the first thing is released.                                              *)
ThreadAt ==
    /\ main \in Before => capture = "none"
    /\ main \in LoopStates => capture # "none"
    /\ main \in Releasing \cup {"exited"} => capture \in {"none", "ended"}
    /\ capture \in Live => held = Resources

(* A grant needs the table, a rule a grant or a word in the log, and only a  *)
(* run that got into the loop exits with 0.                                  *)
OutcomeAt ==
    /\ grant # "none" => "grants" \in held
    /\ rule = "granted" => grant # "none"
    /\ main # "exited" /\ capture = "none" => exit_code = 1

Progress == HeldAt /\ ThreadAt /\ OutcomeAt

DInv == DTypeOK /\ Progress

-----------------------------------------------------------------------------
LEMMA DaemonInit == DInit => DInv
<1> SUFFICES ASSUME DInit PROVE DInv
    OBVIOUS
<1>1. DTypeOK
    <2>1. g_running \in BOOLEAN /\ shutting_down \in BOOLEAN
        BY DEF DInit
    <2>2. socket \in Seq({"knock", "other"}) /\ Len(socket) <= SocketBuffer
        BY DaemonAssumption, EmptySeq DEF DInit
    <2>3. count \in 0..QUEUE_CAPACITY /\ exit_code \in {0, 1}
        BY DaemonAssumption DEF DInit
    <2> QED
        BY <2>1, <2>2, <2>3 DEF DInit, DTypeOK, MainStates, CaptureStates
<1>2. Progress
    BY DEF DInit, Progress, HeldAt, ThreadAt, OutcomeAt, LoopStates, Before,
           Releasing, Live
<1> QED
    BY <1>1, <1>2 DEF DInv

LEMMA DaemonTypes == DTypeOK /\ [DNext]_dvars => DTypeOK'
<1> SUFFICES ASSUME DTypeOK, [DNext]_dvars PROVE DTypeOK'
    OBVIOUS
<1> USE DaemonAssumption DEF DTypeOK, MainStates, CaptureStates, LoopStates,
        Resources, wire, queue, access, Goto
<1>1. CASE EarlyReturn
    BY <1>1 DEF EarlyReturn
<1>2. CASE StartUp
    <2>1. count' \in 0..QUEUE_CAPACITY
        BY <1>2 DEF StartUp
    <2>2. shutting_down' \in BOOLEAN /\ held' \subseteq Resources
        BY <1>2, Zenon DEF StartUp
    <2> QED
        BY <1>2, <2>1, <2>2 DEF StartUp
<1>3. CASE Initialise
    BY <1>3 DEF Initialise, InitStep
<1>4. CASE CreateThread
    BY <1>4 DEF CreateThread
<1>5. CASE CheckRunning
    BY <1>5 DEF CheckRunning
<1>6. CASE Wait
    BY <1>6 DEF Wait
<1>7. CASE ProcessEvent
    BY <1>7 DEF ProcessEvent
<1>8. CASE PopNext
    BY <1>8 DEF PopNext
<1>9. CASE PopEmpty
    BY <1>9 DEF PopEmpty
<1>10. CASE ExpireGrants
    BY <1>10 DEF ExpireGrants
<1>11. CASE Sweep
    BY <1>11 DEF Sweep
<1>12. CASE BeginCleanup
    BY <1>12 DEF BeginCleanup
<1>13. CASE Join
    BY <1>13 DEF Join
<1>14. CASE ReleaseAll
    BY <1>14 DEF ReleaseAll, Release, ShutDownFirewall
<1>15. CASE CaptureCheck
    BY <1>15 DEF CaptureCheck
<1>16. CASE RecvTimeout
    BY <1>16 DEF RecvTimeout
<1>17. CASE Push
    BY <1>17 DEF Push
<1>18. CASE EndCapture
    BY <1>18 DEF EndCapture
<1>19. CASE RecvError
    BY <1>19 DEF RecvError
<1>20. CASE RecvPacket
    BY <1>20, HeadTailProperties DEF RecvPacket
<1>21. CASE Arrive
    BY <1>21, AppendProperties DEF Arrive
<1>22. CASE RunOut
    BY <1>22 DEF RunOut
<1>23. CASE signal_handler
    BY <1>23 DEF signal_handler
<1>24. CASE UNCHANGED dvars
    BY <1>24 DEF dvars
<1> QED
    BY <1>1, <1>2, <1>3, <1>4, <1>5, <1>6, <1>7, <1>8, <1>9, <1>10, <1>11,
       <1>12, <1>13, <1>14, <1>15, <1>16, <1>17, <1>18, <1>19, <1>20, <1>21,
       <1>22, <1>23, <1>24
    DEF DNext, MainStep, CaptureStep, Gone

LEMMA ProgressKept == DInv /\ [DNext]_dvars => Progress'
<1> SUFFICES ASSUME DInv, [DNext]_dvars PROVE Progress'
    OBVIOUS
<1> USE DEF DInv, DTypeOK, Progress, HeldAt, ThreadAt, OutcomeAt, Before,
        Releasing, Live, LoopStates, Resources, wire, queue, access, Goto
<1>1. CASE EarlyReturn
    BY <1>1 DEF EarlyReturn
<1>2. CASE StartUp
    BY <1>2 DEF StartUp
<1>3. CASE Initialise
    BY <1>3 DEF Initialise, InitStep
<1>4. CASE CreateThread
    BY <1>4 DEF CreateThread
<1>5. CASE CheckRunning
    BY <1>5 DEF CheckRunning
<1>6. CASE Wait \/ ProcessEvent \/ PopNext \/ PopEmpty
    BY <1>6 DEF Wait, ProcessEvent, PopNext, PopEmpty
<1>7. CASE ExpireGrants \/ Sweep
    BY <1>7 DEF ExpireGrants, Sweep
<1>8. CASE BeginCleanup
    BY <1>8 DEF BeginCleanup
<1>9. CASE Join
    BY <1>9 DEF Join
<1>10. CASE ReleaseAll
    BY <1>10 DEF ReleaseAll, Release, ShutDownFirewall
<1>11. CASE CaptureCheck \/ RecvPacket \/ RecvTimeout \/ Push \/ RecvError
    BY <1>11 DEF CaptureCheck, RecvPacket, RecvTimeout, Push, RecvError
<1>12. CASE EndCapture
    BY <1>12 DEF EndCapture
<1>13. CASE Arrive \/ RunOut
    BY <1>13 DEF Arrive, RunOut
<1>14. CASE signal_handler
    BY <1>14 DEF signal_handler
<1>15. CASE Gone \/ UNCHANGED dvars
    BY <1>15 DEF Gone, dvars
<1> QED
    BY <1>1, <1>2, <1>3, <1>4, <1>5, <1>6, <1>7, <1>8, <1>9, <1>10, <1>11,
       <1>12, <1>13, <1>14, <1>15 DEF DNext, MainStep, CaptureStep

LEMMA DaemonInvariant == DSpec => []DInv
<1>1. DInv /\ [DNext]_dvars => DInv'
    BY DaemonTypes, ProgressKept DEF DInv
<1> QED
    BY DaemonInit, <1>1, PTL DEF DSpec

(* The state of main.c keeps its types: the counter of queued events stays   *)
(* within the queue, whatever the two threads, the network and signals do.   *)
THEOREM DaemonTypeCorrect == DSpec => []DTypeOK
<1>1. DInv => DTypeOK
    BY DEF DInv
<1> QED
    BY DaemonInvariant, <1>1, PTL

(* No thread uses a socket, queue or table that is not set up yet or already *)
(* released, on any path through start-up, signals and cleanup.              *)
THEOREM ResourcesOutliveTheirUsers == DSpec => []NoUseAfterRelease
<1>1. DInv => NoUseAfterRelease
    BY DEF DInv, Progress, HeldAt, ThreadAt, NoUseAfterRelease, Live, LoopStates,
           Resources
<1> QED
    BY DaemonInvariant, <1>1, PTL

(* Wherever start-up failed, an exited daemon has ended its thread and       *)
(* released all it acquired, and a rule that its firewall_shutdown() could   *)
(* not flush is in the log.                                                  *)
THEOREM EverythingReleased == DSpec => []NothingLeftBehind
<1>1. DInv => NothingLeftBehind
    BY DEF DInv, Progress, HeldAt, ThreadAt, OutcomeAt, NothingLeftBehind
<1> QED
    BY DaemonInvariant, <1>1, PTL

(* A daemon that comes through its cleanup without having started its        *)
(* capture thread exits with 1, on every path of start-up and with signals   *)
(* arriving in between.                                                      *)
THEOREM FailedStartsReported == DSpec => FailedStartIsReported
<1>1. DInv /\ [DNext]_dvars =>
        [main # "args" /\ main' = "exited" /\ main # main' /\ capture = "none"
            => exit_code' = 1]_dvars
    <2> SUFFICES ASSUME DInv, DNext, main # "args", main' = "exited",
                        main # main', capture = "none"
                 PROVE  exit_code' = 1
        OBVIOUS
    <2>1. exit_code = 1
        BY DEF DInv, Progress, OutcomeAt
    <2>2. ReleaseAll
        BY DEF DNext, MainStep, CaptureStep, EarlyReturn, StartUp, Initialise,
               InitStep, CreateThread, CheckRunning, Wait, ProcessEvent, PopNext,
               PopEmpty, ExpireGrants, Sweep, BeginCleanup, Join, CaptureCheck,
               RecvPacket, RecvTimeout, Push, EndCapture, RecvError, Arrive,
               RunOut, signal_handler, Gone, Goto
    <2> QED
        BY <2>1, <2>2 DEF ReleaseAll, Release, ShutDownFirewall
<1> QED
    BY DaemonInvariant, <1>1, PTL DEF DSpec, FailedStartIsReported

=============================================================================
