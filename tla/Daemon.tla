-------------------------------- MODULE Daemon -------------------------------
(***************************************************************************)
(* The daemon's life in main.c: start-up with a failure possible at every   *)
(* step, the capture thread, the processor loop on the main thread, signals *)
(* and the orderly stop.  What the components do inside is modelled in      *)
(* Knocker, PacketQueue and Firewall; here they are resources that are set  *)
(* up, used and released, a counter of queued events and one client's       *)
(* grant, with the rule that goes with it.  Other clients are only seen by  *)
(* what they do to this one: the table is full, a pass expires others first. *)
(*                                                                          *)
(* The raw socket is a bounded buffer of packets that are knocks or not:    *)
(* sniffer_next_knock() only returns for a knock, a timeout or an error.    *)
(***************************************************************************)
EXTENDS Integers, Sequences

CONSTANTS
    QUEUE_CAPACITY,
    SocketBuffer  \* packets the socket's receive buffer holds

ASSUME DaemonAssumption ==
    /\ QUEUE_CAPACITY \in Nat \ {0}
    /\ SocketBuffer \in Nat \ {0}

VARIABLES
    g_running,
    main,           \* where the main thread is
    capture,        \* where the capture thread is
    socket,         \* packets received and not yet read
    count,          \* events in the packet queue
    shutting_down,  \* the packet queue's flag
    grant,          \* a client's entry in the grant table: "none", "open",
                    \* or "due" to expire
    rule,           \* that client's ACCEPT rule: "none"; "granted", in place;
                    \* "doubtful": iptables failed on it and the log says so,
                    \* it may be there or not
    held,           \* resources that are set up
    exit_code

wire == <<socket>>
queue == <<count, shutting_down>>
access == <<grant, rule>>
dvars == <<g_running, main, capture, socket, queue, access, held, exit_code>>

Resources == {"queue", "clients", "grants", "sock_fd"}

LoopStates == {"check", "wait", "process", "pop", "tick", "sweep"}

MainStates ==
    {"args", "knocker_init", "firewall_init", "sniffer_init", "create"}
    \cup LoopStates
    \cup {"cleanup", "join", "sniffer_close", "firewall_shutdown",
          "knocker_shutdown", "queue_destroy", "exited"}

CaptureStates == {"none", "check", "recv", "push", "shutdown", "ended"}

DTypeOK ==
    /\ g_running \in BOOLEAN
    /\ main \in MainStates /\ capture \in CaptureStates
    /\ socket \in Seq({"knock", "other"}) /\ Len(socket) <= SocketBuffer
    /\ count \in 0..QUEUE_CAPACITY /\ shutting_down \in BOOLEAN
    /\ grant \in {"none", "open", "due"}
    /\ rule \in {"none", "granted", "doubtful"}
    /\ held \subseteq Resources
    /\ exit_code \in {0, 1}

-----------------------------------------------------------------------------
DInit ==
    /\ g_running = TRUE
    /\ main = "args" /\ capture = "none"
    /\ socket = <<>>
    /\ count = 0 /\ shutting_down = FALSE
    /\ grant = "none" /\ rule = "none"
    /\ held = {}
    /\ exit_code = 1

Goto(p) == main' = p

(* --help and --version end the process at once, and so do a bad option, a   *)
(* missing privilege and a config file given with -c that cannot be read.    *)
EarlyReturn ==
    /\ main = "args"
    /\ exit_code' \in {0, 1}
    /\ Goto("exited")
    /\ UNCHANGED <<g_running, capture, wire, queue, access, held>>

(* The configuration is loaded, the signal handler is installed and          *)
(* pktqueue_init() called.                                                   *)
StartUp ==
    /\ main = "args"
    /\ held' = {"queue"} /\ count' = 0 /\ shutting_down' = FALSE
    /\ Goto("knocker_init")
    /\ UNCHANGED <<g_running, capture, wire, access, exit_code>>

(* Seeded fault: a failed initialiser returns instead of cleaning up. *)
InitStep_JustReturns(p, resource, next) ==
    /\ main = p
    /\ \/ held' = held \cup {resource} /\ Goto(next)
       \/ Goto("exited") /\ UNCHANGED held
    /\ UNCHANGED <<g_running, capture, wire, queue, access, exit_code>>

(* One initialiser of main(): it acquires its resource, or main() goes to    *)
(* its cleanup label.  One that fails has given back what it allocated; what *)
(* a failed firewall_init() leaves in the packet filter is in Firewall.      *)
InitStep(p, resource, next) ==
    /\ main = p
    /\ \/ held' = held \cup {resource} /\ Goto(next)
       \/ Goto("cleanup") /\ UNCHANGED held
    /\ UNCHANGED <<g_running, capture, wire, queue, access, exit_code>>

Initialise ==
    \/ InitStep("knocker_init", "clients", "firewall_init")
    \/ InitStep("firewall_init", "grants", "sniffer_init")
    \/ InitStep("sniffer_init", "sock_fd", "create")

(* pthread_create() *)
CreateThread ==
    /\ main = "create"
    /\ \/ capture' = "check" /\ Goto("check")
       \/ Goto("cleanup") /\ UNCHANGED capture
    /\ UNCHANGED <<g_running, wire, queue, access, held, exit_code>>

-----------------------------------------------------------------------------
(* run_processor() *)

(* The loop condition; when the loop ends main() sets its exit code. *)
CheckRunning ==
    /\ main = "check"
    /\ IF g_running THEN Goto("wait") /\ UNCHANGED exit_code
                    ELSE Goto("cleanup") /\ exit_code' = 0
    /\ UNCHANGED <<g_running, capture, wire, queue, access, held>>

(* pktqueue_wait(): an event, or -1 after a timeout or a shutdown. *)
Wait ==
    /\ main = "wait"
    /\ \/ count > 0 /\ count' = count - 1 /\ Goto("process")
       \/ count = 0 /\ Goto("tick") /\ UNCHANGED count
    /\ UNCHANGED <<g_running, capture, wire, shutting_down, access, held, exit_code>>

(* process_event(): most knocks change nothing here, nor does a completed    *)
(* sequence that finds the table full.  Another one extends the grant, even  *)
(* when it is due to expire, or opens one; when iptables is said to have     *)
(* failed the slot is free again and the failure logged.                     *)
ProcessEvent ==
    /\ main = "process"
    /\ \/ UNCHANGED access
       \/ grant # "none" /\ grant' = "open" /\ UNCHANGED rule
       \/ /\ grant = "none" /\ grant' = "open"
          /\ rule' = IF rule = "none" THEN "granted" ELSE rule
       \/ grant = "none" /\ rule' = "doubtful" /\ UNCHANGED grant
    /\ Goto("pop")
    /\ UNCHANGED <<g_running, capture, wire, queue, held, exit_code>>

(* while (pktqueue_pop(&evt) == 0): the drain goes on as long as there is an *)
(* event, whatever g_running says.                                           *)
PopNext ==
    /\ main = "pop" /\ count > 0
    /\ count' = count - 1 /\ Goto("process")
    /\ UNCHANGED <<g_running, capture, wire, shutting_down, access, held, exit_code>>

(* Seeded fault: grants are expired only when no event came. *)
PopEmpty_SkipsTick ==
    /\ main = "pop" /\ count = 0
    /\ Goto("check")
    /\ UNCHANGED <<g_running, capture, wire, queue, access, held, exit_code>>

PopEmpty ==
    /\ main = "pop" /\ count = 0
    /\ Goto("tick")
    /\ UNCHANGED <<g_running, capture, wire, queue, access, held, exit_code>>

(* firewall_tick(): a grant that is due may have to wait for a later pass,   *)
(* as MAX_EXPIRY_PER_TICK others come first.  A delete that fails is only    *)
(* logged, and where iptables failed before there may be a second rule.      *)
ExpireGrants ==
    /\ main = "tick"
    /\ \/ UNCHANGED access
       \/ /\ grant = "due" /\ grant' = "none"
          /\ rule' \in {"doubtful"} \cup IF rule = "granted" THEN {"none"} ELSE {}
    /\ main' \in {"sweep", "check"}
    /\ UNCHANGED <<g_running, capture, wire, queue, held, exit_code>>

(* knocker_cleanup_stale(), when STALE_SCAN_INTERVAL has passed *)
Sweep ==
    /\ main = "sweep"
    /\ Goto("check")
    /\ UNCHANGED <<g_running, capture, wire, queue, access, held, exit_code>>

-----------------------------------------------------------------------------
(* The cleanup label of main() *)

(* Seeded fault: whoever gets here has shut down in good order. *)
BeginCleanup_Success ==
    /\ main = "cleanup"
    /\ g_running' = FALSE /\ shutting_down' = TRUE /\ exit_code' = 0
    /\ Goto("join")
    /\ UNCHANGED <<capture, wire, count, access, held>>

BeginCleanup ==
    /\ main = "cleanup"
    /\ g_running' = FALSE /\ shutting_down' = TRUE
    /\ Goto("join")
    /\ UNCHANGED <<capture, wire, count, access, held, exit_code>>

(* Seeded fault: the capture thread is not waited for. *)
Join_NoWait ==
    /\ main = "join"
    /\ Goto("sniffer_close")
    /\ UNCHANGED <<g_running, capture, wire, queue, access, held, exit_code>>

(* pthread_join(), if the thread was started *)
Join ==
    /\ main = "join"
    /\ capture \in {"none", "ended"}
    /\ Goto("sniffer_close")
    /\ UNCHANGED <<g_running, capture, wire, queue, access, held, exit_code>>

Release(p, resource, next) ==
    /\ main = p
    /\ held' = held \ {resource}
    /\ Goto(next)
    /\ UNCHANGED <<g_running, capture, wire, queue, access, exit_code>>

(* firewall_shutdown() returns at once without a table.  Otherwise the flush *)
(* takes all rules away, or it fails and the log says that grants may still  *)
(* be in place.                                                              *)
ShutDownFirewall ==
    /\ main = "firewall_shutdown"
    /\ \/ "grants" \notin held /\ UNCHANGED access
       \/ /\ "grants" \in held /\ grant' = "none"
          /\ rule' \in {"none", "doubtful"}
    /\ held' = held \ {"grants"}
    /\ Goto("knocker_shutdown")
    /\ UNCHANGED <<g_running, capture, wire, queue, exit_code>>

ReleaseAll ==
    \/ Release("sniffer_close", "sock_fd", "firewall_shutdown")
    \/ ShutDownFirewall
    \/ Release("knocker_shutdown", "clients", "queue_destroy")
    \/ Release("queue_destroy", "queue", "exited")

MainStep ==
    \/ EarlyReturn \/ StartUp \/ Initialise \/ CreateThread
    \/ CheckRunning \/ Wait \/ ProcessEvent \/ PopNext \/ PopEmpty
    \/ ExpireGrants \/ Sweep
    \/ BeginCleanup \/ Join \/ ReleaseAll

-----------------------------------------------------------------------------
(* capture_thread() *)

(* Seeded fault: the capture thread does not look at g_running. *)
CaptureCheck_Deaf ==
    /\ capture = "check"
    /\ capture' = "recv"
    /\ UNCHANGED <<g_running, main, wire, queue, access, held, exit_code>>

CaptureCheck ==
    /\ capture = "check"
    /\ capture' = IF g_running THEN "recv" ELSE "shutdown"
    /\ UNCHANGED <<g_running, main, wire, queue, access, held, exit_code>>

(* sniffer_next_knock(): a knock is returned, every other packet is skipped  *)
(* and recvfrom() called again without returning.                            *)
RecvPacket ==
    /\ capture = "recv" /\ socket # <<>>
    /\ socket' = Tail(socket)
    /\ capture' = IF Head(socket) = "knock" THEN "push" ELSE "recv"
    /\ UNCHANGED <<g_running, main, queue, access, held, exit_code>>

(* SNIFFER_AGAIN: SO_RCVTIMEO ran out with no packet at all *)
RecvTimeout ==
    /\ capture = "recv" /\ socket = <<>>
    /\ capture' = "check"
    /\ UNCHANGED <<g_running, main, wire, queue, access, held, exit_code>>

(* SNIFFER_ERROR stops the daemon. *)
RecvError ==
    /\ capture = "recv"
    /\ g_running' = FALSE
    /\ capture' = "shutdown"
    /\ UNCHANGED <<main, wire, queue, access, held, exit_code>>

(* Seeded fault: the queue has no limit. *)
Push_Unbounded ==
    /\ capture = "push"
    /\ count' = count + 1
    /\ capture' = "check"
    /\ UNCHANGED <<g_running, main, wire, shutting_down, access, held, exit_code>>

(* pktqueue_push(): a full queue drops the event. *)
Push ==
    /\ capture = "push"
    /\ count' = IF count < QUEUE_CAPACITY THEN count + 1 ELSE count
    /\ capture' = "check"
    /\ UNCHANGED <<g_running, main, wire, shutting_down, access, held, exit_code>>

(* pktqueue_shutdown() and the end of the thread *)
EndCapture ==
    /\ capture = "shutdown"
    /\ shutting_down' = TRUE
    /\ capture' = "ended"
    /\ UNCHANGED <<g_running, main, wire, count, access, held, exit_code>>

CaptureStep == CaptureCheck \/ RecvPacket \/ RecvTimeout \/ Push \/ EndCapture

-----------------------------------------------------------------------------
(* The world: packets arrive, grants run out, SIGINT or SIGTERM is sent. *)

Arrive ==
    /\ "sock_fd" \in held
    /\ Len(socket) < SocketBuffer
    /\ \E kind \in {"knock", "other"} : socket' = Append(socket, kind)
    /\ UNCHANGED <<g_running, main, capture, queue, access, held, exit_code>>

RunOut ==
    /\ grant = "open"
    /\ grant' = "due"
    /\ UNCHANGED <<g_running, main, capture, wire, queue, rule, held, exit_code>>

(* Whichever thread runs the handler: on the capture thread it also cuts     *)
(* recvfrom() short (EINTR, and SNIFFER_AGAIN).                              *)
signal_handler ==
    /\ main \notin {"args", "exited"}
    /\ g_running' = FALSE
    /\ capture' \in {capture} \cup IF capture = "recv" THEN {"check"} ELSE {}
    /\ UNCHANGED <<main, wire, queue, access, held, exit_code>>

(* The process is over. *)
Gone == main = "exited" /\ UNCHANGED dvars

DNext ==
    \/ MainStep \/ CaptureStep \/ RecvError
    \/ Arrive \/ RunOut \/ signal_handler
    \/ Gone

DSpec == DInit /\ [][DNext]_dvars

(* Both threads are scheduled: whatever a thread can do for ever it does.    *)
(* Nothing is assumed of packets, errors, signals and the clock.             *)
Scheduled == WF_dvars(MainStep) /\ WF_dvars(CaptureStep)

ScheduledSpec == DSpec /\ Scheduled

(* A network that again and again is silent for a receive timeout: the code  *)
(* does not see to it, see StopsWhenTold.                                    *)
Lulls == SF_dvars(RecvTimeout)

LullSpec == ScheduledSpec /\ Lulls

-----------------------------------------------------------------------------
(* No thread uses what is not set up yet or is already released: a knock is  *)
(* only captured while the firewall can act on it (the comment at            *)
(* main.c:313), the socket is not closed under recvfrom(), the queue not     *)
(* destroyed under a push, the tables not freed under the processor.         *)
NoUseAfterRelease ==
    /\ capture \in {"check", "recv", "push", "shutdown"} =>
          {"sock_fd", "queue", "grants"} \subseteq held
    /\ main \in LoopStates => held = Resources

(* A stopped daemon has ended its thread and released everything it acquired *)
(* on whichever path start-up took, and its client has no access any more    *)
(* ("stopping knockd closes the protected port", firewall.c:401), unless the *)
(* shutdown itself warned that the rules may still be in place.              *)
NothingLeftBehind ==
    main = "exited" => /\ capture \in {"none", "ended"}
                       /\ held = {}
                       /\ rule # "granted"

(* A daemon that comes through its cleanup and never started its capture     *)
(* thread tells its supervisor so, also when a signal arrived during         *)
(* start-up: knockd.service restarts it on failure only.                     *)
FailedStartIsReported ==
    [][main # "args" /\ main' = "exited" /\ main # main' /\ capture = "none"
          => exit_code' = 1]_dvars

(* Once g_running is cleared, by a signal or a dead socket, the daemon       *)
(* exits: neither thread waits for the other for ever.                       *)
StopsWhenTold == ~g_running ~> main = "exited"

(* README.md:340, "Expiry is checked a few times a second": a grant that is  *)
(* due does not wait for ever for the next firewall_tick().                  *)
ExpiryIsChecked == grant = "due" ~> main \in {"tick", "exited"}

(* The drain loop of run_processor() is the one place where expiry can wait  *)
(* for ever, and only there does traffic hold it up: a daemon that leaves    *)
(* that loop again and again checks every due grant, however the knocks, the *)
(* timeouts, the sweeps and the signals fall.                                *)
OnlyTheDrainDelaysExpiry ==
    \/ grant = "due" ~> main \in {"tick", "exited"}
    \/ <>[](main \in {"process", "pop"})

=============================================================================
