------------------------------- MODULE Sniffer -------------------------------
(***************************************************************************)
(* How sniffer.c tells a knock from any other packet: the link, IP and      *)
(* TCP or UDP headers are walked one after the other, and before each of    *)
(* them the length is checked.                                              *)
(*                                                                          *)
(* recvfrom() fills the first len bytes of a buffer that is not cleared.    *)
(* frame holds what the code finds at the places where the header fields    *)
(* should be; whatever lies behind len is a leftover, and may be anything.  *)
(***************************************************************************)
EXTENDS Integers

CONSTANTS
    Lens,        \* packet lengths
    Ihls,        \* values of the IP header length field, in words
    Ports,       \* destination ports
    KnockPorts,  \* those of the configured sequence
    Interfaces   \* interface indexes, from 1 on

ASSUME FrameAssumption ==
    /\ Lens \subseteq Nat /\ Ihls \subseteq 0..15
    /\ KnockPorts \subseteq Ports
    /\ Interfaces \subseteq Nat \ {0}
    /\ Lens # {} /\ Ihls # {} /\ Ports # {} /\ Interfaces # {}

(* "INCOMING" stands for every packet type but PACKET_OUTGOING: the code     *)
(* tells no other apart, a broadcast or a packet for another host included.  *)
Frames ==
    [sll_pkttype : {"INCOMING", "OUTGOING"}, sll_ifindex : Interfaces,
     sll_hatype : {"ETHER", "NONE"}, len : Lens,
     h_proto : {"IP", "other"},
     version : {4, 6}, ihl : Ihls, frag_off : {0, 1},
     protocol : {"TCP", "UDP", "other"},
     syn : BOOLEAN, ack : BOOLEAN, dest : Ports]

VARIABLES
    named,      \* does the configuration name an interface?
    g_ifindex,  \* the interface to listen on, or 0 for all
    pc,         \* where sniffer_next_knock() is
    frame,      \* the packet in the buffer; meaningless outside Parsing
    touched     \* how many bytes of the buffer the parser has looked at

snvars == <<named, g_ifindex, pc, frame, touched>>

Parsing == {"sll", "link", "ip", "header", "l4", "port"}

(* skipped: the loop goes on to the next packet; ok, again, error: the call  *)
(* returned; recv: in recvfrom().  An interface that was asked for is known  *)
(* once sniffer_init() is over: 0 would mean all of them.                    *)
SnTypeOK ==
    /\ named \in BOOLEAN /\ g_ifindex \in Interfaces \cup {0}
    /\ pc \notin {"init", "failed"} => (g_ifindex # 0 <=> named)
    /\ pc \in {"init", "failed", "recv", "skipped", "ok", "again", "error"}
              \cup Parsing
    /\ frame \in Frames
    /\ touched \in Nat

-----------------------------------------------------------------------------
Blank == CHOOSE f \in Frames : TRUE

SnInit ==
    /\ named \in BOOLEAN /\ g_ifindex = 0
    /\ pc = "init" /\ frame = Blank /\ touched = 0

(* Seeded fault: a name nobody knows is not noticed. *)
sniffer_init_AnyName ==
    /\ pc = "init"
    /\ \/ pc' = "failed" /\ UNCHANGED g_ifindex
       \/ /\ g_ifindex' \in IF named THEN Interfaces \cup {0} ELSE {0}
          /\ pc' = "again"
    /\ UNCHANGED <<named, frame, touched>>

(* -1 if there is no socket or if if_nametoindex() does not know the name. *)
sniffer_init ==
    /\ pc = "init"
    /\ \/ pc' = "failed" /\ UNCHANGED g_ifindex
       \/ /\ g_ifindex' \in IF named THEN Interfaces \cup {0} ELSE {0}
          /\ pc' = IF named /\ g_ifindex' = 0 THEN "failed" ELSE "again"
    /\ UNCHANGED <<named, frame, touched>>

(* The capture thread calls again, or the loop in the call goes on. *)
NextPacket ==
    /\ pc \in {"ok", "again", "skipped"}
    /\ pc' = "recv" /\ frame' = Blank /\ touched' = 0
    /\ UNCHANGED <<named, g_ifindex>>

Receive ==
    /\ pc = "recv"
    /\ frame' \in Frames
    /\ pc' = "sll"
    /\ UNCHANGED <<named, g_ifindex, touched>>

(* A timeout or a signal (SNIFFER_AGAIN), or a dead socket (SNIFFER_ERROR). *)
ReceiveNothing ==
    /\ pc = "recv"
    /\ pc' \in {"again", "error"}
    /\ UNCHANGED <<named, g_ifindex, frame, touched>>

-----------------------------------------------------------------------------
Longer(a, b) == IF a > b THEN a ELSE b

(* One header check: a packet shorter than need is skipped unseen; otherwise *)
(* the bytes before upto are looked at, and decide whether to go on to next. *)
Stage(p, need, upto, good, next) ==
    /\ pc = p
    /\ IF frame.len < need
       THEN pc' = "skipped" /\ UNCHANGED touched
       ELSE /\ touched' = Longer(touched, upto)
            /\ pc' = IF good THEN next ELSE "skipped"
    /\ UNCHANGED <<named, g_ifindex, frame>>

(* What the kernel says about the packet. *)
Direction ==
    Stage("sll", 0, 0,
          /\ frame.sll_pkttype # "OUTGOING"
          /\ g_ifindex = 0 \/ frame.sll_ifindex = g_ifindex,
          "link")

ETH_HLEN == 14

(* Tunnels have no link header; the loopback has one like Ethernet. *)
find_ip_offset == IF frame.sll_hatype = "ETHER" THEN ETH_HLEN ELSE 0

LinkHeader ==
    LET ether == frame.sll_hatype = "ETHER" IN
    Stage("link", IF ether THEN ETH_HLEN ELSE 0, IF ether THEN ETH_HLEN ELSE 0,
          ether => frame.h_proto = "IP", "ip")

IpHeader ==
    Stage("ip", find_ip_offset + 20, find_ip_offset + 1,
          frame.version = 4 /\ frame.ihl >= 5, "header")

l4_offset == find_ip_offset + frame.ihl * 4

(* Seeded fault: later fragments are parsed as if they had a header. *)
WholeIpHeader_AnyFragment ==
    Stage("header", l4_offset, find_ip_offset + 8, TRUE, "l4")

(* The options are there, and this is the first fragment. *)
WholeIpHeader ==
    Stage("header", l4_offset, find_ip_offset + 8, frame.frag_off = 0, "l4")

(* Seeded fault: nobody checks that the packet holds a TCP header. *)
TcpHeader_Unchecked ==
    /\ frame.protocol = "TCP"
    /\ Stage("l4", l4_offset, l4_offset + 14, frame.syn /\ ~frame.ack, "port")

TcpHeader ==
    /\ frame.protocol = "TCP"
    /\ Stage("l4", l4_offset + 20, l4_offset + 14,
             frame.syn /\ ~frame.ack, "port")

UdpHeader ==
    /\ frame.protocol = "UDP"
    /\ Stage("l4", l4_offset + 8, l4_offset + 4, TRUE, "port")

OtherProtocol ==
    /\ frame.protocol = "other"
    /\ Stage("l4", 0, find_ip_offset + 10, FALSE, "port")

is_knock_port(port) == port \in KnockPorts

(* The source address is read only now. *)
PortMatch ==
    Stage("port", 0, find_ip_offset + 16, is_knock_port(frame.dest), "ok")

Parse ==
    \/ Direction \/ LinkHeader \/ IpHeader \/ WholeIpHeader
    \/ TcpHeader \/ UdpHeader \/ OtherProtocol \/ PortMatch

(* No socket, or the capture thread ended after an error. *)
Over == pc \in {"failed", "error"} /\ UNCHANGED snvars

SnNext ==
    sniffer_init \/ NextPacket \/ Receive \/ ReceiveNothing \/ Parse \/ Over

SnSpec == SnInit /\ [][SnNext]_snvars

-----------------------------------------------------------------------------
(* "Every offset is bounds-checked against the number of bytes we actually   *)
(* received" (sniffer.c:6): on no path through the checks does a byte behind *)
(* the packet, left over from an earlier one or never written, get looked    *)
(* at, whatever the header length field claims.                              *)
ReadsWithinPacket == pc \in Parsing \cup {"skipped", "ok"} => touched <= frame.len

LinkLen(f) == IF f.sll_hatype = "ETHER" THEN 14 ELSE 0

(* A knock, by the protocols: an incoming IPv4 packet on the interface       *)
(* listened on, whole up to the end of its transport header, which is in the *)
(* first fragment only; a SYN that is no SYN-ACK, or a datagram; to a knock  *)
(* port.                                                                     *)
IsKnock(f) ==
    LET transport == [TCP |-> 20, UDP |-> 8] IN
    /\ f.sll_pkttype = "INCOMING" /\ g_ifindex \in {0, f.sll_ifindex}
    /\ f.sll_hatype = "ETHER" => f.h_proto = "IP"
    /\ f.version = 4 /\ f.ihl \in 5..15 /\ f.frag_off = 0
    /\ f.protocol \in DOMAIN transport
    /\ f.len >= LinkLen(f) + 4 * f.ihl + transport[f.protocol]
    /\ f.protocol = "TCP" => f.syn /\ ~f.ack
    /\ f.dest \in KnockPorts

(* The ordered checks, each of which relies on those before it, return every *)
(* knock and nothing but knocks: neither a later fragment, a short packet    *)
(* nor an odd link type gets through, and none of the checks for them costs  *)
(* a client its knock.                                                       *)
VerdictIsRight ==
    /\ pc = "ok" => IsKnock(frame)
    /\ pc = "skipped" => ~IsKnock(frame)

=============================================================================
