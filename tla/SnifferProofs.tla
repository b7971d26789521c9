---------------------------- MODULE SnifferProofs ----------------------------
(***************************************************************************)
(* The header checks of sniffer.c, for packets of every length and with any *)
(* header length field: no byte behind the packet is looked at, and knocks  *)
(* are told from everything else.                                           *)
(*                                                                          *)
(* A check is sound only because of those before it: the length of the IP   *)
(* header is trusted once it is known to lie inside the packet.  Passed     *)
(* says what is known about the packet at each point of the chain.          *)
(***************************************************************************)
EXTENDS Sniffer, TLAPS

(* The points of the chain, from each check on. *)
FromPort == {"port", "ok"}
FromL4 == {"l4"} \cup FromPort
FromHeader == {"header"} \cup FromL4
FromIp == {"ip"} \cup FromHeader
FromLink == {"link"} \cup FromIp

(* A TCP connection attempt or a UDP datagram, with its whole header. *)
WholeTransport(f) ==
    \/ f.protocol = "TCP" /\ f.len >= LinkLen(f) + 4 * f.ihl + 20 /\ f.syn /\ ~f.ack
    \/ f.protocol = "UDP" /\ f.len >= LinkLen(f) + 4 * f.ihl + 8

Passed ==
    /\ pc \in FromLink => /\ frame.sll_pkttype = "INCOMING"
                          /\ g_ifindex \in {0, frame.sll_ifindex}
    /\ pc \in FromIp => /\ frame.sll_hatype = "ETHER" => frame.h_proto = "IP"
                        /\ frame.len >= LinkLen(frame)
    /\ pc \in FromHeader => /\ frame.version = 4 /\ frame.ihl >= 5
                            /\ frame.len >= LinkLen(frame) + 20
    /\ pc \in FromL4 => /\ frame.len >= LinkLen(frame) + 4 * frame.ihl
                        /\ frame.frag_off = 0
    /\ pc \in FromPort => WholeTransport(frame)
    /\ pc = "ok" => frame.dest \in KnockPorts

(* A packet is looked at from its first byte on. *)
Untouched == pc = "recv" => touched = 0

SnInv == SnTypeOK /\ Passed /\ Untouched /\ ReadsWithinPacket /\ VerdictIsRight

-----------------------------------------------------------------------------
(* What the code may rely on about any packet. *)
LEMMA FrameFacts ==
    ASSUME NEW f \in Frames
    PROVE  /\ f.len \in Nat /\ f.ihl \in 0..15
           /\ f.sll_pkttype \in {"INCOMING", "OUTGOING"}
           /\ f.sll_hatype \in {"ETHER", "NONE"}
           /\ f.version \in {4, 6} /\ f.frag_off \in {0, 1}
           /\ f.protocol \in {"TCP", "UDP", "other"}
           /\ f.sll_ifindex \in Interfaces
           /\ LinkLen(f) \in {0, 14}
    BY FrameAssumption DEF Frames, LinkLen

LEMMA BlankFrame == Blank \in Frames
<1>1. PICK len \in Lens, ihl \in Ihls, port \in Ports, index \in Interfaces : TRUE
    BY FrameAssumption
<1>2. [sll_pkttype |-> "INCOMING", sll_ifindex |-> index, sll_hatype |-> "NONE",
       len |-> len, h_proto |-> "IP", version |-> 4, ihl |-> ihl, frag_off |-> 0,
       protocol |-> "TCP", syn |-> TRUE, ack |-> FALSE, dest |-> port] \in Frames
    BY <1>1 DEF Frames
<1> QED
    BY <1>2 DEF Blank

(* A knock, with the cases of its transport spelt out. *)
LEMMA KnockMeans ==
    ASSUME NEW f \in Frames
    PROVE  IsKnock(f) <=> /\ f.sll_pkttype = "INCOMING"
                          /\ g_ifindex \in {0, f.sll_ifindex}
                          /\ f.sll_hatype = "ETHER" => f.h_proto = "IP"
                          /\ f.version = 4 /\ f.ihl >= 5 /\ f.frag_off = 0
                          /\ WholeTransport(f)
                          /\ f.dest \in KnockPorts
<1> DEFINE transport == [TCP |-> 20, UDP |-> 8]
<1>1. DOMAIN transport = {"TCP", "UDP"} /\ transport["TCP"] = 20
      /\ transport["UDP"] = 8
    OBVIOUS
<1>2. f.ihl \in 5..15 <=> f.ihl >= 5
    BY FrameFacts
<1>3. /\ f.protocol \in DOMAIN transport
      /\ f.len >= LinkLen(f) + 4 * f.ihl + transport[f.protocol]
      /\ f.protocol = "TCP" => f.syn /\ ~f.ack
      <=> WholeTransport(f)
    BY <1>1, FrameFacts DEF WholeTransport
<1> QED
    BY <1>2, <1>3 DEF IsKnock

LEMMA SnifferInit == SnInit => SnInv
    BY BlankFrame
    DEF SnInit, SnInv, SnTypeOK, Passed, Untouched, ReadsWithinPacket,
        VerdictIsRight, Parsing, FromLink, FromIp, FromHeader, FromL4, FromPort

(* What a single check has to show: it stays inside the packet, it adds to   *)
(* what is known if it goes on, and what it throws away is no knock.         *)
LEMMA CheckKeeps ==
    ASSUME SnInv, pc \in Parsing,
           named' = named, g_ifindex' = g_ifindex, frame' = frame,
           pc' \in FromLink \cup {"skipped"},
           touched' \in Nat, touched' <= frame.len,
           Passed', pc' = "skipped" => ~IsKnock(frame)
    PROVE  SnInv'
<1> USE DEF SnInv
<1>1. SnTypeOK'
    BY DEF SnTypeOK, Parsing, FromLink, FromIp, FromHeader, FromL4, FromPort
<1>2. Untouched'
    BY DEF Untouched, FromLink, FromIp, FromHeader, FromL4, FromPort
<1>3. ReadsWithinPacket'
    BY DEF ReadsWithinPacket
<1>4. IsKnock(frame)' <=> IsKnock(frame)
    BY DEF IsKnock, LinkLen
<1>5. pc' = "ok" => IsKnock(frame)
    BY KnockMeans DEF SnTypeOK, Passed, FromLink, FromIp, FromHeader, FromL4,
                      FromPort, WholeTransport, LinkLen
<1>6. VerdictIsRight'
    BY <1>4, <1>5 DEF VerdictIsRight
<1> QED
    BY <1>1, <1>2, <1>3, <1>6

LEMMA ParseKeeps == SnInv /\ Parse => SnInv'
<1> SUFFICES ASSUME SnInv, Parse PROVE SnInv'
    OBVIOUS
<1> USE DEF SnInv
<1>1. /\ frame \in Frames /\ frame.len \in Nat /\ frame.ihl \in 0..15
      /\ LinkLen(frame) \in {0, 14} /\ find_ip_offset = LinkLen(frame)
      /\ l4_offset = LinkLen(frame) + 4 * frame.ihl
      /\ touched \in Nat
    BY FrameFacts DEF SnTypeOK, find_ip_offset, LinkLen, ETH_HLEN, l4_offset
<1>2. pc \in Parsing => touched <= frame.len
    BY DEF ReadsWithinPacket
<1>3. frame.sll_pkttype \in {"INCOMING", "OUTGOING"}
    BY <1>1, FrameFacts
<1> DEFINE Kept == named' = named /\ g_ifindex' = g_ifindex /\ frame' = frame
<1> USE DEF FromLink, FromIp, FromHeader, FromL4, FromPort
<1>4. CASE Direction
    <2>1. Kept /\ pc = "sll" /\ pc \in Parsing
        BY <1>4 DEF Direction, Stage, Parsing
    <2>2. touched' \in Nat /\ touched' <= frame.len
        BY <1>1, <1>2, <1>4, <2>1 DEF Direction, Stage, Longer
    <2>3. pc' \in {"link", "skipped"}
        BY <1>1, <1>4 DEF Direction, Stage
    <2>4. Passed'
        BY <1>1, <1>3, <1>4, <2>1, <2>3 DEF Direction, Stage, Passed
    <2>5. pc' = "skipped" => ~IsKnock(frame)
        BY <1>1, <1>3, <1>4, <2>1, KnockMeans DEF Direction, Stage
    <2> QED
        BY <2>1, <2>2, <2>3, <2>4, <2>5, CheckKeeps
<1>5. CASE LinkHeader
    <2>1. Kept /\ pc = "link" /\ pc \in Parsing
        BY <1>5 DEF LinkHeader, Stage, Parsing
    <2>2. touched' \in Nat /\ touched' <= frame.len
        BY <1>1, <1>2, <1>5, <2>1 DEF LinkHeader, Stage, Longer, ETH_HLEN
    <2>3. pc' \in {"ip", "skipped"}
        BY <1>5 DEF LinkHeader, Stage
    <2>4. Passed'
        BY <1>1, <1>5, <2>1, <2>3 DEF LinkHeader, Stage, Passed, LinkLen, ETH_HLEN
    <2>5. pc' = "skipped" => ~IsKnock(frame)
        BY <1>1, <1>5, <2>1, KnockMeans
        DEF LinkHeader, Stage, WholeTransport, LinkLen, ETH_HLEN
    <2> QED
        BY <2>1, <2>2, <2>3, <2>4, <2>5, CheckKeeps
<1>6. CASE IpHeader
    <2>1. Kept /\ pc = "ip" /\ pc \in Parsing
        BY <1>6 DEF IpHeader, Stage, Parsing
    <2>2. touched' \in Nat /\ touched' <= frame.len
        BY <1>1, <1>2, <1>6, <2>1 DEF IpHeader, Stage, Longer
    <2>3. pc' \in {"header", "skipped"}
        BY <1>6 DEF IpHeader, Stage
    <2>4. Passed'
        BY <1>1, <1>6, <2>1, <2>3 DEF IpHeader, Stage, Passed, LinkLen
    <2>5. pc' = "skipped" => ~IsKnock(frame)
        BY <1>1, <1>6, <2>1, KnockMeans DEF IpHeader, Stage, WholeTransport
    <2> QED
        BY <2>1, <2>2, <2>3, <2>4, <2>5, CheckKeeps
<1>7. CASE WholeIpHeader
    <2>1. Kept /\ pc = "header" /\ pc \in Parsing
        BY <1>7 DEF WholeIpHeader, Stage, Parsing
    <2>2. frame.len >= LinkLen(frame) + 20
        BY <2>1 DEF Passed
    <2>3. touched' \in Nat /\ touched' <= frame.len
        BY <1>1, <1>2, <1>7, <2>1, <2>2 DEF WholeIpHeader, Stage, Longer
    <2>4. pc' \in {"l4", "skipped"}
        BY <1>7 DEF WholeIpHeader, Stage
    <2>5. Passed'
        BY <1>1, <1>7, <2>1, <2>4 DEF WholeIpHeader, Stage, Passed, LinkLen
    <2>6. pc' = "skipped" => ~IsKnock(frame)
        BY <1>1, <1>7, <2>1, KnockMeans DEF WholeIpHeader, Stage, WholeTransport
    <2> QED
        BY <2>1, <2>3, <2>4, <2>5, <2>6, CheckKeeps
<1>8. CASE TcpHeader
    <2>1. Kept /\ pc = "l4" /\ pc \in Parsing
        BY <1>8 DEF TcpHeader, Stage, Parsing
    <2>2. touched' \in Nat /\ touched' <= frame.len
        BY <1>1, <1>2, <1>8, <2>1 DEF TcpHeader, Stage, Longer
    <2>3. pc' \in {"port", "skipped"}
        BY <1>8 DEF TcpHeader, Stage
    <2>4. pc' = "port" <=> WholeTransport(frame)
        BY <1>1, <1>8, <2>3 DEF TcpHeader, Stage, WholeTransport
    <2>5. Passed'
        BY <2>1, <2>3, <2>4 DEF Passed, WholeTransport, LinkLen
    <2>6. pc' = "skipped" => ~IsKnock(frame)
        BY <1>1, <2>3, <2>4, KnockMeans
    <2> QED
        BY <2>1, <2>2, <2>3, <2>5, <2>6, CheckKeeps
<1>9. CASE UdpHeader
    <2>1. Kept /\ pc = "l4" /\ pc \in Parsing
        BY <1>9 DEF UdpHeader, Stage, Parsing
    <2>2. touched' \in Nat /\ touched' <= frame.len
        BY <1>1, <1>2, <1>9, <2>1 DEF UdpHeader, Stage, Longer
    <2>3. pc' \in {"port", "skipped"}
        BY <1>9 DEF UdpHeader, Stage
    <2>4. pc' = "port" <=> WholeTransport(frame)
        BY <1>1, <1>9, <2>3 DEF UdpHeader, Stage, WholeTransport
    <2>5. Passed'
        BY <2>1, <2>3, <2>4 DEF Passed, WholeTransport, LinkLen
    <2>6. pc' = "skipped" => ~IsKnock(frame)
        BY <1>1, <2>3, <2>4, KnockMeans
    <2> QED
        BY <2>1, <2>2, <2>3, <2>5, <2>6, CheckKeeps
<1>10. CASE OtherProtocol
    <2>1. Kept /\ pc = "l4" /\ pc \in Parsing
        BY <1>10 DEF OtherProtocol, Stage, Parsing
    <2>2. frame.len >= LinkLen(frame) + 20
        BY <2>1 DEF Passed
    <2>3. touched' \in Nat /\ touched' <= frame.len /\ pc' = "skipped"
        BY <1>1, <1>2, <1>10, <2>1, <2>2 DEF OtherProtocol, Stage, Longer
    <2>4. Passed'
        BY <2>3 DEF Passed
    <2>5. ~IsKnock(frame)
        BY <1>1, <1>10, KnockMeans DEF OtherProtocol, WholeTransport
    <2> QED
        BY <2>1, <2>3, <2>4, <2>5, CheckKeeps
<1>11. CASE PortMatch
    <2>1. Kept /\ pc = "port" /\ pc \in Parsing
        BY <1>11 DEF PortMatch, Stage, Parsing
    <2>2. frame.len >= LinkLen(frame) + 20
        BY <2>1 DEF Passed
    <2>3. touched' \in Nat /\ touched' <= frame.len
        BY <1>1, <1>2, <1>11, <2>1, <2>2 DEF PortMatch, Stage, Longer
    <2>4. pc' = IF frame.dest \in KnockPorts THEN "ok" ELSE "skipped"
        BY <1>1, <1>11 DEF PortMatch, Stage, is_knock_port
    <2>5. Passed'
        BY <2>1, <2>4 DEF Passed, WholeTransport, LinkLen
    <2>6. pc' = "skipped" => ~IsKnock(frame)
        BY <1>1, <2>4, KnockMeans
    <2> QED
        BY <2>1, <2>3, <2>4, <2>5, <2>6, CheckKeeps
<1> QED
    BY <1>4, <1>5, <1>6, <1>7, <1>8, <1>9, <1>10, <1>11 DEF Parse

LEMMA SnifferInductive == SnInv /\ [SnNext]_snvars => SnInv'
<1> SUFFICES ASSUME SnInv, [SnNext]_snvars PROVE SnInv'
    OBVIOUS
<1> USE DEF SnInv, Passed, Untouched, ReadsWithinPacket, VerdictIsRight, SnTypeOK,
        Parsing, FromLink, FromIp, FromHeader, FromL4, FromPort
<1>1. CASE sniffer_init
    BY <1>1 DEF sniffer_init
<1>2. CASE NextPacket
    BY <1>2, BlankFrame DEF NextPacket
<1>3. CASE Receive
    BY <1>3, FrameFacts DEF Receive
<1>4. CASE ReceiveNothing
    BY <1>4 DEF ReceiveNothing
<1>5. CASE Parse
    BY <1>5, ParseKeeps
<1>6. CASE UNCHANGED snvars
    BY <1>6 DEF snvars, WholeTransport, LinkLen, IsKnock
<1> QED
    BY <1>1, <1>2, <1>3, <1>4, <1>5, <1>6 DEF SnNext, Over

LEMMA SnifferInvariant == SnSpec => []SnInv
    BY SnifferInit, SnifferInductive, PTL DEF SnSpec

(* The parser's state keeps its types, and once sniffer_init() has succeeded *)
(* an interface that was asked for is known: index 0, all of them, is never  *)
(* taken for it.                                                             *)
THEOREM SnifferTypeCorrect == SnSpec => []SnTypeOK
<1>1. SnInv => SnTypeOK
    BY DEF SnInv
<1> QED
    BY SnifferInvariant, <1>1, PTL

(* For packets of any length with any header length field, no check looks at *)
(* a byte behind the packet.                                                 *)
THEOREM NoReadBehindThePacket == SnSpec => []ReadsWithinPacket
<1>1. SnInv => ReadsWithinPacket
    BY DEF SnInv
<1> QED
    BY SnifferInvariant, <1>1, PTL

(* sniffer_next_knock() returns every knock and nothing else, for packets of *)
(* any length, any ports and any number of interfaces.                       *)
THEOREM KnocksAreRecognised == SnSpec => []VerdictIsRight
<1>1. SnInv => VerdictIsRight
    BY DEF SnInv
<1> QED
    BY SnifferInvariant, <1>1, PTL

=============================================================================
