------------------------------- MODULE FlowId -------------------------------
(***************************************************************************)
(* The flow identifier of MDA (src/src/mt_mda.c): how mda_send writes a    *)
(* flow id into a probe for each flow-identification strategy (-f), and    *)
(* how mda_read_response reads it back from the same probe to file the     *)
(* flow record.                                                            *)
(*                                                                         *)
(* more_flows asks for flow ids in increasing order and sends each with    *)
(* probe_id = flow_id; here each probe is read back before the next is     *)
(* sent, and the record filed for it is kept.  A probe is its bytes from   *)
(* the IP header on, built by the Packet operators.  The UDP checksum and  *)
(* the TCP checksum over IPv6 are not computed: pdu_udp_checksum is not in *)
(* the repository, pdu_ipv6_ph's struct is declared in the missing         *)
(* pdu_ipv6.h, and neither mda_read_response nor a predicate reads them.   *)
(***************************************************************************)
EXTENDS Integers, Sequences, Match

CONSTANTS
    Strategies,   \* the <<address family, -f strategy>> pairs to check
    Ttls,         \* the TTLs mda_send is called with
    Src4, Dst4,   \* dst->ip_src and dst->ip_dst of an IPv4 destination
    Src6, Dst6,   \* and of an IPv6 destination
    OtherIds      \* ids of the other probes of a batch

\* mt_mda.c.
MDA_ICMP_ID == 65535
MDA_UDP_SPORT == 53433
MDA_UDP_DPORT == 33435
MDA_TCP_SPORT == 53433
MDA_TCP_DPORT == 80
MDA_MIN_FLOW_ID == 1
MDA_MAX_FLOW_ID == 255

\* The strategies of parse_flow_id, grouped by the field they vary.
IcmpTypes == {"icmp-chk", "icmp-dst", "icmp-fl", "icmp-tc"}
UdpTypes == {"udp-sport", "udp-dst", "udp-fl", "udp-tc"}
TcpTypes == {"tcp-sport", "tcp-dst", "tcp-fl", "tcp-tc"}
DstTypes == {"icmp-dst", "udp-dst", "tcp-dst"}
FlTypes == {"icmp-fl", "udp-fl", "tcp-fl"}
TcTypes == {"icmp-tc", "udp-tc", "tcp-tc"}
FlowTypes == IcmpTypes \cup UdpTypes \cup TcpTypes

ASSUME Strategies \subseteq {4, 6} \X FlowTypes /\ Ttls \subseteq 0..255

VARIABLES
    family,     \* m->dst->ip_dst->type: 4 or 6
    flowType,   \* m->flow_type
    nextId,     \* the flow id more_flows sends next
    pc,         \* "send", "read", "done" or "crash"
    probe,      \* the probe's bytes
    sent,       \* the flow id and TTL mda_send was called with
    record      \* the flow record add_flow filed for the probe, or NoRecord

vars == <<family, flowType, nextId, pc, probe, sent, record>>

NoRecord == [ttl |-> 0, flowId |-> 0]

-----------------------------------------------------------------------------
(* Writing the flow id: mda_send and the packet helpers it calls.          *)

\* flow_id_to_addr: a copy of the address with flow_id & 0xFF as last byte.
FlowIdToAddr(a, flowId) == [a EXCEPT ![Len(a)] = flowId % 256]

\* The IPv4 header of packet_helper_udp4 and packet_helper_tcp4 (ip_id 0),
\* finalized with pdu_ipv4_length and pdu_ipv4_checksum, and the rest.
Ip4Probe(ttl, proto, dst, rest) ==
    PduIpv4Checksum(PduIpv4Length(
        PduIpv4(IPV4_IHL, 0, 0, 0, 0, ttl, proto, 0, Src4, dst), rest)) \o rest

\* The IPv6 header of packet_helper_udp6 and packet_helper_tcp6, finalized
\* with pdu_ipv6_length and pdu_ipv6_next_header, and the rest.
Ip6Probe(tc, fl, hopLimit, proto, dst, rest) ==
    PduIpv6NextHeader(PduIpv6Length(PduIpv6(tc, fl, 0, 0, hopLimit, Src6, dst), rest),
                      proto) \o rest

\* The UDP header and data of packet_helper_udp4/6 for a checksum argument
\* other than 0: after the buff_swap the checksum field holds
\* htons(checksum), and the 2 data bytes the computed checksum (not
\* modelled, 0 here).
UdpProbe(srcPort, dstPort, checksum) ==
    Store2(PduUdp(srcPort, dstPort, 10, 0), 7, Be16(checksum)) \o <<0, 0>>

\* The TCP SYN of packet_helper_tcp4/6, seq_numb the probe id, before
\* pdu_tcp_checksum.
TcpProbe(srcPort, dstPort, seqNumb) ==
    PduTcp(srcPort, dstPort, seqNumb, 0, TCP_DATA_OFFSET, TCP_SYN, 0, 0, 0)

\* packet_helper_tcp4: the IPv4 probe, then pdu_tcp_checksum over the
\* finished IPv4 header's addresses.
Tcp4Probe(ttl, dst, tcp) ==
    LET ip == SubSeq(Ip4Probe(ttl, PROTO_TCP, dst, tcp), 1, IPV4_H_SIZE)
    IN ip \o PduTcpChecksum4(tcp, ip)

\* The source port mda_send passes: the base port plus flow_id for the
\* -sport strategies (a uint16_t parameter).
SrcPort(base, f, flowId) == IF f \in {"udp-sport", "tcp-sport"} THEN U16(base + flowId) ELSE base

\* mda_send over IPv4: the six strategies it handles; no packet otherwise.
MdaProbe4(f, flowId, probeId, ttl) ==
    LET dst == IF f \in DstTypes THEN FlowIdToAddr(Dst4, flowId) ELSE Dst4
    IN CASE f \in {"udp-dst", "udp-sport"} ->
              Ip4Probe(ttl, PROTO_UDP, dst,
                       UdpProbe(SrcPort(MDA_UDP_SPORT, f, flowId), MDA_UDP_DPORT, probeId))
         [] f \in {"tcp-dst", "tcp-sport"} ->
              Tcp4Probe(ttl, dst,
                        TcpProbe(SrcPort(MDA_TCP_SPORT, f, flowId), MDA_TCP_DPORT, probeId))
         [] f = "icmp-dst" -> PacketHelperEcho4(Src4, dst, ttl, 0, MDA_ICMP_ID, probeId, 4660)
         [] f = "icmp-chk" -> PacketHelperEcho4(Src4, dst, ttl, 0, MDA_ICMP_ID, probeId, flowId)
         [] OTHER -> <<>>

\* mda_send over IPv6: every strategy; the flow id goes into the
\* destination, the traffic class, the flow label, the source port or the
\* ICMP checksum argument.
MdaProbe6(f, flowId, probeId, ttl) ==
    LET dst == IF f \in DstTypes THEN FlowIdToAddr(Dst6, flowId) ELSE Dst6
        tc == IF f \in TcTypes THEN flowId ELSE 0
        fl == IF f \in FlTypes THEN flowId ELSE 0
    IN CASE f \in IcmpTypes ->
              PacketHelperEcho6(Src6, dst, tc, fl, ttl, MDA_ICMP_ID, probeId,
                                IF f = "icmp-chk" THEN flowId ELSE 0)
         [] f \in UdpTypes ->
              Ip6Probe(tc, fl, ttl, PROTO_UDP, dst,
                       UdpProbe(SrcPort(MDA_UDP_SPORT, f, flowId), MDA_UDP_DPORT, probeId))
         [] f \in TcpTypes ->
              Ip6Probe(tc, fl, ttl, PROTO_TCP, dst,
                       TcpProbe(SrcPort(MDA_TCP_SPORT, f, flowId), MDA_TCP_DPORT, probeId))

MdaProbe(flowId, probeId, ttl) ==
    IF family = 4 THEN MdaProbe4(flowType, flowId, probeId, ttl)
    ELSE MdaProbe6(flowType, flowId, probeId, ttl)

\* pdu_eth_ipv4 / pdu_eth_ipv6, the first header every helper appends.  The
\* MAC addresses, which no predicate reads, are zeros here.
PduEth(type) == [i \in 1..12 |-> 0] \o Be16(type)

\* The probe mt_send stores: its frame from the Ethernet header on.
MdaFrame(flowId, probeId, ttl) ==
    PduEth(IF family = 4 THEN ETH_TYPE_IPV4 ELSE ETH_TYPE_IPV6)
        \o MdaProbe(flowId, probeId, ttl)

\* The match_fn mda_send passes to mt_send with the probe.
MdaMatchFn ==
    LET proto == CASE flowType \in IcmpTypes -> "icmp"
                   [] flowType \in UdpTypes  -> "udp"
                   [] flowType \in TcpTypes  -> "tcp"
    IN "match_" \o proto \o (IF family = 4 THEN "4" ELSE "6")

-----------------------------------------------------------------------------
(* The answers the network gives a probe frame: an ICMP error from a       *)
(* router or the destination, quoting the IPv4 header and 8 bytes (RFC 792) *)
(* or the whole IPv6 packet (RFC 4443), and for an echo request the echo    *)
(* reply.  Fields no predicate reads (addresses, checksums) are arbitrary.  *)

IcmpError(type, code, frame) ==
    IF family = 4
    THEN PduEth(ETH_TYPE_IPV4)
            \o PduIpv4(IPV4_IHL, 0, 0, 0, 0, 64, PROTO_ICMPV4, 0, Dst4, Src4)
            \o <<type, code, 0, 0, 0, 0, 0, 0>>
            \o Field(frame, ETH_H_SIZE, IPV4_H_SIZE + 8)
    ELSE PduEth(ETH_TYPE_IPV6)
            \o PduIpv6(0, 0, 0, PROTO_ICMPV6, 64, Dst6, Src6)
            \o <<type, code, 0, 0, 0, 0, 0, 0>>
            \o Field(frame, ETH_H_SIZE, Len(frame) - ETH_H_SIZE)

EchoReply(frame) ==
    LET l4 == IF family = 4 THEN Layer4v4 ELSE Layer4v6
        rep == IF family = 4 THEN ICMPV4_TYPE_ECHOREPLY ELSE ICMPV6_TYPE_ECHOREPLY
    IN [frame EXCEPT ![l4 + 1] = rep]

Answers(frame) ==
    (IF family = 4
     THEN {IcmpError(ICMPV4_TYPE_EXCEEDED, 0, frame), IcmpError(ICMPV4_TYPE_UNREACH, 3, frame)}
     ELSE {IcmpError(ICMPV6_TYPE_EXCEEDED, 0, frame), IcmpError(ICMPV6_TYPE_UNREACH, 4, frame)})
    \cup (IF flowType \in IcmpTypes THEN {EchoReply(frame)} ELSE {})

-----------------------------------------------------------------------------
(* Reading it back: mda_read_response.                                     *)

\* get_flow_id_from_addr: the last byte of the address.
GetFlowIdFromAddr(a) == a[Len(a)]

\* Mutant: the traffic class read without masking off the version.
TrafficClassNoMask(b) == b[1] * 16 + b[2] \div 16

\* (ntohl(version_tc_fl) & 0x0FF00000) >> 20.
TrafficClass(b) == (b[1] % 16) * 16 + b[2] \div 16

\* ntohl(version_tc_fl) & 0x000FFFFF.
FlowLabel(b) == (b[2] % 16) * 65536 + b[3] * 256 + b[4]

\* ntohl applied to the value of a uint16_t field: the value's host-order
\* (little-endian) bytes, which are the field's bytes, become the two high
\* bytes of the result; the two low bytes are 0.  The result's bytes, most
\* significant first:
NtohlOfU16(b, i) == <<b[i], b[i + 1], 0, 0>>

\* The low 16 bits of a uint32 given by its bytes, most significant first.
Low16(w) == w[3] * 256 + w[4]

\* ihdr->ttl or ihdr->hop_limit.
ReadTtl(b) == IF family = 4 THEN b[9] ELSE b[8]

\* The flow_id computed by mda_read_response (an int), before add_flow
\* narrows it to uint16_t.  The transport header starts at 21 (IPv4) or 41.
ReadFlowId(b) ==
    IF family = 4
    THEN CASE flowType \in DstTypes -> GetFlowIdFromAddr(SubSeq(b, 17, 20))
           [] flowType = "udp-sport" -> Ntohs(b, 21) - MDA_UDP_SPORT
           [] flowType = "icmp-chk" -> Ntohs(b, 23)
           [] flowType = "tcp-sport" -> Low16(NtohlOfU16(b, 21)) - MDA_TCP_SPORT
           [] OTHER -> 0
    ELSE CASE flowType \in DstTypes -> GetFlowIdFromAddr(SubSeq(b, 25, 40))
           [] flowType \in FlTypes -> FlowLabel(b)
           [] flowType \in TcTypes -> TrafficClass(b)
           [] flowType = "udp-sport" -> Ntohs(b, 41) - MDA_UDP_SPORT
           [] flowType = "icmp-chk" -> Ntohs(b, 43)
           [] flowType = "tcp-sport" -> Ntohs(b, 41) - MDA_TCP_SPORT

-----------------------------------------------------------------------------

Init ==
    /\ \E s \in Strategies : family = s[1] /\ flowType = s[2]
    /\ nextId = MDA_MIN_FLOW_ID
    /\ pc = "send"
    /\ probe = <<>>
    /\ sent = NoRecord
    /\ record = NoRecord

\* mda_send(mda, flow_id, flow_id, ttl).  With an IPv4 destination and a
\* strategy mda_send has no branch for, p stays NULL and
\* packet_destroy(NULL) dereferences it.
MdaSend ==
    /\ pc = "send"
    /\ nextId <= MDA_MAX_FLOW_ID
    /\ \E t \in Ttls :
          /\ probe' = MdaProbe(nextId, nextId, t)
          /\ sent' = [ttl |-> t, flowId |-> nextId]
    /\ nextId' = nextId + 1
    /\ pc' = IF probe' = <<>> THEN "crash" ELSE "read"
    /\ UNCHANGED <<family, flowType, record>>

\* mda_read_response: read the TTL and the flow id back from the probe and
\* add_flow them (uint16_t flow_id).  Both the answered and the '*' branch
\* file the same TTL and flow id.
MdaReadResponse ==
    /\ pc = "read"
    /\ record' = [ttl |-> ReadTtl(probe), flowId |-> U16(ReadFlowId(probe))]
    /\ pc' = "send"
    /\ UNCHANGED <<family, flowType, nextId, probe, sent>>

\* get_nth_flow_id_available returns -1: no flow id is left.
FlowIdsExhausted ==
    /\ pc = "send"
    /\ nextId > MDA_MAX_FLOW_ID
    /\ pc' = "done"
    /\ UNCHANGED <<family, flowType, nextId, probe, sent, record>>

Terminated == pc = "done" /\ UNCHANGED vars

Next == MdaSend \/ MdaReadResponse \/ FlowIdsExhausted \/ Terminated

Spec == Init /\ [][Next]_vars

-----------------------------------------------------------------------------
(* Properties.                                                             *)

\* The flow record mda_read_response files for a probe carries the TTL and
\* the flow id mda_send wrote into it, for every flow id from
\* MDA_MIN_FLOW_ID to MDA_MAX_FLOW_ID.
FlowIdRoundTrip ==
    pc = "send" /\ record # NoRecord => record = sent

\* Within one batch mda sends probes of distinct flow ids, each with
\* probe id = flow id (more_flows, next_hops), or probes of one flow with
\* distinct probe ids (is_per_packet), all at one TTL.  The predicate
\* mda_send registers with a probe accepts every answer to that probe and
\* rejects every answer to any other probe of such a batch, whatever field
\* the strategy puts the flow id in.
MatchDistinguishesProbes ==
    pc = "read" =>
        LET f == sent.flowId
            t == sent.ttl
            own == MdaFrame(f, f, t)
            others == {MdaFrame(g, g, t) : g \in OtherIds \ {f}}
                      \cup {MdaFrame(f, j, t) : j \in OtherIds \ {f}}
        IN  /\ \A a \in Answers(own) : ProbeMatch(MdaMatchFn, own, a)
            /\ \A q \in others : \A a \in Answers(q) : ~ProbeMatch(MdaMatchFn, own, a)

\* A probe that does not verify is dropped by the first router and never
\* answered.  Every probe mda_send builds whose checksum the code computes
\* in full verifies: an icmp-chk probe, which carries the flow id in its
\* checksum field, over its ICMP message (and the IPv6 pseudo-header for
\* ICMPv6), and a TCP SYN over IPv4 over the TCP pseudo-header.
ProbeChecksumsVerify ==
    pc = "read" =>
        /\ flowType = "icmp-chk" =>
              IF family = 4
              THEN /\ Verifies(SubSeq(probe, 21, Len(probe)))
                   /\ Ntohs(probe, 23) = sent.flowId
              ELSE /\ Verifies(SubSeq(probe, 9, 40) \o Be32(Len(probe) - 40)
                               \o <<0, 0, 0, PROTO_ICMPV6>> \o SubSeq(probe, 41, Len(probe)))
                   /\ Ntohs(probe, 43) = sent.flowId
        /\ family = 4 /\ flowType \in TcpTypes =>
              Verifies(SubSeq(probe, 13, 20) \o <<0, PROTO_TCP>> \o Be16(Len(probe) - 20)
                       \o SubSeq(probe, 21, Len(probe)))
=============================================================================
